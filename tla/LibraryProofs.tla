---------------------------- MODULE LibraryProofs ---------------------------
(***************************************************************************)
(* The memory and string functions, parse_arg, itoa, printf and grep, for  *)
(* every memory, address, count, text, command, number, format and file.   *)
(*                                                                         *)
(* A loop that writes is shown to compute, after each turn, what a closed  *)
(* form says of it: that solves the equation of the recursive function,    *)
(* and nothing else does.  Where there is no closed form (the digits of    *)
(* itoa, the joined pieces of a format) Iterates gives a solution.  A loop *)
(* that looks stops at the least index at which it may.                    *)
(***************************************************************************)
EXTENDS Programs, TLAPS, WellFoundedInduction, FiniteSetTheorems

LEMMA Least ==
  ASSUME NEW S \in SUBSET Nat, S # {}
  PROVE  \E n \in S : \A k \in S : n <= k
<1>1. IsWellFoundedOn(OpToRel(<, Nat), Nat)
  BY NatLessThanWellFounded
<1>2. \E n \in S : \A k \in S : ~ (<<k, n>> \in OpToRel(<, Nat))
  BY <1>1, WFMin
<1>3. PICK n \in S : \A k \in S : ~ (<<k, n>> \in OpToRel(<, Nat))
  BY <1>2
<1>4. \A k \in S : ~ (k < n)
  BY <1>3 DEF OpToRel
<1> QED BY <1>4

(* Two functions that agree at b and, wherever they agree, at the next     *)
(* number.                                                                 *)
LEMMA AgreeFrom ==
  ASSUME NEW b \in Nat, NEW n \in Nat, b <= n, NEW f, NEW g, f[b] = g[b],
         \A j \in b + 1 .. n : f[j - 1] = g[j - 1] => f[j] = g[j]
  PROVE  f[n] = g[n]
<1> DEFINE B == {j \in b .. n : f[j] # g[j]}
<1>1. SUFFICES ASSUME B # {} PROVE FALSE
  BY <1>1
<1>2. B \in SUBSET Nat
  OBVIOUS
<1>3. PICK j \in B : \A k \in B : j <= k
  BY <1>1, <1>2, Least, Zenon
<1>4. j \in b .. n /\ f[j] # g[j]
  OBVIOUS
<1>5. j \in b + 1 .. n /\ j - 1 \in b .. n /\ ~(j <= j - 1)
  BY <1>4
<1>6. f[j - 1] = g[j - 1]
  BY <1>3, <1>5
<1> QED BY <1>4, <1>5, <1>6, Zenon

LEMMA Agree ==
  ASSUME NEW n \in Nat, NEW f, NEW g, f[0] = g[0],
         \A j \in 1 .. n : f[j - 1] = g[j - 1] => f[j] = g[j]
  PROVE  f[n] = g[n]
<1>1. 0 \in Nat /\ 0 <= n /\ 0 + 1 = 1
  OBVIOUS
<1>2. \A j \in 0 + 1 .. n : f[j - 1] = g[j - 1] => f[j] = g[j]
  BY <1>1, Zenon
<1> QED BY <1>1, <1>2, AgreeFrom
-----------------------------------------------------------------------------
(* K bytes of memory, and the sizes of stosb, stosw and stosl.             *)
IsMem(m, K) == DOMAIN m = 0 .. K - 1 /\ m = [x \in 0 .. K - 1 |-> m[x]]
UnitLen(u, L) == L \in {1, 2, 4} /\ Len(u) = L

(* stos: j units have been stored.                                         *)
Stored(m, s, u, L, j) == [x \in DOMAIN m |-> IF s <= x /\ x < s + L * j THEN u[((x - s) % L) + 1] ELSE m[x]]

Follows(m, s, u, L, j) == Put(Stored(m, s, u, L, j - 1), s + Len(u) * (j - 1), u) = Stored(m, s, u, L, j)
LEMMA StoreTurn ==
  ASSUME NEW K \in Nat, NEW m, IsMem(m, K), NEW s \in Nat, NEW u, NEW L, UnitLen(u, L),
         NEW j \in Nat \ {0}
  PROVE  Follows(m, s, u, L, j)
<1> DEFINE p == Stored(m, s, u, L, j - 1)
           a == s + L * (j - 1)
           D == 0 .. K - 1
<1>0. L \in {1, 2, 4} /\ Len(u) = L
  BY DEF UnitLen
<1>1. DOMAIN m = D /\ DOMAIN p = D
  BY Zenon DEF Stored, IsMem
<1>2. \A x \in D : p[x] = IF s <= x /\ x < a THEN u[((x - s) % L) + 1] ELSE m[x]
  BY <1>1 DEF Stored
<1>3. Put(p, a, u) = [x \in D |-> IF x \in a .. a + L - 1 THEN u[x - a + 1] ELSE p[x]]
  BY <1>0, <1>1 DEF Put
<1> HIDE DEF p
<1>4. s + L * j = a + L /\ a \in Nat /\ a >= s /\ L \in Nat
  BY <1>0 DEF a
<1>5. \A x \in D : x \in a .. a + L - 1 => (x - s) % L = x - a
  BY <1>0 DEF a
<1> HIDE DEF D
<1>6. ASSUME NEW x \in D
      PROVE  (IF x \in a .. a + L - 1 THEN u[x - a + 1] ELSE p[x])
             = IF s <= x /\ x < s + L * j THEN u[((x - s) % L) + 1] ELSE m[x]
  <2>1. x \in Nat
    BY DEF D
  <2> HIDE DEF a
  <2>2. CASE x \in a .. a + L - 1
    <3>1. s <= x /\ x < s + L * j /\ x - a + 1 = ((x - s) % L) + 1
      BY <1>4, <1>5, <2>1, <2>2
    <3> QED BY <2>2, <3>1, Zenon
  <2>3. CASE x \notin a .. a + L - 1
    <3>1. (s <= x /\ x < s + L * j) <=> (s <= x /\ x < a)
      BY <1>4, <2>1, <2>3
    <3> QED BY <1>2, <2>3, <3>1, Zenon
  <2> QED BY <2>2, <2>3
<1>7. Stored(m, s, u, L, j) = [x \in D |-> IF s <= x /\ x < s + L * j THEN u[((x - s) % L) + 1] ELSE m[x]]
  BY <1>1, Zenon DEF Stored
<1>8. Put(p, a, u) = Stored(m, s, u, L, j)
  BY <1>3, <1>6, <1>7, Zenon
<1> QED BY <1>0, <1>8 DEF Follows, p, a

StoresAll(m, s, u, L, n) == Store(m, s, u, n) = Stored(m, s, u, L, n)
LEMMA StoreIs ==
  ASSUME NEW K \in Nat, NEW m, IsMem(m, K), NEW s \in Nat, NEW u, NEW L, UnitLen(u, L),
         NEW n \in Nat
  PROVE  StoresAll(m, s, u, L, n)
<1> DEFINE f == CHOOSE f : f = [j \in 0 .. n |-> IF j = 0 THEN m ELSE Put(f[j - 1], s + Len(u) * (j - 1), u)]
           g == [j \in 0 .. n |-> Stored(m, s, u, L, j)]
<1>1. Store(m, s, u, n) = f[n]
  BY DEF Store
<1>2. Stored(m, s, u, L, 0) = m
  <2>1. DOMAIN m = 0 .. K - 1 /\ m = [x \in 0 .. K - 1 |-> m[x]]
    BY DEF IsMem
  <2>2. \A x \in 0 .. K - 1 : ~(s <= x /\ x < s + L * 0)
    BY DEF UnitLen
  <2> QED BY <2>1, <2>2, Zenon DEF Stored
<1>3. \A j \in 0 .. n : j # 0 => g[j] = Put(g[j - 1], s + Len(u) * (j - 1), u)
  <2> TAKE j \in 0 .. n
  <2>1. ASSUME j # 0 PROVE g[j] = Put(g[j - 1], s + Len(u) * (j - 1), u)
    <3>1. j \in Nat \ {0} /\ j - 1 \in 0 .. n
      BY <2>1
    <3>2. g[j] = Stored(m, s, u, L, j) /\ g[j - 1] = Stored(m, s, u, L, j - 1)
      BY <3>1, Zenon
    <3> HIDE DEF f, g
    <3>3. Follows(m, s, u, L, j)
      BY <3>1, StoreTurn, Zenon
    <3> QED BY <3>2, <3>3, Zenon DEF Follows
  <2> QED BY <2>1
<1>4. g[0] = m
  <2>1. 0 \in 0 .. n
    OBVIOUS
  <2> QED BY <1>2, <2>1, Zenon
<1>5. g = [j \in 0 .. n |-> IF j = 0 THEN m ELSE Put(g[j - 1], s + Len(u) * (j - 1), u)]
  <2>1. \A j \in 0 .. n : g[j] = IF j = 0 THEN m ELSE Put(g[j - 1], s + Len(u) * (j - 1), u)
    BY <1>3, <1>4, Zenon
  <2>2. g = [j \in 0 .. n |-> g[j]]
    OBVIOUS
  <2> HIDE DEF g
  <2> QED BY <2>1, <2>2, Zenon
<1>6. f = [j \in 0 .. n |-> IF j = 0 THEN m ELSE Put(f[j - 1], s + Len(u) * (j - 1), u)]
  <2> HIDE DEF g
  <2> QED BY <1>5, Zenon
<1>7. g[n] = Stored(m, s, u, L, n)
  <2>1. n \in 0 .. n
    OBVIOUS
  <2> QED BY <2>1, Zenon
<1> HIDE DEF f, g
<1>8. f[n] = g[n]
  <2>1. \A j \in 1 .. n : j \in 0 .. n /\ j # 0
    OBVIOUS
  <2>2. 0 \in 0 .. n
    OBVIOUS
  <2>3. f[0] = m
    BY <1>6, <2>2, Zenon
  <2>4. \A j \in 1 .. n : f[j] = Put(f[j - 1], s + Len(u) * (j - 1), u)
    BY <1>6, <2>1, Zenon
  <2>5. \A j \in 1 .. n : f[j - 1] = g[j - 1] => f[j] = g[j]
    BY <1>3, <2>1, <2>4, Zenon
  <2>6. f[0] = g[0]
    BY <1>4, <2>3, Zenon
  <2> QED BY <2>5, <2>6, Agree
<1> QED BY <1>1, <1>7, <1>8, Zenon DEF StoresAll
-----------------------------------------------------------------------------
(* movs: the bytes from lo up to hi have been copied.                      *)
Copied(m, d, s, lo, hi) ==
  [x \in DOMAIN m |-> IF lo <= x /\ x < hi THEN m[s + (x - d)] ELSE m[x]]

(* One more unit at a, next to what has been copied, when the bytes it     *)
(* reads are none of those.                                                *)
Joins(lo, hi, a, L, lo2, hi2) ==
  \/ a = hi /\ lo2 = lo /\ hi2 = hi + L
  \/ a + L = lo /\ lo2 = a /\ hi2 = hi
LEMMA MoveTurn ==
  ASSUME NEW K \in Nat, NEW m, IsMem(m, K), NEW d \in Nat, NEW s \in Nat,
         NEW lo \in Int, NEW hi \in Int, lo <= hi, NEW a \in Int, NEW b \in Nat, NEW L \in Nat,
         b = a + (s - d), b + L <= K, b + L <= lo \/ hi <= b,
         NEW lo2 \in Int, NEW hi2 \in Int, Joins(lo, hi, a, L, lo2, hi2)
  PROVE  Put(Copied(m, d, s, lo, hi), a, Unit(Copied(m, d, s, lo, hi), b, L)) = Copied(m, d, s, lo2, hi2)
<1> DEFINE p == Copied(m, d, s, lo, hi)
           D == 0 .. K - 1
           u == Unit(p, b, L)
<1>1. DOMAIN m = D /\ DOMAIN p = D
  BY Zenon DEF Copied, IsMem
<1>2. \A x \in D : p[x] = IF lo <= x /\ x < hi THEN m[s + (x - d)] ELSE m[x]
  BY <1>1, Zenon DEF Copied
<1> HIDE DEF p
<1>3. u = [k \in 1 .. L |-> p[b + k - 1]]
  BY DEF Unit
<1>4. Len(u) = L /\ \A k \in 1 .. L : u[k] = p[b + k - 1]
  BY <1>3
<1>5. Put(p, a, u) = [x \in D |-> IF x \in a .. a + L - 1 THEN u[x - a + 1] ELSE p[x]]
  BY <1>1, <1>4 DEF Put
<1> HIDE DEF u
<1>6. ASSUME NEW x \in D, x \in a .. a + L - 1 PROVE u[x - a + 1] = m[s + (x - d)] /\ lo2 <= x /\ x < hi2
  <2>1. x - a + 1 \in 1 .. L /\ b + (x - a + 1) - 1 = s + (x - d) /\ lo2 <= x /\ x < hi2
    BY <1>6 DEF Joins
  <2>2. s + (x - d) \in D /\ ~(lo <= s + (x - d) /\ s + (x - d) < hi)
    BY <1>6
  <2>3. u[x - a + 1] = p[s + (x - d)]
    BY <1>4, <2>1
  <2>4. p[s + (x - d)] = m[s + (x - d)]
    BY <1>2, <2>2, Zenon
  <2> QED BY <2>1, <2>3, <2>4
<1>7. ASSUME NEW x \in D, x \notin a .. a + L - 1
      PROVE  (lo <= x /\ x < hi) <=> (lo2 <= x /\ x < hi2)
  BY <1>7 DEF Joins
<1> HIDE DEF D
<1>8. \A x \in D : (IF x \in a .. a + L - 1 THEN u[x - a + 1] ELSE p[x])
                   = IF lo2 <= x /\ x < hi2 THEN m[s + (x - d)] ELSE m[x]
  BY <1>2, <1>6, <1>7, Zenon
<1>9. Copied(m, d, s, lo2, hi2) = [x \in D |-> IF lo2 <= x /\ x < hi2 THEN m[s + (x - d)] ELSE m[x]]
  BY <1>1, Zenon DEF Copied
<1>10. Put(p, a, u) = Copied(m, d, s, lo2, hi2)
  BY <1>5, <1>8, <1>9, Zenon
<1> QED BY <1>10 DEF p, u

(* What the loop computes when g[j] is the memory after j turns.           *)
MoveStep(p, d, s, k, step, j) == Put(p, d + step * (j - 1), Unit(p, s + step * (j - 1), k))
Turns(g, d, s, k, step, n) ==
  g = [j \in 0 .. n |-> g[j]] /\ \A j \in 1 .. n : g[j] = MoveStep(g[j - 1], d, s, k, step, j)
LEMMA MoveIs ==
  ASSUME NEW g, NEW d, NEW s, NEW k, NEW step, NEW n \in Nat, Turns(g, d, s, k, step, n)
  PROVE  Move(g[0], d, s, k, step, n) = g[n]
<1>0. g = [j \in 0 .. n |-> g[j]] /\ \A j \in 1 .. n : g[j] = MoveStep(g[j - 1], d, s, k, step, j)
  BY DEF Turns
<1> DEFINE m == g[0]
           f == CHOOSE f : f = [j \in 0 .. n |-> IF j = 0 THEN m ELSE MoveStep(f[j - 1], d, s, k, step, j)]
<1>1. Move(m, d, s, k, step, n) = f[n]
  BY Zenon DEF Move, MoveStep
<1> HIDE DEF m
<1>2. g = [j \in 0 .. n |-> IF j = 0 THEN m ELSE MoveStep(g[j - 1], d, s, k, step, j)]
  <2>1. \A j \in 0 .. n : j = 0 \/ j \in 1 .. n
    OBVIOUS
  <2>2. \A j \in 0 .. n : g[j] = IF j = 0 THEN m ELSE MoveStep(g[j - 1], d, s, k, step, j)
    BY <1>0, <2>1, Zenon DEF m
  <2> QED BY <1>0, <2>2, Zenon
<1>3. f = [j \in 0 .. n |-> IF j = 0 THEN m ELSE MoveStep(f[j - 1], d, s, k, step, j)]
  BY <1>2, Zenon
<1> HIDE DEF f
<1>4. (\A j \in 1 .. n : j \in 0 .. n /\ j # 0) /\ 0 \in 0 .. n
  OBVIOUS
<1>5. f[0] = g[0]
  BY <1>3, <1>4, Zenon DEF m
<1>6. \A j \in 1 .. n : f[j - 1] = g[j - 1] => f[j] = g[j]
  BY <1>0, <1>3, <1>4, Zenon
<1>7. f[n] = g[n]
  BY <1>5, <1>6, Agree
<1> QED BY <1>1, <1>7, Zenon DEF m

LEMMA CopiedNone ==
  ASSUME NEW K \in Nat, NEW m, IsMem(m, K), NEW d, NEW s, NEW lo \in Int, NEW hi \in Int, hi <= lo
  PROVE  Copied(m, d, s, lo, hi) = m
<1>1. DOMAIN m = 0 .. K - 1 /\ m = [x \in 0 .. K - 1 |-> m[x]]
  BY DEF IsMem
<1>2. \A x \in 0 .. K - 1 : ~(lo <= x /\ x < hi)
  OBVIOUS
<1> QED BY <1>1, <1>2, Zenon DEF Copied

GoesUp(m, d, s, h, L, n) ==
  Move(Copied(m, d, s, d, d + h), d + h, s + h, L, L, n) = Copied(m, d, s, d, d + h + L * n)
LEMMA MoveUp ==
  ASSUME NEW K \in Nat, NEW m, IsMem(m, K), NEW d \in Nat, NEW s \in Nat, NEW h \in Nat,
         NEW L \in {1, 4}, NEW n \in Nat, s + h + L * n <= K, d <= s \/ s + h + L * n <= d
  PROVE  GoesUp(m, d, s, h, L, n)
<1> DEFINE G(j) == Copied(m, d, s, d, d + h + L * j)
           g == [j \in 0 .. n |-> G(j)]
<1>1. (\A j \in 0 .. n : g[j] = G(j)) /\ DOMAIN g = 0 .. n /\ g = [j \in 0 .. n |-> g[j]]
  OBVIOUS
<1>2. 0 \in 0 .. n /\ n \in 0 .. n /\ d + h + L * 0 = d + h
  OBVIOUS
<1> HIDE DEF g
<1>3. g[0] = Copied(m, d, s, d, d + h) /\ g[n] = Copied(m, d, s, d, d + h + L * n)
  BY <1>1, <1>2
<1>4. ASSUME NEW j \in 1 .. n PROVE g[j] = MoveStep(g[j - 1], d + h, s + h, L, L, j)
  <2> DEFINE hi == d + h + L * (j - 1)
             hi2 == d + h + L * j
             a == d + h + L * (j - 1)
             b == s + h + L * (j - 1)
  <2>1. g[j] = Copied(m, d, s, d, hi2) /\ g[j - 1] = Copied(m, d, s, d, hi)
    <3>1. j \in 0 .. n /\ j - 1 \in 0 .. n
      OBVIOUS
    <3> QED BY <1>1, <3>1, Zenon
  <2>2. /\ hi \in Int /\ hi2 \in Int /\ d \in Int /\ d <= hi /\ a \in Int /\ b \in Nat /\ L \in Nat
        /\ b = a + (s - d) /\ hi2 = hi + L /\ a = hi
    OBVIOUS
  <2>3. L * (j - 1) + L <= L * n
    OBVIOUS
  <2>4. b + L <= K /\ (b + L <= d \/ hi <= b)
    BY <2>3
  <2> HIDE DEF hi, hi2, a, b
  <2>5. Joins(d, hi, a, L, d, hi2)
    BY <2>2, Zenon DEF Joins
  <2>6. Put(Copied(m, d, s, d, hi), a, Unit(Copied(m, d, s, d, hi), b, L)) = Copied(m, d, s, d, hi2)
    BY <2>2, <2>4, <2>5, MoveTurn
  <2> QED BY <2>1, <2>6, Zenon DEF MoveStep, a, b
<1>5. Turns(g, d + h, s + h, L, L, n)
  BY <1>1, <1>4, Zenon DEF Turns
<1>6. Move(g[0], d + h, s + h, L, L, n) = g[n]
  BY <1>5, MoveIs
<1> QED BY <1>3, <1>6, Zenon DEF GoesUp

LEMMA MoveDown ==
  ASSUME NEW K \in Nat, NEW m, IsMem(m, K), NEW d \in Nat, NEW s \in Nat, NEW n \in Nat, s + n <= K, s < d
  PROVE  Move(m, d + n - 1, s + n - 1, 1, -1, n) = Copied(m, d, s, d, d + n)
<1> DEFINE G(j) == Copied(m, d, s, d + n - j, d + n)
           g == [j \in 0 .. n |-> G(j)]
<1>1. (\A j \in 0 .. n : g[j] = G(j)) /\ DOMAIN g = 0 .. n /\ g = [j \in 0 .. n |-> g[j]]
  OBVIOUS
<1>2. 0 \in 0 .. n /\ n \in 0 .. n /\ d + n - 0 = d + n /\ d + n - n = d /\ d + n \in Int /\ d + n <= d + n
  OBVIOUS
<1> HIDE DEF g
<1>3. g[0] = m /\ g[n] = Copied(m, d, s, d, d + n)
  <2>1. g[0] = Copied(m, d, s, d + n, d + n) /\ g[n] = Copied(m, d, s, d, d + n)
    BY <1>1, <1>2
  <2>2. Copied(m, d, s, d + n, d + n) = m
    BY <1>2, CopiedNone
  <2> QED BY <2>1, <2>2
<1>4. ASSUME NEW j \in 1 .. n PROVE g[j] = MoveStep(g[j - 1], d + n - 1, s + n - 1, 1, -1, j)
  <2> DEFINE lo == d + n - (j - 1)
             hi == d + n
             lo2 == d + n - j
             a == d + n - 1 + (-1) * (j - 1)
             b == s + n - 1 + (-1) * (j - 1)
  <2>1. g[j] = Copied(m, d, s, lo2, hi) /\ g[j - 1] = Copied(m, d, s, lo, hi)
    <3>1. j \in 0 .. n /\ j - 1 \in 0 .. n
      OBVIOUS
    <3> QED BY <1>1, <3>1, Zenon
  <2>2. /\ lo \in Int /\ hi \in Int /\ lo2 \in Int /\ lo <= hi /\ a \in Int /\ b \in Nat /\ 1 \in Nat
        /\ b = a + (s - d) /\ a + 1 = lo /\ lo2 = a /\ b + 1 <= K /\ b + 1 <= lo
    OBVIOUS
  <2> HIDE DEF lo, hi, lo2, a, b
  <2>3. Joins(lo, hi, a, 1, lo2, hi)
    BY <2>2, Zenon DEF Joins
  <2>4. Put(Copied(m, d, s, lo, hi), a, Unit(Copied(m, d, s, lo, hi), b, 1)) = Copied(m, d, s, lo2, hi)
    BY <2>2, <2>3, MoveTurn
  <2> QED BY <2>1, <2>4, Zenon DEF MoveStep, a, b
<1>5. Turns(g, d + n - 1, s + n - 1, 1, -1, n)
  BY <1>1, <1>4, Zenon DEF Turns
<1>6. Move(g[0], d + n - 1, s + n - 1, 1, -1, n) = g[n]
  BY <1>5, MoveIs, Zenon
<1> QED BY <1>3, <1>6, Zenon

LEMMA Boundary == ASSUME NEW a \in Nat, NEW n \in Nat PROVE ToBoundary(a, n) \in 0 .. n
<1> DEFINE T == {k \in 0 .. n : k = n \/ (a + k) % 4 = 0}
<1>1. T \in SUBSET Nat /\ n \in T
  OBVIOUS
<1>2. PICK k \in T : \A j \in T : k <= j
  <2> HIDE DEF T
  <2> QED BY <1>1, Least
<1>3. \A j \in 0 .. k - 1 : j \in 0 .. n /\ ~(k <= j)
  BY <1>1
<1>4. \A j \in 0 .. k - 1 : (a + j) % 4 # 0
  BY <1>2, <1>3, Zenon
<1>5. k \in 0 .. n /\ (k = n \/ (a + k) % 4 = 0)
  OBVIOUS
<1> QED BY <1>4, <1>5, Zenon DEF ToBoundary
-----------------------------------------------------------------------------
(* The functions, in terms of With.                                        *)
Placed(m, K, d, n, w) ==
  With(m, d, w) = [x \in 0 .. K - 1 |-> IF d <= x /\ x < d + n THEN w[x - d] ELSE m[x]]
LEMMA WithIs ==
  ASSUME NEW K \in Nat, NEW m, IsMem(m, K), NEW d \in Nat, NEW n \in Nat, NEW w, DOMAIN w = 0 .. n - 1
  PROVE  Placed(m, K, d, n, w)
<1>1. DOMAIN m = 0 .. K - 1
  BY DEF IsMem
<1>2. \A x \in 0 .. K - 1 : (x - d \in DOMAIN w) <=> (d <= x /\ x < d + n)
  OBVIOUS
<1> QED BY <1>1, <1>2, Zenon DEF With, Placed

Arrived(m, d, s, n) == Copied(m, d, s, d, d + n) = With(m, d, [i \in 0 .. n - 1 |-> m[s + i]])
LEMMA CopiedIs ==
  ASSUME NEW K \in Nat, NEW m, IsMem(m, K), NEW d \in Nat, NEW s \in Nat, NEW n \in Nat
  PROVE  Arrived(m, d, s, n)
<1> DEFINE w == [i \in 0 .. n - 1 |-> m[s + i]]
<1>1. DOMAIN w = 0 .. n - 1 /\ \A i \in 0 .. n - 1 : w[i] = m[s + i]
  OBVIOUS
<1>2. DOMAIN m = 0 .. K - 1
  BY DEF IsMem
<1> HIDE DEF w
<1>3. With(m, d, w) = [x \in 0 .. K - 1 |-> IF d <= x /\ x < d + n THEN w[x - d] ELSE m[x]]
  <2>1. Placed(m, K, d, n, w)
    BY <1>1, WithIs, Zenon
  <2> QED BY <2>1, Zenon DEF Placed
<1>4. \A x \in 0 .. K - 1 : (d <= x /\ x < d + n) => x - d \in 0 .. n - 1
  OBVIOUS
<1>5. \A x \in 0 .. K - 1 : (d <= x /\ x < d + n) => w[x - d] = m[s + (x - d)]
  BY <1>1, <1>4, Zenon
<1>6. Copied(m, d, s, d, d + n) = [x \in 0 .. K - 1 |-> IF d <= x /\ x < d + n THEN m[s + (x - d)] ELSE m[x]]
  BY <1>2, Zenon DEF Copied
<1>7. Copied(m, d, s, d, d + n) = With(m, d, w)
  BY <1>3, <1>5, <1>6, Zenon
<1> QED BY <1>7 DEF w, Arrived

Repeats(m, d, u, L, n) == Store(m, d, u, n) = With(m, d, [i \in 0 .. L * n - 1 |-> u[(i % L) + 1]])
LEMMA StoredIs ==
  ASSUME NEW K \in Nat, NEW m, IsMem(m, K), NEW d \in Nat, NEW u, NEW L, UnitLen(u, L), NEW n \in Nat
  PROVE  Repeats(m, d, u, L, n)
<1> DEFINE k == L * n
           w == [i \in 0 .. k - 1 |-> u[(i % L) + 1]]
<1>0. k \in Nat
  BY DEF UnitLen
<1>1. DOMAIN w = 0 .. k - 1 /\ \A i \in 0 .. k - 1 : w[i] = u[(i % L) + 1]
  BY Zenon
<1>2. DOMAIN m = 0 .. K - 1
  BY DEF IsMem
<1>3. Store(m, d, u, n) = Stored(m, d, u, L, n)
  <2>1. StoresAll(m, d, u, L, n)
    BY StoreIs, Zenon
  <2> QED BY <2>1, Zenon DEF StoresAll
<1>4. Stored(m, d, u, L, n) = [x \in 0 .. K - 1 |-> IF d <= x /\ x < d + k THEN u[((x - d) % L) + 1] ELSE m[x]]
  BY <1>2, Zenon DEF Stored
<1> HIDE DEF w, k
<1>5. With(m, d, w) = [x \in 0 .. K - 1 |-> IF d <= x /\ x < d + k THEN w[x - d] ELSE m[x]]
  <2>1. Placed(m, K, d, k, w)
    BY <1>0, <1>1, WithIs, Zenon
  <2> QED BY <2>1, Zenon DEF Placed
<1>6. \A x \in 0 .. K - 1 : (d <= x /\ x < d + k) => x - d \in 0 .. k - 1
  BY <1>0
<1>7. \A x \in 0 .. K - 1 : (d <= x /\ x < d + k) => w[x - d] = u[((x - d) % L) + 1]
  BY <1>1, <1>6, Zenon
<1>8. With(m, d, w) = Stored(m, d, u, L, n)
  BY <1>4, <1>5, <1>7, Zenon
<1> QED BY <1>3, <1>8 DEF w, k, Repeats

(* One value throughout, in units of any size.                             *)
Filled(m, d, b, k) == [x \in DOMAIN m |-> IF d <= x /\ x < d + k THEN b ELSE m[x]]
Same(u, b) == \A i \in 1 .. Len(u) : u[i] = b
LEMMA FillMore ==
  ASSUME NEW K \in Nat, NEW m, IsMem(m, K), NEW d \in Nat, NEW k \in Nat, NEW b, NEW u, NEW L, UnitLen(u, L),
         Same(u, b), NEW n \in Nat
  PROVE  Store(Filled(m, d, b, k), d + k, u, n) = Filled(m, d, b, k + L * n)
<1> DEFINE p == Filled(m, d, b, k)
           e == d + k
           r == L * n
<1>0. e \in Nat /\ r \in Nat /\ L \in {1, 2, 4} /\ Len(u) = L
  BY DEF UnitLen
<1>1. DOMAIN m = 0 .. K - 1
  BY DEF IsMem
<1>2. IsMem(p, K) /\ \A x \in 0 .. K - 1 : p[x] = IF d <= x /\ x < d + k THEN b ELSE m[x]
  BY <1>1 DEF IsMem, Filled
<1> HIDE DEF p
<1>3. Store(p, e, u, n) = Stored(p, e, u, L, n)
  <2> HIDE DEF e
  <2>1. StoresAll(p, e, u, L, n)
    BY <1>0, <1>2, StoreIs, Zenon
  <2> QED BY <2>1, Zenon DEF StoresAll
<1>4. Stored(p, e, u, L, n) = [x \in 0 .. K - 1 |-> IF e <= x /\ x < e + r THEN u[((x - e) % L) + 1] ELSE p[x]]
  <2>1. DOMAIN p = 0 .. K - 1
    BY <1>2 DEF IsMem
  <2> QED BY <2>1, Zenon DEF Stored
<1>5. \A x \in 0 .. K - 1 : (e <= x /\ x < e + r) => u[((x - e) % L) + 1] = b
  <2>1. \A x \in 0 .. K - 1 : (e <= x /\ x < e + r) => ((x - e) % L) + 1 \in 1 .. Len(u)
    <3> HIDE DEF r
    <3> QED BY <1>0
  <2> QED BY <2>1, Zenon DEF Same
<1>6. \A x \in 0 .. K - 1 : (IF e <= x /\ x < e + r THEN b ELSE p[x]) = IF d <= x /\ x < d + (k + r) THEN b ELSE m[x]
  <2> HIDE DEF r
  <2> QED BY <1>0, <1>2
<1>7. Filled(m, d, b, k + r) = [x \in 0 .. K - 1 |-> IF d <= x /\ x < d + (k + r) THEN b ELSE m[x]]
  BY <1>1, Zenon DEF Filled
<1> HIDE DEF r, e
<1>8. Stored(p, e, u, L, n) = Filled(m, d, b, k + r)
  BY <1>4, <1>5, <1>6, <1>7, Zenon
<1> QED BY <1>3, <1>8 DEF p, e, r
-----------------------------------------------------------------------------
(* The turns of the three loops of memset and memcpy add up.               *)
LEMMA Thirds ==
  ASSUME NEW n \in Nat, NEW h \in 0 .. n
  PROVE  /\ h \in Nat /\ (n - h) \div 4 \in Nat /\ (n - h) % 4 \in Nat
         /\ h + 4 * ((n - h) \div 4) \in Nat
         /\ h + 4 * ((n - h) \div 4) + 1 * ((n - h) % 4) = n
OBVIOUS

Sets(m, d, c, n) == memset(m, d, c, n) = With(m, d, [i \in 0 .. n - 1 |-> Low8(c)])

(* memset sets the n bytes from d on to the low byte of c and no other,    *)
(* for every memory, address and count (lib.c:456-493).                    *)
THEOREM MemsetFills ==
  ASSUME NEW K \in Nat, NEW m, IsMem(m, K), NEW d \in Nat, NEW n \in Nat, NEW c
  PROVE  Sets(m, d, c, n)
<1> DEFINE b == Low8(c)
           h == ToBoundary(d, n)
           q == (n - h) \div 4
           t == (n - h) % 4
           m1 == Store(m, d, <<b>>, h)
           m2 == Store(m1, d + h, <<b, b, b, b>>, q)
           m3 == Store(m2, d + h + 4 * q, <<b>>, t)
<1>1. memset(m, d, c, n) = m3
  BY DEF memset
<1>2. h \in 0 .. n
  BY Boundary
<1> HIDE DEF h
<1>3. h \in Nat /\ q \in Nat /\ t \in Nat /\ h + 4 * q \in Nat /\ h + 4 * q + 1 * t = n
  BY <1>2, Thirds
<1> HIDE DEF b, q, t
<1>4. /\ UnitLen(<<b>>, 1) /\ Same(<<b>>, b)
      /\ UnitLen(<<b, b, b, b>>, 4) /\ Same(<<b, b, b, b>>, b)
  BY DEF UnitLen, Same
<1>5. m1 = Filled(m, d, b, h)
  <2>1. Filled(m, d, b, 0) = m
    <3>1. DOMAIN m = 0 .. K - 1 /\ m = [x \in 0 .. K - 1 |-> m[x]]
      BY DEF IsMem
    <3>2. \A x \in 0 .. K - 1 : ~(d <= x /\ x < d + 0)
      OBVIOUS
    <3> QED BY <3>1, <3>2, Zenon DEF Filled
  <2>2. Store(Filled(m, d, b, 0), d + 0, <<b>>, h) = Filled(m, d, b, 0 + 1 * h)
    BY <1>3, <1>4, FillMore
  <2>3. d + 0 = d /\ 0 + 1 * h = h
    BY <1>3
  <2> QED BY <2>1, <2>2, <2>3
<1> HIDE DEF m1
<1>6. m2 = Filled(m, d, b, h + 4 * q)
  BY <1>3, <1>4, <1>5, FillMore
<1> HIDE DEF m2
<1>7. m3 = Filled(m, d, b, n)
  <2> DEFINE k == h + 4 * q
  <2>1. Store(Filled(m, d, b, k), d + k, <<b>>, t) = Filled(m, d, b, k + 1 * t)
    <3>1. k \in Nat
      BY <1>3
    <3> HIDE DEF k
    <3> QED BY <1>3, <1>4, <3>1, FillMore
  <2>2. d + k = d + h + 4 * q /\ k + 1 * t = n
    BY <1>3
  <2> QED BY <1>6, <2>1, <2>2
<1>8. With(m, d, [i \in 0 .. n - 1 |-> b]) = Filled(m, d, b, n)
  <2> DEFINE w == [i \in 0 .. n - 1 |-> b]
  <2>1. DOMAIN w = 0 .. n - 1 /\ \A i \in 0 .. n - 1 : w[i] = b
    OBVIOUS
  <2>2. DOMAIN m = 0 .. K - 1
    BY DEF IsMem
  <2>3. \A x \in 0 .. K - 1 : (d <= x /\ x < d + n) => x - d \in 0 .. n - 1
    OBVIOUS
  <2> HIDE DEF w
  <2>4. Placed(m, K, d, n, w)
    BY <2>1, WithIs, Zenon
  <2>5. \A x \in 0 .. K - 1 : (d <= x /\ x < d + n) => w[x - d] = b
    BY <2>1, <2>3, Zenon
  <2>6. With(m, d, w) = Filled(m, d, b, n)
    BY <2>2, <2>4, <2>5, Zenon DEF Placed, Filled
  <2> QED BY <2>6 DEF w
<1> QED BY <1>1, <1>7, <1>8 DEF b, Sets

Moves(m, d, s, n) == memmove(m, d, s, n) = With(m, d, [i \in 0 .. n - 1 |-> m[s + i]])

(* memmove moves the n bytes from s on to d, also when the two areas       *)
(* overlap (lib.c:609-630).                                                *)
THEOREM MemmoveMoves ==
  ASSUME NEW K \in Nat, NEW m, IsMem(m, K), NEW d \in Nat, NEW s \in Nat, NEW n \in Nat, s + n <= K
  PROVE  Moves(m, d, s, n)
<1>1. memmove(m, d, s, n) = Copied(m, d, s, d, d + n)
  <2>1. CASE s >= d
    <3>1. Copied(m, d, s, d, d + 0) = m
      BY CopiedNone
    <3>2. s + 0 + 1 * n <= K /\ d <= s /\ 1 \in {1, 4} /\ 0 \in Nat
      BY <2>1
    <3>3. Move(Copied(m, d, s, d, d + 0), d + 0, s + 0, 1, 1, n) = Copied(m, d, s, d, d + 0 + 1 * n)
      <4>1. GoesUp(m, d, s, 0, 1, n)
        BY <3>2, MoveUp, Zenon
      <4> QED BY <4>1, Zenon DEF GoesUp
    <3>4. d + 0 = d /\ s + 0 = s /\ d + 0 + 1 * n = d + n
      OBVIOUS
    <3> QED BY <2>1, <3>1, <3>3, <3>4 DEF memmove
  <2>2. CASE ~(s >= d)
    <3>1. s < d
      BY <2>2
    <3>2. Move(m, d + n - 1, s + n - 1, 1, -1, n) = Copied(m, d, s, d, d + n)
      BY <3>1, MoveDown
    <3> QED BY <2>2, <3>2 DEF memmove
  <2> QED BY <2>1, <2>2
<1>2. Arrived(m, d, s, n)
  BY CopiedIs, Zenon
<1> QED BY <1>1, <1>2, Zenon DEF Arrived, Moves

Copies(m, d, s, n) == memcpy(m, d, s, n) = With(m, d, [i \in 0 .. n - 1 |-> m[s + i]])

(* memcpy copies the n bytes from s on to d when the destination is the    *)
(* lower one or the areas do not overlap (lib.c:557-597).                  *)
THEOREM MemcpyCopies ==
  ASSUME NEW K \in Nat, NEW m, IsMem(m, K), NEW d \in Nat, NEW s \in Nat, NEW n \in Nat, s + n <= K,
         d <= s \/ s + n <= d
  PROVE  Copies(m, d, s, n)
<1> DEFINE h == ToBoundary(d, n)
           q == (n - h) \div 4
           t == (n - h) % 4
           m1 == Move(m, d, s, 1, 1, h)
           m2 == Move(m1, d + h, s + h, 4, 4, q)
           m3 == Move(m2, d + h + 4 * q, s + h + 4 * q, 1, 1, t)
<1>1. memcpy(m, d, s, n) = m3
  BY DEF memcpy
<1>2. h \in 0 .. n
  BY Boundary
<1> HIDE DEF h
<1>3. h \in Nat /\ q \in Nat /\ t \in Nat /\ h + 4 * q \in Nat /\ h + 4 * q + 1 * t = n
  BY <1>2, Thirds
<1> HIDE DEF q, t
<1>4. m1 = Copied(m, d, s, d, d + h)
  <2>1. Copied(m, d, s, d, d + 0) = m
    BY CopiedNone
  <2>2. s + 0 + 1 * h <= K /\ (d <= s \/ s + 0 + 1 * h <= d) /\ 1 \in {1, 4} /\ 0 \in Nat
    BY <1>3
  <2>3. Move(Copied(m, d, s, d, d + 0), d + 0, s + 0, 1, 1, h) = Copied(m, d, s, d, d + 0 + 1 * h)
    <3>1. GoesUp(m, d, s, 0, 1, h)
      BY <1>3, <2>2, MoveUp, Zenon
    <3> QED BY <3>1, Zenon DEF GoesUp
  <2>4. d + 0 = d /\ s + 0 = s /\ d + 0 + 1 * h = d + h
    BY <1>3
  <2> QED BY <2>1, <2>3, <2>4
<1> HIDE DEF m1
<1>5. m2 = Copied(m, d, s, d, d + h + 4 * q)
  <2>1. s + h + 4 * q <= K /\ (d <= s \/ s + h + 4 * q <= d) /\ 4 \in {1, 4}
    BY <1>3
  <2>2. GoesUp(m, d, s, h, 4, q)
    BY <1>3, <2>1, MoveUp, Zenon
  <2> QED BY <1>4, <2>2, Zenon DEF GoesUp, m2
<1> HIDE DEF m2
<1>6. m3 = Copied(m, d, s, d, d + n)
  <2> DEFINE k == h + 4 * q
  <2>1. k \in Nat /\ k + 1 * t = n /\ d + h + 4 * q = d + k /\ s + h + 4 * q = s + k
    BY <1>3
  <2> HIDE DEF k
  <2>2. s + k + 1 * t <= K /\ (d <= s \/ s + k + 1 * t <= d) /\ 1 \in {1, 4} /\ d + k + 1 * t = d + n
    BY <1>3, <2>1
  <2>3. Move(Copied(m, d, s, d, d + k), d + k, s + k, 1, 1, t) = Copied(m, d, s, d, d + k + 1 * t)
    <3>1. GoesUp(m, d, s, k, 1, t)
      BY <1>3, <2>1, <2>2, MoveUp, Zenon
    <3> QED BY <3>1, Zenon DEF GoesUp
  <2> QED BY <1>5, <2>1, <2>2, <2>3
<1>7. Arrived(m, d, s, n)
  BY CopiedIs, Zenon
<1> QED BY <1>1, <1>6, <1>7, Zenon DEF Arrived, Copies

(* memset, memset_word, memset_dword, memmove and memcpy change just the   *)
(* bytes they are told to, for memories of every size (lib.c:456-630).     *)
THEOREM MemoryAlways == input \in Areas => MemoryRight
<1> SUFFICES ASSUME input \in Areas PROVE MemoryRight
  OBVIOUS
<1> DEFINE d == input.d
           s == input.s
           n == input.n
           K == Cells
<1>1. d \in Nat /\ s \in Nat /\ n \in Nat /\ K \in Nat
  BY CellsAssumption DEF Areas
<1>2. IsMem(Mem, K)
  BY <1>1 DEF IsMem, Mem
<1> HIDE DEF d, s, n, K
<1>3. memset(Mem, d, 300, n) = With(Mem, d, [i \in 0 .. n - 1 |-> 44])
  <2>1. Low8(300) = 44
    BY DEF Low8
  <2>2. Sets(Mem, d, 300, n)
    BY <1>1, <1>2, MemsetFills, Zenon
  <2> QED BY <2>1, <2>2, Zenon DEF Sets
<1>4. memset_word(Mem, d, 770, n) = With(Mem, d, [i \in 0 .. 2 * n - 1 |-> 2 + (i % 2)])
  <2> DEFINE u == <<2, 3>>
  <2>1. memset_word(Mem, d, 770, n) = Store(Mem, d, u, n)
    <3>1. Low8(770) = 2 /\ Low8(770 \div 256) = 3
      BY DEF Low8
    <3> QED BY <3>1 DEF memset_word
  <2>2. UnitLen(u, 2)
    BY DEF UnitLen
  <2>3. \A i \in 0 .. 2 * n - 1 : u[(i % 2) + 1] = 2 + (i % 2)
    BY <1>1
  <2> HIDE DEF u
  <2>4. Store(Mem, d, u, n) = With(Mem, d, [i \in 0 .. 2 * n - 1 |-> u[(i % 2) + 1]])
    <3>1. Repeats(Mem, d, u, 2, n)
      BY <1>1, <1>2, <2>2, StoredIs, Zenon
    <3> QED BY <3>1, Zenon DEF Repeats
  <2> QED BY <2>1, <2>3, <2>4, Zenon
<1>5. memset_dword(Mem, d, 67305985, n) = With(Mem, d, [i \in 0 .. 4 * n - 1 |-> 1 + (i % 4)])
  <2> DEFINE u == <<1, 2, 3, 4>>
             D == memset_dword(Mem, d, 67305985, n)
  <2>1. D = Store(Mem, d, u, n)
    <3>1. /\ Low8(67305985) = 1 /\ Low8(67305985 \div 256) = 2
          /\ Low8(67305985 \div 65536) = 3 /\ Low8(67305985 \div 16777216) = 4
      BY SMT DEF Low8
    <3> QED BY <3>1, SMT DEF memset_dword
  <2>2. UnitLen(u, 4)
    BY DEF UnitLen
  <2>3. \A i \in 0 .. 4 * n - 1 : u[(i % 4) + 1] = 1 + (i % 4)
    BY <1>1
  <2> HIDE DEF u, D
  <2>4. Store(Mem, d, u, n) = With(Mem, d, [i \in 0 .. 4 * n - 1 |-> u[(i % 4) + 1]])
    <3>1. Repeats(Mem, d, u, 4, n)
      BY <1>1, <1>2, <2>2, StoredIs, Zenon
    <3> QED BY <3>1, Zenon DEF Repeats
  <2>5. D = With(Mem, d, [i \in 0 .. 4 * n - 1 |-> 1 + (i % 4)])
    BY <2>1, <2>3, <2>4, Zenon
  <2> QED BY <2>5, SMT DEF D
<1>6. ASSUME s + n <= K
      PROVE  /\ memmove(Mem, d, s, n) = With(Mem, d, [i \in 0 .. n - 1 |-> Mem[s + i]])
             /\ d <= s \/ s + n <= d => memcpy(Mem, d, s, n) = With(Mem, d, [i \in 0 .. n - 1 |-> Mem[s + i]])
  <2>1. Moves(Mem, d, s, n)
    BY <1>1, <1>2, <1>6, MemmoveMoves, Zenon
  <2>2. d <= s \/ s + n <= d => Copies(Mem, d, s, n)
    BY <1>1, <1>2, <1>6, MemcpyCopies, Zenon
  <2> QED BY <2>1, <2>2, Zenon DEF Moves, Copies
<1> QED BY <1>3, <1>4, <1>5, <1>6, SMT DEF MemoryRight, d, s, n, K
-----------------------------------------------------------------------------
(* s holds the text t of N characters and its 0.                           *)
Holds(s, t, N) ==
  /\ N \in Nat
  /\ DOMAIN s = 1 .. N + 1 /\ Len(s) = N + 1 /\ s = [x \in 1 .. N + 1 |-> s[x]]
  /\ \A j \in 0 .. N - 1 : s[j + 1] = t[j + 1] /\ s[j + 1] \in 1 .. 255
  /\ s[N + 1] = 0
IsText(t, N) == N \in Nat /\ t \in [1 .. N -> 1 .. 255] /\ t \in Seq(Nat) /\ Len(t) = N
LEMMA CStringHolds == ASSUME NEW t, NEW N, IsText(t, N) PROVE Holds(CString(t), t, N)
<1>1. N \in Nat /\ t \in Seq(Nat) /\ Len(t) = N /\ \A j \in 1 .. N : t[j] \in 1 .. 255
  BY DEF IsText
<1> DEFINE s == CString(t)
<1>2. s = t \o <<0>>
  BY DEF CString, NUL
<1> HIDE DEF s
<1>3. s \in Seq(Nat) /\ Len(s) = N + 1
  <2>1. <<0>> \in Seq(Nat) /\ Len(<<0>>) = 1
    OBVIOUS
  <2> HIDE DEF s
  <2> QED BY <1>1, <1>2, <2>1
<1>4. DOMAIN s = 1 .. N + 1 /\ s = [x \in 1 .. N + 1 |-> s[x]]
  BY <1>3
<1>5. \A j \in 0 .. N - 1 : s[j + 1] = t[j + 1] /\ s[j + 1] \in 1 .. 255
  BY <1>1, <1>2
<1>6. s[N + 1] = 0
  BY <1>1, <1>2
<1> QED BY <1>1, <1>3, <1>4, <1>5, <1>6 DEF Holds, s

LEMMA StrlenIs == ASSUME NEW s, NEW t, NEW N, Holds(s, t, N) PROVE strlen(s) = N
<1>1. /\ N \in Nat /\ Len(s) = N + 1 /\ s[N + 1] = 0
      /\ \A j \in 0 .. N - 1 : s[j + 1] # 0
  <2>1. /\ N \in Nat /\ Len(s) = N + 1 /\ s[N + 1] = 0
        /\ \A j \in 0 .. N - 1 : s[j + 1] \in 1 .. 255
    BY Zenon DEF Holds
  <2>2. \A c \in 1 .. 255 : c # 0
    OBVIOUS
  <2> QED BY <2>1, <2>2, Zenon
<1> DEFINE P(i) == s[i + 1] = 0 /\ \A j \in 0 .. i - 1 : s[j + 1] # 0
           x == CHOOSE i \in 0 .. N : P(i)
<1>2. strlen(s) = x
  <2>1. Len(s) - 1 = N
    BY <1>1
  <2> QED BY <2>1, Zenon DEF strlen, Dec, NUL
<1>3. N \in 0 .. N /\ P(N)
  BY <1>1
<1>4. x \in 0 .. N /\ P(x)
  <2> HIDE DEF P
  <2> QED BY <1>3, Zenon
<1> HIDE DEF x
<1>5. x = N
  BY <1>1, <1>4
<1> QED BY <1>2, <1>5

LEMMA TextsAre ==
  ASSUME NEW t \in Texts PROVE IsText(t, Len(t)) /\ Len(t) <= MaxLen
<1>1. PICK n \in 0 .. MaxLen : t \in [1 .. n -> Bytes]
  BY DEF Texts
<1>2. n \in Nat /\ n <= MaxLen
  BY StringsAssumption
<1>3. (\A b \in Bytes : b \in 1 .. 255) /\ \A b \in 1 .. 255 : b \in Nat
  BY StringsAssumption
<1>4. t \in [1 .. n -> 1 .. 255] /\ t \in [1 .. n -> Nat]
  BY <1>1, <1>3, Zenon
<1>5. t \in Seq(Nat) /\ Len(t) = n
  BY <1>2, <1>4
<1> QED BY <1>2, <1>4, <1>5, Zenon DEF IsText
-----------------------------------------------------------------------------
(* strrev: the first and the last j characters have changed places.        *)
Swapped(s, N, j) == [x \in 1 .. N + 1 |-> IF x <= j \/ (N - j < x /\ x <= N) THEN s[N + 1 - x] ELSE s[x]]
Swap(p, end, k) == [p EXCEPT ![end - k + 2] = p[k], ![k] = p[end - k + 2]]
Swaps(s, N, j) == Swapped(s, N, j) = Swap(Swapped(s, N, j - 1), N - 1, j)
LEMMA SwapTurn ==
  ASSUME NEW N \in Nat, NEW s, NEW j \in Nat \ {0}, 2 * j <= N
  PROVE  Swaps(s, N, j)
<1> DEFINE D == 1 .. N + 1
           p == Swapped(s, N, j - 1)
           q == Swapped(s, N, j)
           e == N + 1 - j
<1>1. DOMAIN p = D /\ DOMAIN q = D /\ q = [x \in D |-> q[x]]
  BY DEF Swapped
<1>2. \A x \in D : p[x] = IF x <= j - 1 \/ (N - (j - 1) < x /\ x <= N) THEN s[N + 1 - x] ELSE s[x]
  BY Zenon DEF Swapped
<1>3. \A x \in D : q[x] = IF x <= j \/ (N - j < x /\ x <= N) THEN s[N + 1 - x] ELSE s[x]
  BY Zenon DEF Swapped
<1>4. N - 1 - j + 2 = e /\ e \in D /\ j \in D /\ j # e /\ N + 1 - e = j
  OBVIOUS
<1> HIDE DEF p, q
<1>5. p[j] = s[j] /\ p[e] = s[e]
  <2>1. ~(j <= j - 1 \/ (N - (j - 1) < j /\ j <= N)) /\ ~(e <= j - 1 \/ (N - (j - 1) < e /\ e <= N))
    OBVIOUS
  <2> QED BY <1>2, <1>4, <2>1, Zenon
<1>6. q[j] = s[e] /\ q[e] = s[j]
  <2>1. j <= j /\ N - j < e /\ e <= N
    OBVIOUS
  <2> QED BY <1>3, <1>4, <2>1, Zenon DEF e
<1>7. \A x \in D : x # j /\ x # e => ((x <= j \/ (N - j < x /\ x <= N)) <=> (x <= j - 1 \/ (N - (j - 1) < x /\ x <= N)))
  OBVIOUS
<1>8. \A x \in D : x # j /\ x # e => q[x] = p[x]
  BY <1>2, <1>3, <1>7, Zenon
<1> HIDE DEF D, e
<1>9. q = [p EXCEPT ![e] = p[j], ![j] = p[e]]
  <2> DEFINE r == [p EXCEPT ![e] = p[j], ![j] = p[e]]
  <2>1. r = [x \in D |-> r[x]]
    BY <1>1
  <2>2. r[j] = p[e] /\ r[e] = p[j] /\ \A x \in D : x # j /\ x # e => r[x] = p[x]
    BY <1>1, <1>4
  <2> HIDE DEF r
  <2>3. \A x \in D : r[x] = q[x]
    BY <1>5, <1>6, <1>8, <2>2, Zenon
  <2>4. r = q
    BY <1>1, <2>1, <2>3, Zenon
  <2> QED BY <2>4 DEF r
<1> QED BY <1>4, <1>9, Zenon DEF Swaps, Swap, p, q

(* What the loop computes when g[j] is the string after j turns.           *)
Swapping(s, end, n) == (CHOOSE f : f = [k \in 0 .. n |-> IF k = 0 THEN s ELSE Swap(f[k - 1], end, k)])[n]
AfterSwaps(g, s, end, n) ==
  /\ g[0] = s /\ g = [j \in 0 .. n |-> g[j]]
  /\ \A j \in 1 .. n : g[j] = Swap(g[j - 1], end, j)
LEMMA SwapLoopIs ==
  ASSUME NEW s, NEW end, NEW g, NEW n \in Nat, AfterSwaps(g, s, end, n)
  PROVE  Swapping(s, end, n) = g[n]
<1>0. /\ g[0] = s /\ g = [j \in 0 .. n |-> g[j]]
      /\ \A j \in 1 .. n : g[j] = Swap(g[j - 1], end, j)
  BY Zenon DEF AfterSwaps
<1> DEFINE f == CHOOSE f : f = [k \in 0 .. n |-> IF k = 0 THEN s ELSE Swap(f[k - 1], end, k)]
<1>1. g = [k \in 0 .. n |-> IF k = 0 THEN s ELSE Swap(g[k - 1], end, k)]
  <2>1. \A j \in 0 .. n : j = 0 \/ j \in 1 .. n
    OBVIOUS
  <2>2. \A j \in 0 .. n : g[j] = IF j = 0 THEN s ELSE Swap(g[j - 1], end, j)
    BY <1>0, <2>1, Zenon
  <2> QED BY <1>0, <2>2, Zenon
<1>2. f = [k \in 0 .. n |-> IF k = 0 THEN s ELSE Swap(f[k - 1], end, k)]
  BY <1>1, Zenon
<1> HIDE DEF f
<1>3. (\A j \in 1 .. n : j \in 0 .. n /\ j # 0) /\ 0 \in 0 .. n
  OBVIOUS
<1>4. f[0] = g[0]
  BY <1>0, <1>2, <1>3, Zenon
<1>5. \A j \in 1 .. n : f[j - 1] = g[j - 1] => f[j] = g[j]
  BY <1>0, <1>2, <1>3, Zenon
<1>6. f[n] = g[n]
  BY <1>4, <1>5, Agree
<1> QED BY <1>6, Zenon DEF f, Swapping

SwapTurns(s, end) == CHOOSE k \in 0 .. Len(s) : k >= end - k /\ \A j \in 0 .. k - 1 : j < end - j
LEMMA SwapTurnsAre ==
  ASSUME NEW s, NEW t, NEW N, Holds(s, t, N)
  PROVE  LET k == SwapTurns(s, N - 1) IN k \in Nat /\ (2 * k = N \/ 2 * k = N - 1)
<1>1. N \in Nat /\ Len(s) = N + 1
  BY DEF Holds
<1> DEFINE T == {k \in 0 .. N + 1 : k >= N - 1 - k}
           P(k) == k >= N - 1 - k /\ \A j \in 0 .. k - 1 : j < N - 1 - j
<1>2. T \in SUBSET Nat /\ N \in T
  BY <1>1
<1>3. PICK k \in T : \A j \in T : k <= j
  <2> HIDE DEF T
  <2> QED BY <1>2, Least
<1>4. k \in 0 .. N + 1 /\ P(k)
  <2>1. \A j \in 0 .. k - 1 : j \in 0 .. N + 1 /\ ~(k <= j) /\ (~(j >= N - 1 - j) => j < N - 1 - j)
    BY <1>1
  <2>2. \A j \in 0 .. k - 1 : j < N - 1 - j
    BY <1>3, <2>1, Zenon
  <2> QED BY <1>1, <2>2
<1> DEFINE x == CHOOSE i \in 0 .. N + 1 : P(i)
<1>5. x \in 0 .. N + 1 /\ P(x)
  <2> HIDE DEF P
  <2> QED BY <1>4, Zenon
<1>6. SwapTurns(s, N - 1) = x
  BY <1>1, Zenon DEF SwapTurns
<1> HIDE DEF x
<1>7. x >= N - 1 - x /\ (x > 0 => x - 1 < N - 1 - (x - 1))
  BY <1>1, <1>5
<1>8. x \in Nat /\ (2 * x = N \/ 2 * x = N - 1)
  BY <1>1, <1>5, <1>7
<1> QED BY <1>6, <1>8

(* The text t read backwards.                                              *)
Backwards(t, N) == [i \in 1 .. N |-> t[N + 1 - i]]
Turned(s, t, N) == SwapLoop(s, N - 1) = CString(Backwards(t, N))
LEMMA SwapLoopTurns ==
  ASSUME NEW s, NEW t, NEW N, IsText(t, N), Holds(s, t, N)
  PROVE  Turned(s, t, N)
<1> DEFINE n == SwapTurns(s, N - 1)
           g == [j \in 0 .. n |-> Swapped(s, N, j)]
           b == Backwards(t, N)
           r == CString(b)
<1>0. /\ N \in Nat /\ DOMAIN s = 1 .. N + 1 /\ s = [x \in 1 .. N + 1 |-> s[x]] /\ s[N + 1] = 0
      /\ \A j \in 0 .. N - 1 : s[j + 1] = t[j + 1]
  BY Zenon DEF Holds
<1>1. n \in Nat /\ (2 * n = N \/ 2 * n = N - 1)
  BY SwapTurnsAre
<1>2. SwapLoop(s, N - 1) = Swapping(s, N - 1, n)
  BY Zenon DEF SwapLoop, Swap, SwapTurns, Swapping
<1> HIDE DEF n
<1>3. (\A j \in 0 .. n : g[j] = Swapped(s, N, j)) /\ g = [j \in 0 .. n |-> g[j]]
  OBVIOUS
<1> HIDE DEF g
<1>4. g[0] = s
  <2>1. 0 \in 0 .. n
    BY <1>1
  <2>2. \A x \in 1 .. N + 1 : ~(x <= 0 \/ (N - 0 < x /\ x <= N))
    BY <1>0
  <2>3. Swapped(s, N, 0) = s
    BY <1>0, <2>2, Zenon DEF Swapped
  <2> QED BY <1>3, <2>1, <2>3, Zenon
<1>5. \A j \in 1 .. n : g[j] = Swap(g[j - 1], N - 1, j)
  <2> TAKE j \in 1 .. n
  <2>1. j \in 0 .. n /\ j - 1 \in 0 .. n /\ j \in Nat \ {0} /\ 2 * j <= N
    BY <1>0, <1>1
  <2>2. Swaps(s, N, j)
    BY <1>0, <2>1, SwapTurn, Zenon
  <2> QED BY <1>3, <2>1, <2>2, Zenon DEF Swaps
<1>6. SwapLoop(s, N - 1) = g[n]
  <2>1. AfterSwaps(g, s, N - 1, n)
    BY <1>3, <1>4, <1>5, Zenon DEF AfterSwaps
  <2> QED BY <1>1, <1>2, <2>1, SwapLoopIs
<1>7. g[n] = Swapped(s, N, n)
  <2>1. n \in 0 .. n
    BY <1>1
  <2> QED BY <1>3, <2>1, Zenon
<1>8. IsText(b, N)
  <2>1. N \in Nat /\ t \in [1 .. N -> 1 .. 255]
    BY DEF IsText
  <2>2. \A i \in 1 .. N : t[N + 1 - i] \in 1 .. 255 /\ t[N + 1 - i] \in Nat
    <3>1. \A i \in 1 .. N : N + 1 - i \in 1 .. N
      BY <2>1
    <3>2. \A c \in 1 .. 255 : c \in Nat
      OBVIOUS
    <3> QED BY <2>1, <3>1, <3>2, Zenon
  <2>3. b \in [1 .. N -> 1 .. 255] /\ b \in [1 .. N -> Nat]
    BY <2>2, Zenon DEF Backwards
  <2>4. b \in Seq(Nat) /\ Len(b) = N
    BY <2>1, <2>3
  <2> QED BY <2>1, <2>3, <2>4, Zenon DEF IsText
<1>9. \A i \in 1 .. N : b[i] = t[N + 1 - i]
  BY DEF Backwards
<1> HIDE DEF b
<1>10. /\ r = [x \in 1 .. N + 1 |-> r[x]] /\ r[N + 1] = 0
       /\ \A j \in 0 .. N - 1 : r[j + 1] = b[j + 1]
  <2>1. Holds(r, b, N)
    BY <1>8, CStringHolds, Zenon
  <2> QED BY <2>1, Zenon DEF Holds
<1> HIDE DEF r
<1>11. ASSUME NEW x \in 1 .. N + 1
       PROVE  (IF x <= n \/ (N - n < x /\ x <= N) THEN s[N + 1 - x] ELSE s[x]) = r[x]
  <2>1. CASE x = N + 1
    <3>1. ~(x <= n \/ (N - n < x /\ x <= N))
      BY <1>0, <1>1, <2>1
    <3> QED BY <1>0, <1>10, <2>1, <3>1, Zenon
  <2>2. CASE x # N + 1
    <3> DEFINE y == N + 1 - x
    <3>1. x \in 1 .. N /\ x - 1 \in 0 .. N - 1 /\ y \in 1 .. N /\ y - 1 \in 0 .. N - 1 /\ x - 1 + 1 = x /\ y - 1 + 1 = y
      BY <1>0, <2>2
    <3>2. r[x] = t[y]
      <4>1. r[x] = b[x]
        BY <1>10, <3>1
      <4> QED BY <1>9, <3>1, <4>1, Zenon
    <3>3. s[y] = t[y]
      <4> HIDE DEF y
      <4> QED BY <1>0, <3>1
    <3>4. ~(x <= n \/ (N - n < x /\ x <= N)) => x = y
      <4>1. N \in Nat /\ n \in Nat /\ x \in 1 .. N /\ (2 * n = N \/ 2 * n = N - 1)
        BY <1>0, <1>1, <3>1, Zenon
      <4> QED BY <4>1, SMT
    <3> QED BY <3>2, <3>3, <3>4, Zenon
  <2> QED BY <2>1, <2>2
<1>12. Swapped(s, N, n) = r
  BY <1>10, <1>11, Zenon DEF Swapped
<1> QED BY <1>6, <1>7, <1>12, Zenon DEF Turned, r, b

Reverses(t, N) ==
  strrev(CString(t)) = CString(Backwards(t, N)) /\ ece391_strrev(CString(t)) = strrev(CString(t))

(* strrev turns every string round, and the programs' strrev does as it    *)
(* does (lib.c:376-392, ece391support.c:84-103).                           *)
THEOREM StrrevReverses == ASSUME NEW t, NEW N, IsText(t, N) PROVE Reverses(t, N)
<1> DEFINE s == CString(t)
<1>1. Holds(s, t, N)
  BY CStringHolds, Zenon
<1> HIDE DEF s
<1>2. strlen(s) = N
  BY <1>1, StrlenIs, Zenon
<1>3. strrev(s) = CString(Backwards(t, N))
  <2>1. Turned(s, t, N)
    BY <1>1, SwapLoopTurns, Zenon
  <2> QED BY <1>2, <2>1, Zenon DEF strrev, Turned
<1>4. N - 1 <= 0 => s = CString(Backwards(t, N))
  <2>1. ASSUME N - 1 <= 0 PROVE Backwards(t, N) = t
    <3>1. N \in Nat /\ t \in [1 .. N -> 1 .. 255]
      BY DEF IsText
    <3>2. t = [i \in 1 .. N |-> t[i]]
      BY <3>1, Zenon
    <3>3. \A i \in 1 .. N : N + 1 - i = i
      BY <2>1, <3>1
    <3> QED BY <3>2, <3>3, Zenon DEF Backwards
  <2> QED BY <2>1, Zenon DEF s
<1>5. ece391_strrev(s) = strrev(s)
  BY <1>2, <1>3, <1>4, Zenon DEF ece391_strrev, strrev
<1> QED BY <1>3, <1>5, Zenon DEF Reverses, s
-----------------------------------------------------------------------------
(* strcpy and strncpy: places lo + 1 to hi of a buffer of L bytes hold     *)
(* what v gives for them.                                                  *)
Buffer(p, L) == L \in Nat /\ p = [x \in 1 .. L |-> p[x]]
Taken(p, L, v, lo, hi) == [x \in 1 .. L |-> IF lo < x /\ x <= hi THEN v[x] ELSE p[x]]
Takes(p, L, v, lo, k) == Taken(p, L, v, lo, k) = [Taken(p, L, v, lo, k - 1) EXCEPT ![k] = v[k]]
LEMMA TakeTurn ==
  ASSUME NEW p, NEW L \in Nat, NEW v, NEW lo \in Nat, NEW k \in Nat, lo < k, k <= L
  PROVE  Takes(p, L, v, lo, k)
<1> DEFINE D == 1 .. L
           q == Taken(p, L, v, lo, k - 1)
           r == Taken(p, L, v, lo, k)
           e == [q EXCEPT ![k] = v[k]]
<1>1. DOMAIN q = D /\ r = [x \in D |-> r[x]] /\ k \in D
  BY DEF Taken
<1>2. \A x \in D : q[x] = IF lo < x /\ x <= k - 1 THEN v[x] ELSE p[x]
  BY Zenon DEF Taken
<1>3. \A x \in D : r[x] = IF lo < x /\ x <= k THEN v[x] ELSE p[x]
  BY Zenon DEF Taken
<1>4. \A x \in D : x # k => ((lo < x /\ x <= k - 1) <=> (lo < x /\ x <= k))
  OBVIOUS
<1>5. lo < k /\ k <= k
  OBVIOUS
<1> HIDE DEF q, r, D
<1>6. e = [x \in D |-> e[x]] /\ e[k] = v[k] /\ \A x \in D : x # k => e[x] = q[x]
  BY <1>1
<1> HIDE DEF e
<1>7. \A x \in D : e[x] = r[x]
  BY <1>1, <1>2, <1>3, <1>4, <1>5, <1>6, Zenon
<1>8. e = r
  BY <1>1, <1>6, <1>7, Zenon
<1> QED BY <1>8, Zenon DEF Takes, e, q, r

(* The values a loop stores, one for each place from lo + 1 to hi.         *)
Taking(p, v, lo, hi) ==
  (CHOOSE f : f = [k \in lo .. hi |-> IF k = lo THEN p ELSE [f[k - 1] EXCEPT ![k] = v[k]]])[hi]
Took(p, L, v, lo, hi) == Taking(p, v, lo, hi) = Taken(p, L, v, lo, hi)
LEMMA TakingIs ==
  ASSUME NEW p, NEW L \in Nat, Buffer(p, L), NEW v, NEW lo \in Nat, NEW hi \in Nat, lo <= hi, hi <= L
  PROVE  Took(p, L, v, lo, hi)
<1> DEFINE f == CHOOSE f : f = [k \in lo .. hi |-> IF k = lo THEN p ELSE [f[k - 1] EXCEPT ![k] = v[k]]]
           g == [k \in lo .. hi |-> Taken(p, L, v, lo, k)]
<1>1. (\A k \in lo .. hi : g[k] = Taken(p, L, v, lo, k)) /\ g = [k \in lo .. hi |-> g[k]]
  OBVIOUS
<1>2. lo \in lo .. hi /\ hi \in lo .. hi /\ \A k \in lo .. hi : k = lo \/ k \in lo + 1 .. hi
  OBVIOUS
<1>3. \A k \in lo + 1 .. hi : k \in lo .. hi /\ k # lo /\ k - 1 \in lo .. hi /\ k \in Nat /\ lo < k /\ k <= L
  OBVIOUS
<1> HIDE DEF g
<1>4. g[lo] = p
  <2>1. \A x \in 1 .. L : ~(lo < x /\ x <= lo)
    OBVIOUS
  <2>2. Taken(p, L, v, lo, lo) = p
    BY <2>1, Zenon DEF Taken, Buffer
  <2> QED BY <1>1, <1>2, <2>2, Zenon
<1>5. \A k \in lo + 1 .. hi : g[k] = [g[k - 1] EXCEPT ![k] = v[k]]
  <2> TAKE k \in lo + 1 .. hi
  <2>1. Takes(p, L, v, lo, k)
    BY <1>3, TakeTurn, Zenon
  <2> QED BY <1>1, <1>3, <2>1, Zenon DEF Takes
<1>6. g = [k \in lo .. hi |-> IF k = lo THEN p ELSE [g[k - 1] EXCEPT ![k] = v[k]]]
  <2>1. \A k \in lo .. hi : g[k] = IF k = lo THEN p ELSE [g[k - 1] EXCEPT ![k] = v[k]]
    BY <1>2, <1>4, <1>5, Zenon
  <2> QED BY <1>1, <2>1, Zenon
<1>7. f = [k \in lo .. hi |-> IF k = lo THEN p ELSE [f[k - 1] EXCEPT ![k] = v[k]]]
  BY <1>6, Zenon
<1> HIDE DEF f
<1>8. f[lo] = p /\ \A k \in lo + 1 .. hi : f[k] = [f[k - 1] EXCEPT ![k] = v[k]]
  BY <1>2, <1>3, <1>7, Zenon
<1>9. \A k \in lo + 1 .. hi : f[k - 1] = g[k - 1] => f[k] = g[k]
  BY <1>5, <1>8, Zenon
<1>10. f[lo] = g[lo]
  BY <1>4, <1>8, Zenon
<1>11. f[hi] = g[hi]
  BY <1>9, <1>10, AgreeFrom
<1> QED BY <1>1, <1>2, <1>11, Zenon DEF Took, Taking, f

Zeros(hi) == [x \in 0 .. hi |-> 0]
LEMMA CopyLoopIs ==
  ASSUME NEW p, NEW L \in Nat, Buffer(p, L), NEW s, NEW n \in Nat, n <= L
  PROVE  CopyLoop(p, s, n) = Taken(p, L, s, 0, n)
<1>1. CopyLoop(p, s, n) = Taking(p, s, 0, n)
  <2>1. \A k \in 0 .. n : k - 1 + 1 = k
    OBVIOUS
  <2> QED BY <2>1, Zenon DEF CopyLoop, Dec, Taking
<1>2. 0 \in Nat /\ 0 <= n
  OBVIOUS
<1>3. Took(p, L, s, 0, n)
  BY <1>2, TakingIs, Zenon
<1> QED BY <1>1, <1>3, Zenon DEF Took

LEMMA PadLoopIs ==
  ASSUME NEW p, NEW L \in Nat, Buffer(p, L), NEW i \in Nat, NEW n \in Nat, i <= n, n <= L
  PROVE  PadLoop(p, i, n) = Taken(p, L, Zeros(n), i, n)
<1>1. PadLoop(p, i, n) = Taking(p, Zeros(n), i, n)
  <2>1. \A k \in i .. n : k \in 0 .. n
    OBVIOUS
  <2>2. \A k \in i .. n : Zeros(n)[k] = 0
    BY <2>1, Zenon DEF Zeros
  <2> QED BY <2>2, Zenon DEF PadLoop, NUL, Taking
<1>2. Took(p, L, Zeros(n), i, n)
  BY TakingIs, Zenon
<1> QED BY <1>1, <1>2, Zenon DEF Took

Copying(p, L, t, N) == strcpy(p, CString(t)) = [x \in 1 .. L |-> IF x <= N + 1 THEN CString(t)[x] ELSE p[x]]

(* strcpy writes the string with its 0 over the start of every buffer with *)
(* room for it and leaves the rest alone (lib.c:674-685).                  *)
THEOREM StrcpyCopies ==
  ASSUME NEW t, NEW N, IsText(t, N), NEW p, NEW L, Buffer(p, L), N + 1 <= L
  PROVE  Copying(p, L, t, N)
<1> DEFINE s == CString(t)
<1>1. Holds(s, t, N)
  BY CStringHolds, Zenon
<1>2. N \in Nat /\ L \in Nat /\ N <= L /\ 0 \in Nat /\ N + 1 \in Nat /\ 0 < N + 1 /\ (N + 1) - 1 = N /\ s[N + 1] = 0
  <2>1. N \in Nat /\ L \in Nat /\ s[N + 1] = 0
    BY <1>1, Zenon DEF Holds, Buffer
  <2> QED BY <2>1
<1> HIDE DEF s
<1>3. strlen(s) = N
  BY <1>1, StrlenIs, Zenon
<1>4. CopyLoop(p, s, N) = Taken(p, L, s, 0, N)
  BY <1>2, CopyLoopIs
<1>5. Takes(p, L, s, 0, N + 1)
  BY <1>2, TakeTurn, Zenon
<1>6. strcpy(p, s) = Taken(p, L, s, 0, N + 1)
  <2>1. strcpy(p, s) = [CopyLoop(p, s, N) EXCEPT ![N + 1] = 0]
    BY <1>3, Zenon DEF strcpy, NUL
  <2>2. Taken(p, L, s, 0, N + 1) = [Taken(p, L, s, 0, (N + 1) - 1) EXCEPT ![N + 1] = s[N + 1]]
    BY <1>5, Zenon DEF Takes
  <2>3. Taken(p, L, s, 0, N + 1) = [Taken(p, L, s, 0, N) EXCEPT ![N + 1] = 0]
    BY <1>2, <2>2
  <2> QED BY <1>4, <2>1, <2>3, Zenon
<1>7. \A x \in 1 .. L : (0 < x /\ x <= N + 1) <=> x <= N + 1
  BY <1>2
<1> QED BY <1>6, <1>7, Zenon DEF Copying, Taken, s

CopyingN(p, L, t, N, n) ==
  strncpy(p, CString(t), n) = [x \in 1 .. L |-> IF x > n THEN p[x] ELSE IF x <= N THEN t[x] ELSE 0]

(* strncpy writes just the n bytes at the start: the string, and zeros     *)
(* behind it (lib.c:696-711).                                              *)
THEOREM StrncpyCopies ==
  ASSUME NEW t, NEW N, IsText(t, N), NEW p, NEW L, Buffer(p, L), NEW n \in Nat, n <= L
  PROVE  CopyingN(p, L, t, N, n)
<1> DEFINE s == CString(t)
           P(i) == (s[i + 1] = 0 \/ i = n) /\ \A j \in 0 .. i - 1 : s[j + 1] # 0
           i == CHOOSE i \in 0 .. n : P(i)
           m == IF N < n THEN N ELSE n
           q == Taken(p, L, s, 0, i)
<1>1. Holds(s, t, N)
  BY CStringHolds, Zenon
<1>2. /\ N \in Nat /\ L \in Nat /\ s[N + 1] = 0
      /\ \A j \in 0 .. N - 1 : s[j + 1] = t[j + 1] /\ s[j + 1] \in 1 .. 255
  BY <1>1, Zenon DEF Holds, Buffer
<1> HIDE DEF s
<1>3. \A j \in 0 .. N - 1 : s[j + 1] # 0
  <2>1. \A c \in 1 .. 255 : c # 0
    OBVIOUS
  <2> QED BY <1>2, <2>1, Zenon
<1>4. m \in 0 .. n /\ P(m)
  BY <1>2, <1>3
<1>5. i \in 0 .. n /\ P(i)
  <2> HIDE DEF P, m
  <2> QED BY <1>4, Zenon
<1>6. strncpy(p, s, n) = PadLoop(CopyLoop(p, s, i), i, n)
  BY Zenon DEF strncpy, Dec, NUL
<1> HIDE DEF i
<1>7. i = m
  BY <1>2, <1>3, <1>5
<1> HIDE DEF P
<1>8. i \in Nat /\ i <= n /\ i <= L /\ i <= N /\ (i < n => i = N)
  BY <1>2, <1>7
<1> HIDE DEF m
<1>9. CopyLoop(p, s, i) = q
  BY <1>2, <1>8, CopyLoopIs
<1>10. Buffer(q, L) /\ \A x \in 1 .. L : q[x] = IF 0 < x /\ x <= i THEN s[x] ELSE p[x]
  BY <1>2, Zenon DEF Buffer, Taken
<1> HIDE DEF q
<1>11. PadLoop(q, i, n) = Taken(q, L, Zeros(n), i, n)
  BY <1>2, <1>8, <1>10, PadLoopIs
<1>12. ASSUME NEW x \in 1 .. L
       PROVE  (IF i < x /\ x <= n THEN Zeros(n)[x] ELSE q[x]) = IF x > n THEN p[x] ELSE IF x <= N THEN t[x] ELSE 0
  <2>1. CASE x > n
    <3>1. ~(i < x /\ x <= n) /\ ~(0 < x /\ x <= i)
      BY <1>2, <1>8, <2>1
    <3> QED BY <1>10, <2>1, <3>1, Zenon
  <2>2. CASE ~(x > n) /\ i < x
    <3>1. x <= n /\ x \in 0 .. n /\ ~(x <= N)
      BY <1>2, <1>8, <2>2
    <3>2. Zeros(n)[x] = 0
      BY <3>1, Zenon DEF Zeros
    <3> QED BY <2>2, <3>1, <3>2, Zenon
  <2>3. CASE ~(x > n) /\ ~(i < x)
    <3>1. 0 < x /\ x <= i /\ x <= N /\ x - 1 \in 0 .. N - 1 /\ x - 1 + 1 = x
      BY <1>2, <1>8, <2>3
    <3>2. s[x] = t[x]
      BY <1>2, <3>1, Zenon
    <3> QED BY <1>10, <2>3, <3>1, <3>2, Zenon
  <2> QED BY <2>1, <2>2, <2>3
<1>13. Taken(q, L, Zeros(n), i, n) = [x \in 1 .. L |-> IF x > n THEN p[x] ELSE IF x <= N THEN t[x] ELSE 0]
  BY <1>12, Zenon DEF Taken
<1> QED BY <1>6, <1>9, <1>11, <1>13, Zenon DEF CopyingN, s
-----------------------------------------------------------------------------
(* The comparisons.  s1 and s2 hold t and u, and no difference and no end  *)
(* has been met before i.                                                  *)
Reached(s1, s2, i) == i \in Nat /\ \A j \in 0 .. i - 1 : ~Parts(s1, s2, j)
Two(s1, t, N, s2, u, M) == IsText(t, N) /\ Holds(s1, t, N) /\ IsText(u, M) /\ Holds(s2, u, M)

Known(s, t, N) ==
  /\ N \in Nat /\ t \in Seq(Nat) /\ Len(t) = N /\ s[N + 1] = 0 /\ Len(s) = N + 1
  /\ \A j \in 1 .. N : s[j] = t[j] /\ s[j] # 0
  /\ \A j \in 1 .. N + 1 : s[j] \in 0 .. 255
LEMMA Facts ==
  ASSUME NEW s, NEW t, NEW N, IsText(t, N), Holds(s, t, N)
  PROVE  Known(s, t, N)
<1>1. /\ N \in Nat /\ t \in Seq(Nat) /\ Len(t) = N /\ s[N + 1] = 0 /\ Len(s) = N + 1
      /\ \A j \in 0 .. N - 1 : s[j + 1] = t[j + 1] /\ s[j + 1] \in 1 .. 255
  BY Zenon DEF IsText, Holds
<1>2. \A j \in 1 .. N : s[j] = t[j] /\ s[j] \in 1 .. 255
  <2> TAKE j \in 1 .. N
  <2>1. j - 1 \in 0 .. N - 1 /\ j - 1 + 1 = j
    BY <1>1
  <2>2. s[j - 1 + 1] = t[j - 1 + 1] /\ s[j - 1 + 1] \in 1 .. 255
    BY <1>1, <2>1, Zenon
  <2> QED BY <2>1, <2>2
<1>3. \A j \in 1 .. N + 1 : s[j] \in 0 .. 255
  <2>1. \A j \in 1 .. N + 1 : j \in 1 .. N \/ j = N + 1
    BY <1>1
  <2>2. 0 \in 0 .. 255 /\ \A c \in 1 .. 255 : c \in 0 .. 255
    OBVIOUS
  <2>3. ASSUME NEW j \in 1 .. N + 1 PROVE s[j] \in 0 .. 255
    <3>1. CASE j \in 1 .. N
      BY <1>2, <2>2, <3>1, Zenon
    <3>2. CASE j = N + 1
      BY <1>1, <2>2, <3>2, Zenon
    <3> QED BY <2>1, <3>1, <3>2, Zenon
  <2> QED BY <2>3
<1>4. \A c \in 1 .. 255 : c # 0
  OBVIOUS
<1>5. \A j \in 1 .. N : s[j] = t[j] /\ s[j] # 0
  BY <1>2, <1>4, Zenon
<1> QED BY <1>1, <1>3, <1>5, Zenon DEF Known

Past(s1, t, N, s2, u, M, i) ==
  i \in Nat /\ i <= N /\ i <= M /\ \A j \in 1 .. i : t[j] = u[j] /\ s1[j] = s2[j]
LEMMA ReachedIs ==
  ASSUME NEW s1, NEW t, NEW N, NEW s2, NEW u, NEW M, Two(s1, t, N, s2, u, M), NEW i, Reached(s1, s2, i)
  PROVE  Past(s1, t, N, s2, u, M, i)
<1>0. IsText(t, N) /\ Holds(s1, t, N) /\ IsText(u, M) /\ Holds(s2, u, M)
  BY Zenon DEF Two
<1> Known(s1, t, N) /\ Known(s2, u, M)
  BY <1>0, Facts, Zenon
<1>1. N \in Nat /\ s1[N + 1] = 0 /\ \A j \in 1 .. N : s1[j] = t[j]
  BY Zenon DEF Known
<1>2. M \in Nat /\ s2[M + 1] = 0 /\ \A j \in 1 .. M : s2[j] = u[j]
  BY Zenon DEF Known
<1>3. i \in Nat /\ \A j \in 0 .. i - 1 : s1[j + 1] = s2[j + 1] /\ s1[j + 1] # 0
  BY Zenon DEF Reached, Parts, Dec, NUL
<1>4. i <= N
  <2>1. ~(i <= N) => N \in 0 .. i - 1
    BY <1>1, <1>3
  <2> QED BY <1>1, <1>3, <2>1, Zenon
<1>5. i <= M
  <2>1. ~(i <= M) => M \in 0 .. i - 1
    BY <1>2, <1>3
  <2> QED BY <1>2, <1>3, <2>1, Zenon
<1>6. \A j \in 1 .. i : t[j] = u[j] /\ s1[j] = s2[j]
  <2> TAKE j \in 1 .. i
  <2>1. j - 1 \in 0 .. i - 1 /\ j - 1 + 1 = j /\ j \in 1 .. N /\ j \in 1 .. M
    BY <1>1, <1>2, <1>3, <1>4, <1>5
  <2>2. s1[j] = s2[j]
    BY <1>3, <2>1
  <2> QED BY <1>1, <1>2, <2>1, <2>2, Zenon
<1> QED BY <1>3, <1>4, <1>5, <1>6, Zenon DEF Past

(* Of a string of which n characters count.                                *)
Counts(s, t, N, n) ==
  /\ \A j \in 1 .. n : j <= N + 1 => Nth(Upto(t, n), j) = s[j]
  /\ n <= N => Upto(t, n) = [j \in 1 .. n |-> t[j]]
  /\ N <= n => Upto(t, n) = t
LEMMA UptoIs ==
  ASSUME NEW s, NEW t, NEW N, IsText(t, N), Holds(s, t, N), NEW n \in Nat
  PROVE  Counts(s, t, N, n)
<1>1. /\ N \in Nat /\ t \in Seq(Nat) /\ Len(t) = N /\ s[N + 1] = 0
      /\ \A j \in 1 .. N : s[j] = t[j]
  <2>1. Known(s, t, N)
    BY Facts, Zenon
  <2> QED BY <2>1, Zenon DEF Known
<1> DEFINE m == IF n < N THEN n ELSE N
           T == Upto(t, n)
<1>2. m \in Nat /\ m <= N /\ T = SubSeq(t, 1, m)
  BY <1>1 DEF Upto
<1>3. (n <= N => m = n) /\ (N <= n => m = N)
  BY <1>1
<1> HIDE DEF m
<1>4. T = [j \in 1 .. m |-> t[j]] /\ Len(T) = m
  <2>1. T \in Seq(Nat) /\ Len(T) = m /\ \A j \in 1 .. m : T[j] = t[j]
    BY <1>1, <1>2
  <2> HIDE DEF T
  <2>2. T = [j \in 1 .. m |-> T[j]]
    BY <1>2, <2>1
  <2> QED BY <2>1, <2>2, Zenon
<1>5. t = [j \in 1 .. N |-> t[j]]
  BY <1>1
<1> HIDE DEF T
<1>6. \A j \in 1 .. n : j <= N + 1 => Nth(T, j) = s[j]
  <2> SUFFICES ASSUME NEW j \in 1 .. n, j <= N + 1 PROVE Nth(T, j) = s[j]
    OBVIOUS
  <2>1. CASE j <= N
    <3>1. j \in 1 .. N /\ j \in 1 .. m /\ j <= m
      BY <1>1, <1>2, <1>3, <2>1 DEF m
    <3>2. Nth(T, j) = t[j]
      BY <1>4, <3>1, Zenon DEF Nth
    <3> QED BY <1>1, <3>1, <3>2, Zenon
  <2>2. CASE ~(j <= N)
    <3>1. j = N + 1 /\ ~(j <= m)
      BY <1>1, <1>2, <2>2
    <3> QED BY <1>1, <1>4, <3>1, Zenon DEF Nth, NUL
  <2> QED BY <2>1, <2>2
<1>7. (n <= N => T = [j \in 1 .. n |-> t[j]]) /\ (N <= n => T = t)
  BY <1>3, <1>4, <1>5, Zenon
<1> QED BY <1>6, <1>7, Zenon DEF T, Counts

Alike(t, u, n) == Upto(t, n) = Upto(u, n)
LEMMA AlikeIs ==
  ASSUME NEW s1, NEW t, NEW N, NEW s2, NEW u, NEW M, Two(s1, t, N, s2, u, M), NEW n, Reached(s1, s2, n)
  PROVE  Alike(t, u, n)
<1>0. IsText(t, N) /\ Holds(s1, t, N) /\ IsText(u, M) /\ Holds(s2, u, M)
  BY Zenon DEF Two
<1>1. n \in Nat /\ n <= N /\ n <= M /\ \A j \in 1 .. n : t[j] = u[j]
  <2>1. Past(s1, t, N, s2, u, M, n)
    BY ReachedIs, Zenon
  <2> QED BY <2>1, Zenon DEF Past
<1>2. Counts(s1, t, N, n) /\ Counts(s2, u, M, n)
  BY <1>0, <1>1, UptoIs, Zenon
<1>3. Upto(t, n) = [j \in 1 .. n |-> t[j]] /\ Upto(u, n) = [j \in 1 .. n |-> u[j]]
  BY <1>1, <1>2, Zenon DEF Counts
<1> QED BY <1>1, <1>3, Zenon DEF Alike

(* The first place at which two texts differ.                              *)
LEMMA DifferenceIs ==
  ASSUME NEW T, NEW U, NEW k \in 1 .. MaxLen, Nth(T, k) # Nth(U, k), \A j \in 1 .. k - 1 : Nth(T, j) = Nth(U, j)
  PROVE  FirstDifference(T, U) = k
<1> DEFINE P(i) == Nth(T, i) # Nth(U, i) /\ \A j \in 1 .. i - 1 : Nth(T, j) = Nth(U, j)
           x == CHOOSE i \in 1 .. MaxLen : P(i)
<1>1. FirstDifference(T, U) = x
  BY Zenon DEF FirstDifference
<1>2. P(k)
  OBVIOUS
<1>3. x \in 1 .. MaxLen /\ P(x)
  <2> HIDE DEF P
  <2> QED BY <1>2, Zenon
<1> HIDE DEF x
<1>4. ~(x < k) /\ ~(k < x)
  <2>1. x < k => x \in 1 .. k - 1
    BY <1>3, StringsAssumption
  <2>2. k < x => k \in 1 .. x - 1
    BY <1>3, StringsAssumption
  <2> QED BY <1>2, <1>3, <2>1, <2>2, Zenon
<1>5. x = k
  BY <1>3, <1>4, StringsAssumption
<1> QED BY <1>1, <1>5

Verdict(s1, t, s2, u, i, n) ==
  LET T == Upto(t, n)
      U == Upto(u, n)
      F == FirstDifference(T, U)
  IN  /\ s1[i + 1] \in 0 .. 255 /\ s2[i + 1] \in 0 .. 255
      /\ \/ s1[i + 1] = s2[i + 1] /\ T = U
         \/ s1[i + 1] # s2[i + 1] /\ T # U /\ Nth(T, F) = s1[i + 1] /\ Nth(U, F) = s2[i + 1]
LEMMA VerdictIs ==
  ASSUME NEW s1, NEW t, NEW N, NEW s2, NEW u, NEW M, Two(s1, t, N, s2, u, M), N <= MaxLen, M <= MaxLen,
         NEW i, Reached(s1, s2, i), NEW n \in Nat, i < n, Parts(s1, s2, i)
  PROVE  Verdict(s1, t, s2, u, i, n)
<1> DEFINE T == Upto(t, n)
           U == Upto(u, n)
           F == FirstDifference(T, U)
           k == i + 1
<1>0. IsText(t, N) /\ Holds(s1, t, N) /\ IsText(u, M) /\ Holds(s2, u, M)
  BY Zenon DEF Two
<1>1. /\ N \in Nat /\ s1[N + 1] = 0 /\ \A j \in 1 .. N : s1[j] = t[j] /\ s1[j] # 0
      /\ \A j \in 1 .. N + 1 : s1[j] \in 0 .. 255
  <2>1. Known(s1, t, N)
    BY <1>0, Facts, Zenon
  <2> QED BY <2>1, Zenon DEF Known
<1>2. /\ M \in Nat /\ s2[M + 1] = 0 /\ \A j \in 1 .. M : s2[j] = u[j] /\ s2[j] # 0
      /\ \A j \in 1 .. M + 1 : s2[j] \in 0 .. 255
  <2>1. Known(s2, u, M)
    BY <1>0, Facts, Zenon
  <2> QED BY <2>1, Zenon DEF Known
<1>3. i \in Nat /\ i <= N /\ i <= M /\ \A j \in 1 .. i : t[j] = u[j] /\ s1[j] = s2[j]
  <2>1. Past(s1, t, N, s2, u, M, i)
    BY ReachedIs, Zenon
  <2> QED BY <2>1, Zenon DEF Past
<1>4. k \in 1 .. n /\ k \in Nat /\ k \in 1 .. N + 1 /\ k \in 1 .. M + 1 /\ k <= N + 1 /\ k <= M + 1
  BY <1>1, <1>2, <1>3
<1>5. s1[k] \in 0 .. 255 /\ s2[k] \in 0 .. 255
  BY <1>1, <1>2, <1>4, Zenon
<1>6. \A j \in 1 .. n : (j <= N + 1 => Nth(T, j) = s1[j]) /\ (j <= M + 1 => Nth(U, j) = s2[j])
  <2>1. Counts(s1, t, N, n) /\ Counts(s2, u, M, n)
    BY <1>0, UptoIs, Zenon
  <2> QED BY <2>1, Zenon DEF Counts
<1>7. Nth(T, k) = s1[k] /\ Nth(U, k) = s2[k]
  BY <1>4, <1>6, Zenon
<1>8. CASE s1[k] = s2[k]
  <2>1. s1[k] = 0
    BY <1>8, Zenon DEF Parts, Dec, NUL
  <2>2. i = N
    <3>1. i # N => k \in 1 .. N
      BY <1>1, <1>3
    <3> QED BY <1>1, <2>1, <3>1, Zenon
  <2>3. i = M
    <3>1. i # M => k \in 1 .. M
      BY <1>2, <1>3
    <3> QED BY <1>2, <1>8, <2>1, <3>1, Zenon
  <2>4. N <= n /\ M <= n
    BY <1>1, <1>2, <2>2, <2>3
  <2>5. T = t /\ U = u
    <3>1. Counts(s1, t, N, n) /\ Counts(s2, u, M, n)
      BY <1>0, UptoIs, Zenon
    <3> QED BY <2>4, <3>1, Zenon DEF Counts
  <2>6. Upto(t, i) = Upto(u, i)
    <3>1. Alike(t, u, i)
      BY AlikeIs, Zenon
    <3> QED BY <3>1 DEF Alike
  <2>7. Upto(t, i) = t /\ Upto(u, i) = u
    <3>1. N <= i /\ M <= i
      BY <1>1, <1>2, <2>2, <2>3
    <3>2. Counts(s1, t, N, i) /\ Counts(s2, u, M, i)
      BY <1>0, <1>3, UptoIs, Zenon
    <3> QED BY <3>1, <3>2, Zenon DEF Counts
  <2>8. T = U
    BY <2>5, <2>6, <2>7, Zenon
  <2> QED BY <1>5, <1>8, <2>8, Zenon DEF Verdict
<1>9. CASE s1[k] # s2[k]
  <2>1. \A j \in 1 .. k - 1 : Nth(T, j) = Nth(U, j)
    <3> TAKE j \in 1 .. k - 1
    <3>1. j \in 1 .. i /\ j \in 1 .. n /\ j <= N + 1 /\ j <= M + 1
      BY <1>1, <1>2, <1>3
    <3> QED BY <1>3, <1>6, <3>1, Zenon
  <2>2. k \in 1 .. MaxLen
    <3>1. k # N + 1 \/ k # M + 1
      BY <1>1, <1>2, <1>9
    <3> QED BY <1>1, <1>2, <1>4, <3>1, StringsAssumption
  <2>3. F = k
    <3> HIDE DEF k, T, U
    <3> QED BY <1>7, <1>9, <2>1, <2>2, DifferenceIs, Zenon DEF F
  <2>4. T # U
    BY <1>7, <1>9, Zenon
  <2> QED BY <1>5, <1>7, <1>9, <2>3, <2>4, Zenon DEF Verdict
<1> QED BY <1>8, <1>9

Compares(t, u, n) == Sign(strncmp(CString(t), CString(u), n)) = Order(Upto(t, n), Upto(u, n), Char)

(* The kernel's comparison stops at the first difference, the end of both  *)
(* strings or after n characters: the sign is that of the first difference *)
(* of signed bytes (lib.c:646-664).                                        *)
THEOREM StrncmpCompares ==
  ASSUME NEW t, NEW N, IsText(t, N), N <= MaxLen, NEW u, NEW M, IsText(u, M), M <= MaxLen, NEW n \in Nat
  PROVE  Compares(t, u, n)
<1> DEFINE s1 == CString(t)
           s2 == CString(u)
           P(i) == (i = n \/ Parts(s1, s2, i)) /\ \A j \in 0 .. i - 1 : ~Parts(s1, s2, j)
           i == CHOOSE i \in 0 .. n : P(i)
           B == {k \in 0 .. n : k = n \/ Parts(s1, s2, k)}
<1>1. Two(s1, t, N, s2, u, M)
  BY CStringHolds, Zenon DEF Two
<1> HIDE DEF s1, s2
<1>2. B \in SUBSET Nat /\ n \in B
  OBVIOUS
<1>3. PICK k \in B : \A j \in B : k <= j
  <2> HIDE DEF B
  <2> QED BY <1>2, Least
<1>4. k \in 0 .. n /\ P(k)
  <2>1. \A j \in 0 .. k - 1 : j \in 0 .. n /\ ~(k <= j)
    OBVIOUS
  <2>2. \A j \in 0 .. k - 1 : ~Parts(s1, s2, j)
    BY <1>3, <2>1, Zenon
  <2> QED BY <2>2, Zenon
<1>5. i \in 0 .. n /\ P(i)
  <2> HIDE DEF P
  <2> QED BY <1>4, Zenon
<1>6. strncmp(s1, s2, n) = IF i = n THEN 0 ELSE Char(s1[i + 1]) - Char(s2[i + 1])
  BY Zenon DEF strncmp, Dec
<1> HIDE DEF i
<1>7. i \in Nat /\ (i # n => i < n) /\ Reached(s1, s2, i)
  <2>1. i \in Nat /\ (i # n => i < n)
    BY <1>5
  <2> QED BY <1>5, <2>1, Zenon DEF Reached
<1>8. CASE i = n
  <2>1. Alike(t, u, n)
    BY <1>1, <1>7, <1>8, AlikeIs, Zenon
  <2>2. Order(Upto(t, n), Upto(u, n), Char) = 0
    BY <2>1, Zenon DEF Order, Alike
  <2>3. Sign(0) = 0
    BY DEF Sign
  <2> QED BY <1>6, <1>8, <2>2, <2>3, Zenon DEF Compares, s1, s2
<1>9. CASE i # n
  <2>1. Verdict(s1, t, s2, u, i, n)
    BY <1>1, <1>5, <1>7, <1>9, VerdictIs, Zenon
  <2> DEFINE T == Upto(t, n)
             U == Upto(u, n)
             F == FirstDifference(T, U)
             a == s1[i + 1]
             b == s2[i + 1]
  <2>2. /\ a \in 0 .. 255 /\ b \in 0 .. 255
        /\ \/ a = b /\ T = U
           \/ a # b /\ T # U /\ Nth(T, F) = a /\ Nth(U, F) = b
    BY <2>1, Zenon DEF Verdict
  <2>3. Order(T, U, Char) = IF T = U THEN 0 ELSE Sign(Char(Nth(T, F)) - Char(Nth(U, F)))
    BY Zenon DEF Order
  <2>4. Sign(strncmp(s1, s2, n)) = Sign(Char(a) - Char(b))
    BY <1>6, <1>9, Zenon
  <2> HIDE DEF T, U, F, a, b
  <2>5. CASE a = b /\ T = U
    <3>1. Char(a) - Char(b) = 0 /\ Sign(0) = 0
      BY <2>2, <2>5 DEF Char, Sign
    <3> QED BY <2>3, <2>4, <2>5, <3>1, Zenon DEF Compares, s1, s2, T, U
  <2>6. CASE T # U /\ Nth(T, F) = a /\ Nth(U, F) = b
    BY <2>3, <2>4, <2>6, Zenon DEF Compares, s1, s2, T, U
  <2> QED BY <2>2, <2>5, <2>6, Zenon
<1> QED BY <1>8, <1>9

(* Where the programs' loop stops when it is not told to compare nothing.  *)
Stop(s1, s2, n) ==
  CHOOSE i \in 0 .. Len(s1) - 1 :
    (Parts(s1, s2, i) \/ i + 1 = n) /\ \A j \in 0 .. i - 1 : ~Parts(s1, s2, j) /\ j + 1 # n
Stopped(s1, s2, i, n) == Reached(s1, s2, i) /\ (Parts(s1, s2, i) \/ i + 1 = n) /\ (n # 0 => i < n)
LEMMA StopIs ==
  ASSUME NEW s1, NEW t, NEW N, NEW s2, NEW u, NEW M, Two(s1, t, N, s2, u, M), NEW n \in Nat
  PROVE  Stopped(s1, s2, Stop(s1, s2, n), n)
<1> DEFINE P(i) == (Parts(s1, s2, i) \/ i + 1 = n) /\ \A j \in 0 .. i - 1 : ~Parts(s1, s2, j) /\ j + 1 # n
           x == CHOOSE i \in 0 .. N : P(i)
           B == {k \in 0 .. N : Parts(s1, s2, k) \/ k + 1 = n}
<1>1. N \in Nat /\ s1[N + 1] = 0 /\ Len(s1) = N + 1
  <2>1. Known(s1, t, N)
    BY Facts, Zenon DEF Two
  <2> QED BY <2>1, Zenon DEF Known
<1>2. B \in SUBSET Nat /\ N \in B
  <2>1. Parts(s1, s2, N)
    BY <1>1, Zenon DEF Parts, Dec, NUL
  <2> QED BY <1>1, <2>1
<1>3. PICK k \in B : \A j \in B : k <= j
  <2> HIDE DEF B
  <2> QED BY <1>2, Least
<1>4. k \in 0 .. N /\ P(k)
  <2>1. \A j \in 0 .. k - 1 : j \in 0 .. N /\ ~(k <= j)
    BY <1>1
  <2>2. \A j \in 0 .. k - 1 : ~Parts(s1, s2, j) /\ j + 1 # n
    BY <1>3, <2>1, Zenon
  <2> QED BY <2>2, Zenon
<1>5. x \in 0 .. N /\ P(x)
  <2> HIDE DEF P
  <2> QED BY <1>4, Zenon
<1>6. Stop(s1, s2, n) = x
  <2>1. Len(s1) - 1 = N
    BY <1>1
  <2> QED BY <2>1, Zenon DEF Stop
<1> HIDE DEF x
<1>7. x \in Nat /\ Reached(s1, s2, x)
  <2>1. x \in Nat
    BY <1>1, <1>5
  <2> QED BY <1>5, <2>1, Zenon DEF Reached
<1>8. n # 0 => x < n
  <2>1. ~(x < n) /\ n # 0 => n - 1 \in 0 .. x - 1 /\ n - 1 + 1 = n
    BY <1>7
  <2> QED BY <1>5, <2>1, Zenon
<1> QED BY <1>5, <1>6, <1>7, <1>8, Zenon DEF Stopped

(* One reading of both comparisons: of at most n characters, n # 0.        *)
Judges(s1, s2, t, u, i, n) == Sign(s1[i + 1] - s2[i + 1]) = Order(Upto(t, n), Upto(u, n), Plain)
LEMMA Judged ==
  ASSUME NEW s1, NEW t, NEW N, NEW s2, NEW u, NEW M, Two(s1, t, N, s2, u, M), N <= MaxLen, M <= MaxLen,
         NEW i, Reached(s1, s2, i), NEW n \in Nat, i < n, Parts(s1, s2, i) \/ i + 1 = n
  PROVE  Judges(s1, s2, t, u, i, n)
<1> DEFINE T == Upto(t, n)
           U == Upto(u, n)
           F == FirstDifference(T, U)
           a == s1[i + 1]
           b == s2[i + 1]
<1>0. i \in Nat
  BY Zenon DEF Reached
<1>1. Order(T, U, Plain) = IF T = U THEN 0 ELSE Sign(Nth(T, F) - Nth(U, F))
  BY Zenon DEF Order, Plain
<1>2. CASE Parts(s1, s2, i)
  <2>1. Verdict(s1, t, s2, u, i, n)
    BY <1>2, VerdictIs, Zenon
  <2>2. /\ a \in 0 .. 255 /\ b \in 0 .. 255
        /\ \/ a = b /\ T = U
           \/ a # b /\ T # U /\ Nth(T, F) = a /\ Nth(U, F) = b
    BY <2>1, Zenon DEF Verdict
  <2> HIDE DEF T, U, F, a, b
  <2>3. CASE a = b /\ T = U
    <3>1. a - b = 0 /\ Sign(0) = 0
      BY <2>2, <2>3 DEF Sign
    <3> QED BY <1>1, <2>3, <3>1, Zenon DEF Judges, T, U, a, b
  <2>4. CASE T # U /\ Nth(T, F) = a /\ Nth(U, F) = b
    BY <1>1, <2>4, Zenon DEF Judges, T, U, a, b
  <2> QED BY <2>2, <2>3, <2>4, Zenon
<1>3. CASE ~Parts(s1, s2, i)
  <2>1. i + 1 = n /\ a = b
    BY <1>3, Zenon DEF Parts, Dec
  <2>2. Reached(s1, s2, n)
    <3>1. \A j \in 0 .. n - 1 : j \in 0 .. i - 1 \/ j = i
      BY <1>0, <2>1
    <3> QED BY <1>3, <3>1, Zenon DEF Reached
  <2>3. T = U
    <3>1. Alike(t, u, n)
      BY <2>2, AlikeIs, Zenon
    <3> QED BY <3>1 DEF Alike
  <2>4. a \in 0 .. 255
    <3>1. Past(s1, t, N, s2, u, M, n)
      BY <2>2, ReachedIs, Zenon
    <3>2. Known(s1, t, N)
      BY Facts, Zenon DEF Two
    <3>3. n <= N /\ N \in Nat /\ \A j \in 1 .. N + 1 : s1[j] \in 0 .. 255
      BY <3>1, <3>2, Zenon DEF Past, Known
    <3>4. i + 1 \in 1 .. N + 1
      BY <1>0, <2>1, <3>3
    <3> QED BY <3>3, <3>4, Zenon
  <2> HIDE DEF T, U, F, a, b
  <2>5. a - b = 0 /\ Sign(0) = 0
    BY <2>1, <2>4 DEF Sign
  <2> QED BY <1>1, <2>3, <2>5, Zenon DEF Judges, T, U, a, b
<1> QED BY <1>2, <1>3

ComparesUser(t, u, n) ==
  /\ Sign(ece391_strncmp(CString(t), CString(u), n)) = Order(Upto(t, n), Upto(u, n), Plain)
  /\ Sign(ece391_strcmp(CString(t), CString(u))) = Order(t, u, Plain)

(* The programs' comparisons give the sign of the first difference of      *)
(* unsigned bytes, of the whole strings or of n characters, and 0 when no  *)
(* character counts (ece391support.c:24-46).                               *)
THEOREM UserCompares ==
  ASSUME NEW t, NEW N, IsText(t, N), N <= MaxLen, NEW u, NEW M, IsText(u, M), M <= MaxLen, NEW n \in Nat
  PROVE  ComparesUser(t, u, n)
<1> DEFINE s1 == CString(t)
           s2 == CString(u)
<1>1. Holds(s1, t, N) /\ Holds(s2, u, M) /\ Two(s1, t, N, s2, u, M)
  BY CStringHolds, Zenon DEF Two
<1> HIDE DEF s1, s2
<1>2. \A k : ece391_from(s1, s2, k) = s1[Stop(s1, s2, k) + 1] - s2[Stop(s1, s2, k) + 1]
  BY Zenon DEF ece391_from, Dec, Stop
<1>3. Sign(ece391_strncmp(s1, s2, n)) = Order(Upto(t, n), Upto(u, n), Plain)
  <2>1. CASE n = 0
    <3>1. Reached(s1, s2, n)
      BY <2>1 DEF Reached
    <3>2. Alike(t, u, n)
      BY <1>1, <3>1, AlikeIs, Zenon
    <3>3. Sign(0) = 0
      BY DEF Sign
    <3>4. ece391_strncmp(s1, s2, n) = 0
      BY <2>1, Zenon DEF ece391_strncmp
    <3>5. Order(Upto(t, n), Upto(u, n), Plain) = 0
      BY <3>2, Zenon DEF Order, Alike
    <3> QED BY <3>3, <3>4, <3>5, Zenon
  <2>2. CASE n # 0
    <3> DEFINE i == Stop(s1, s2, n)
    <3>1. Stopped(s1, s2, i, n)
      BY <1>1, StopIs, Zenon
    <3>2. ece391_strncmp(s1, s2, n) = s1[i + 1] - s2[i + 1]
      BY <1>2, <2>2, Zenon DEF ece391_strncmp
    <3> HIDE DEF i
    <3>3. Reached(s1, s2, i) /\ i < n /\ (Parts(s1, s2, i) \/ i + 1 = n)
      BY <2>2, <3>1, Zenon DEF Stopped
    <3>4. Judges(s1, s2, t, u, i, n)
      BY <1>1, <3>3, Judged, Zenon
    <3> QED BY <3>2, <3>4, Zenon DEF Judges
  <2> QED BY <2>1, <2>2
<1>4. Sign(ece391_strcmp(s1, s2)) = Order(t, u, Plain)
  <2> DEFINE i == Stop(s1, s2, 0)
             m == MaxLen + 1
  <2>1. Stopped(s1, s2, i, 0)
    BY <1>1, StopIs
  <2>2. ece391_strcmp(s1, s2) = s1[i + 1] - s2[i + 1]
    BY <1>2, Zenon DEF ece391_strcmp
  <2> HIDE DEF i
  <2>3. Past(s1, t, N, s2, u, M, i)
    BY <1>1, <2>1, ReachedIs, Zenon DEF Stopped
  <2>4. N \in Nat /\ M \in Nat /\ MaxLen \in Nat /\ i \in Nat /\ i <= N
    BY <2>3, StringsAssumption, Zenon DEF IsText, Past
  <2>5. m \in Nat /\ i < m /\ N <= m /\ M <= m /\ i + 1 # 0
    BY <2>4
  <2> HIDE DEF m
  <2>6. Reached(s1, s2, i) /\ Parts(s1, s2, i)
    BY <2>1, <2>5, Zenon DEF Stopped
  <2>7. Judges(s1, s2, t, u, i, m)
    BY <1>1, <2>5, <2>6, Judged, Zenon
  <2>8. Counts(s1, t, N, m) /\ Counts(s2, u, M, m)
    BY <1>1, <2>5, UptoIs, Zenon
  <2>9. Upto(t, m) = t /\ Upto(u, m) = u
    BY <2>5, <2>8, Zenon DEF Counts
  <2> QED BY <2>2, <2>7, <2>9, Zenon DEF Judges
<1> QED BY <1>3, <1>4, Zenon DEF ComparesUser, s1, s2

(* Reversing, copying and comparing are right for texts of every length    *)
(* over any bytes but 0 (lib.c:376-711, ece391support.c:6-103).            *)
THEOREM StringsAlways == input \in StringInputs => StringsRight
<1> SUFFICES ASSUME input \in StringInputs PROVE StringsRight
  OBVIOUS
<1>1. ASSUME input.kind = "text" PROVE input.t \in Texts
  BY <1>1 DEF StringInputs
<1>2. ASSUME input.kind = "texts" PROVE input.t \in Texts /\ input.u \in Texts /\ input.n \in Nat
  BY <1>2, StringsAssumption DEF StringInputs
<1>3. ReverseRight
  <2> SUFFICES ASSUME input.kind = "text" PROVE ReverseRight
    BY Zenon DEF ReverseRight
  <2>1. IsText(input.t, Len(input.t))
    BY <1>1, TextsAre, Zenon
  <2>2. Reverses(input.t, Len(input.t))
    BY <2>1, StrrevReverses, Zenon
  <2> QED BY <2>2, Zenon DEF ReverseRight, Reverses, Backwards
<1>4. CopyRight
  <2> SUFFICES ASSUME input.kind = "text" PROVE CopyRight
    BY Zenon DEF CopyRight
  <2> DEFINE t == input.t
             N == Len(t)
             L == MaxLen + 2
  <2>1. IsText(t, N) /\ N <= MaxLen /\ N \in Nat
    BY <1>1, TextsAre, Zenon DEF IsText
  <2>2. DOMAIN Old = 1 .. L /\ Old = [x \in 1 .. L |-> Old[x]]
    BY DEF Old
  <2> HIDE DEF t, N
  <2>3. L \in Nat /\ N + 1 <= L /\ \A n \in 0 .. MaxLen + 1 : n \in Nat /\ n <= L
    BY <2>1, StringsAssumption
  <2> HIDE DEF L
  <2>4. Buffer(Old, L)
    BY <2>2, <2>3, Zenon DEF Buffer
  <2>5. Copying(Old, L, t, N)
    BY <2>1, <2>3, <2>4, StrcpyCopies, Zenon
  <2>6. ASSUME NEW i \in DOMAIN Old
        PROVE  strcpy(Old, CString(t))[i] = IF i <= N + 1 THEN CString(t)[i] ELSE Old[i]
    BY <2>2, <2>5, Zenon DEF Copying
  <2>7. ASSUME NEW n \in 0 .. MaxLen + 1, NEW i \in DOMAIN Old
        PROVE  strncpy(Old, CString(t), n)[i] = IF i > n THEN Old[i] ELSE IF i <= N THEN t[i] ELSE NUL
    <3>1. CopyingN(Old, L, t, N, n)
      BY <2>1, <2>3, <2>4, StrncpyCopies, Zenon
    <3> QED BY <2>2, <3>1, Zenon DEF CopyingN, NUL
  <2> QED BY <2>6, <2>7, Zenon DEF CopyRight, N, t
<1>5. CompareRight
  <2> SUFFICES ASSUME input.kind = "texts" PROVE CompareRight
    BY Zenon DEF CompareRight
  <2> DEFINE t == input.t
             u == input.u
             n == input.n
  <2>1. IsText(t, Len(t)) /\ Len(t) <= MaxLen /\ IsText(u, Len(u)) /\ Len(u) <= MaxLen /\ n \in Nat
    BY <1>2, TextsAre, Zenon
  <2> HIDE DEF t, u, n
  <2>2. Compares(t, u, n)
    BY <2>1, StrncmpCompares, Zenon
  <2>3. ComparesUser(t, u, n)
    BY <2>1, UserCompares, Zenon
  <2> QED BY <2>2, <2>3, Zenon DEF CompareRight, Compares, ComparesUser, t, u, n
<1> QED BY <1>3, <1>4, <1>5 DEF StringsRight
-----------------------------------------------------------------------------
(* parse_arg, with K bytes from each of the two buffers on.                *)
IsParse(p, K) ==
  p \in [mem : [Buffers -> [0 .. K - 1 -> Nat]], curr : Buffers, i : Nat, c : Nat, left : BOOLEAN]

(* The command: N characters and zeros behind them.                        *)
IsCommand(buf, t, N) ==
  /\ N \in Nat /\ t \in [1 .. N -> 1 .. 255] /\ Len(buf) = N + 2 * NameSize
  /\ \A j \in 0 .. N - 1 : buf[j + 1] = t[j + 1]
  /\ \A j \in N .. N + 2 * NameSize - 1 : buf[j + 1] = 0
LEMMA GivenIs == ASSUME NEW t, NEW N, IsText(t, N) PROVE IsCommand(Given(t), t, N)
<1> DEFINE z == [i \in 1 .. 2 * NameSize |-> NUL]
           buf == Given(t)
<1>0. NameSize \in Nat
  BY NameSizeAssumption
<1>1. N \in Nat /\ t \in Seq(Nat) /\ Len(t) = N /\ t \in [1 .. N -> 1 .. 255]
  BY Zenon DEF IsText
<1>2. z \in Seq(Nat) /\ Len(z) = 2 * NameSize /\ \A i \in 1 .. 2 * NameSize : z[i] = 0
  BY <1>0 DEF NUL
<1>3. buf = t \o z
  BY DEF Given
<1> HIDE DEF z, buf
<1>4. Len(buf) = N + 2 * NameSize
  <2>1. t \in Seq(Nat) /\ z \in Seq(Nat)
    BY <1>1, <1>2
  <2>2. Len(t \o z) = Len(t) + Len(z)
    BY <2>1
  <2> QED BY <1>1, <1>2, <1>3, <2>2, Zenon
<1>5. \A j \in 1 .. N : buf[j] = t[j]
  BY <1>1, <1>2, <1>3
<1>6. \A j \in N + 1 .. N + 2 * NameSize : buf[j] = z[j - N]
  BY <1>0, <1>1, <1>2, <1>3
<1>7. \A j \in N .. N + 2 * NameSize - 1 : buf[j + 1] = 0
  <2> TAKE j \in N .. N + 2 * NameSize - 1
  <2>1. j + 1 \in N + 1 .. N + 2 * NameSize /\ (j + 1) - N \in 1 .. 2 * NameSize
    BY <1>0, <1>1
  <2>2. buf[j + 1] = z[(j + 1) - N]
    BY <1>6, <2>1
  <2> QED BY <1>2, <2>1, <2>2, Zenon
<1>8. \A j \in 0 .. N - 1 : j + 1 \in 1 .. N
  BY <1>1
<1> QED BY <1>1, <1>4, <1>5, <1>7, <1>8, Zenon DEF IsCommand, buf

(* Where a word that starts at c ends.                                     *)
Ended(buf, t, N, c, e) ==
  /\ e \in Nat /\ c <= e
  /\ \A j \in c .. e - 1 : buf[j + 1] \notin {0, 32}
  /\ c <= N => e <= N /\ (e = N \/ t[e + 1] = 32) /\ (buf[e + 1] = 32 <=> e < N)
  /\ N <= c => e = c /\ buf[e + 1] = 0
LEMMA WordEnds ==
  ASSUME NEW buf, NEW t, NEW N, IsCommand(buf, t, N), NEW c \in Nat, c < N + 2 * NameSize
  PROVE  Ended(buf, t, N, c, WordEnd(buf, c))
<1>1. /\ N \in Nat /\ NameSize \in Nat \ {0} /\ Len(buf) = N + 2 * NameSize
      /\ \A j \in 0 .. N - 1 : buf[j + 1] = t[j + 1]
      /\ \A j \in N .. N + 2 * NameSize - 1 : buf[j + 1] = 0
  BY NameSizeAssumption, Zenon DEF IsCommand
<1> DEFINE P(e) == buf[e + 1] \in {0, 32} /\ \A j \in c .. e - 1 : buf[j + 1] \notin {0, 32}
           R == c .. Len(buf) - 1
           x == CHOOSE e \in R : P(e)
           B == {j \in R : buf[j + 1] \in {0, 32}}
           m == IF c <= N THEN N ELSE c
<1>2. B \in SUBSET Nat /\ m \in B
  <2>1. m \in N .. N + 2 * NameSize - 1 /\ m \in R
    BY <1>1
  <2>2. buf[m + 1] = 0
    BY <1>1, <2>1, Zenon
  <2> HIDE DEF m
  <2>3. R \subseteq Nat
    BY <1>1
  <2> QED BY <2>1, <2>2, <2>3
<1>3. PICK k \in B : \A j \in B : k <= j
  <2> HIDE DEF B
  <2> QED BY <1>2, Least
<1>4. k \in R /\ P(k)
  <2>1. \A j \in c .. k - 1 : j \in R /\ ~(k <= j)
    BY <1>1
  <2>2. \A j \in c .. k - 1 : buf[j + 1] \notin {0, 32}
    <3> HIDE DEF R
    <3> QED BY <1>3, <2>1, Zenon
  <2> QED BY <2>2, Zenon
<1>5. x \in R /\ P(x)
  <2> HIDE DEF P, R
  <2> QED BY <1>4, Zenon
<1>6. WordEnd(buf, c) = x
  BY Zenon DEF WordEnd, Dec, NUL, Space
<1> HIDE DEF x, B
<1>7. x \in Nat /\ c <= x /\ x < N + 2 * NameSize
  BY <1>1, <1>5
<1>8. \A j \in c .. x - 1 : buf[j + 1] \notin {0, 32}
  BY <1>5
<1>9. ASSUME c <= N PROVE x <= N /\ (x = N \/ t[x + 1] = 32) /\ (buf[x + 1] = 32 <=> x < N)
  <2>1. buf[N + 1] = 0
    <3>1. N \in N .. N + 2 * NameSize - 1
      BY <1>1
    <3> QED BY <1>1, <3>1, Zenon
  <2>2. x <= N
    <3>1. ~(x <= N) => N \in c .. x - 1
      BY <1>1, <1>7, <1>9
    <3> QED BY <1>8, <2>1, <3>1
  <2>3. x < N => buf[x + 1] = t[x + 1] /\ t[x + 1] # 0
    <3>1. x < N => x \in 0 .. N - 1 /\ x + 1 \in 1 .. N
      BY <1>1, <1>7
    <3>2. t \in [1 .. N -> 1 .. 255]
      BY Zenon DEF IsCommand
    <3>3. x < N => t[x + 1] \in 1 .. 255
      BY <3>1, <3>2
    <3>4. \A b \in 1 .. 255 : b # 0
      OBVIOUS
    <3> QED BY <1>1, <3>1, <3>3, <3>4, Zenon
  <2>4. buf[x + 1] \in {0, 32}
    BY <1>5
  <2> HIDE DEF P, R
  <2>5. CASE x < N
    BY <2>2, <2>3, <2>4, <2>5
  <2>6. CASE ~(x < N)
    <3>1. x = N
      BY <1>1, <1>7, <2>2, <2>6
    <3>2. buf[x + 1] = 0 /\ 0 # 32
      BY <2>1, <3>1
    <3> QED BY <2>2, <2>6, <3>1, <3>2, Zenon
  <2> QED BY <2>5, <2>6
<1>10. ASSUME N <= c PROVE x = c /\ buf[x + 1] = 0
  <2>1. c \in N .. N + 2 * NameSize - 1
    BY <1>1, <1>10
  <2>2. buf[c + 1] = 0
    BY <1>1, <2>1, Zenon
  <2>3. x # c => c \in c .. x - 1
    BY <1>7
  <2> QED BY <1>8, <2>2, <2>3
<1> QED BY <1>6, <1>7, <1>8, <1>9, <1>10 DEF Ended

(* What a turn leaves, when the word ends at e and w is the buffer with    *)
(* it.                                                                     *)
Moved(p, T, K, w, buf, e) ==
  /\ IsParse(T, K)
  /\ buf[e + 1] = 32 =>
       /\ T.curr = "arg" /\ T.i = 0 /\ T.c = e + 1 /\ T.left = p.left /\ T.mem[p.curr] = w
       /\ \A b \in Buffers : b # p.curr => T.mem[b] = p.mem[b]
  /\ buf[e + 1] # 32 /\ p.curr = "filename" =>
       T.left /\ T.mem["filename"] = w /\ T.mem["arg"] = [p.mem["arg"] EXCEPT ![0] = 0]
  /\ buf[e + 1] # 32 /\ p.curr = "arg" =>
       /\ T.curr = "arg" /\ T.i = p.i + (e - p.c) + 1 /\ T.c = e + 1 /\ T.left = p.left
       /\ T.mem["arg"] = w /\ T.mem["filename"] = p.mem["filename"]
LEMMA TurnIs ==
  ASSUME NEW K \in Nat, NEW p, IsParse(p, K), NEW buf, NEW e \in Nat, e = WordEnd(buf, p.c), p.c <= e,
         NEW w \in [0 .. K - 1 -> Nat], w = Word(p.mem[p.curr], p.i, buf, p.c, e)
  PROVE  Moved(p, Turn(p, buf), K, w, buf, e)
<1>1. p \in [mem : [Buffers -> [0 .. K - 1 -> Nat]], curr : Buffers, i : Nat, c : Nat, left : BOOLEAN]
  BY DEF IsParse
<1>2. p.mem \in [Buffers -> [0 .. K - 1 -> Nat]] /\ p.curr \in Buffers /\ p.i \in Nat /\ p.c \in Nat /\ p.left \in BOOLEAN
  BY <1>1
<1>3. "arg" \in Buffers /\ "filename" \in Buffers /\ "arg" # "filename" /\ \A b \in Buffers : b = "arg" \/ b = "filename"
  BY DEF Buffers
<1> DEFINE mem == [p.mem EXCEPT ![p.curr] = w]
           mem2 == [mem EXCEPT !["arg"] = [mem["arg"] EXCEPT ![0] = 0]]
           a0 == [p.mem["arg"] EXCEPT ![0] = 0]
           T1 == [p EXCEPT !.mem = mem, !.curr = "arg", !.i = 0, !.c = e + 1]
           T2 == [p EXCEPT !.mem = mem2, !.left = TRUE]
           T3 == [p EXCEPT !.mem = mem, !.i = p.i + (e - p.c) + 1, !.c = e + 1]
<1>4. Turn(p, buf) = IF buf[e + 1] = 32 THEN T1 ELSE IF p.curr = "filename" THEN T2 ELSE T3
  BY Zenon DEF Turn, Dec, Space, NUL
<1> HIDE DEF Buffers
<1>5. mem \in [Buffers -> [0 .. K - 1 -> Nat]] /\ mem[p.curr] = w /\ \A b \in Buffers : b # p.curr => mem[b] = p.mem[b]
  BY <1>2
<1>6. a0 \in [0 .. K - 1 -> Nat]
  BY <1>2, <1>3
<1> HIDE DEF mem, a0
<1>7. ASSUME p.curr = "filename"
      PROVE  mem2 \in [Buffers -> [0 .. K - 1 -> Nat]] /\ mem2["filename"] = w /\ mem2["arg"] = a0
  <2>1. mem["arg"] = p.mem["arg"] /\ mem["filename"] = w
    BY <1>3, <1>5, <1>7
  <2>2. mem2 = [mem EXCEPT !["arg"] = a0]
    BY <2>1 DEF a0
  <2> HIDE DEF mem2
  <2> QED BY <1>3, <1>5, <1>6, <2>1, <2>2
<1>8. CASE buf[e + 1] = 32
  <2>1. T1 \in [mem : [Buffers -> [0 .. K - 1 -> Nat]], curr : Buffers, i : Nat, c : Nat, left : BOOLEAN]
    <3> DEFINE M == [Buffers -> [0 .. K - 1 -> Nat]]
    <3>1. p \in [mem : M, curr : Buffers, i : Nat, c : Nat, left : BOOLEAN] /\ mem \in M
      BY <1>1, <1>5
    <3>2. e + 1 \in Nat /\ p.i + (e - p.c) + 1 \in Nat
      BY <1>2
    <3> HIDE DEF M
    <3>3. T1 \in [mem : M, curr : Buffers, i : Nat, c : Nat, left : BOOLEAN]
      BY <1>3, <3>1, <3>2
    <3> QED BY <3>3 DEF M
  <2>2. T1.mem = mem /\ T1.curr = "arg" /\ T1.i = 0 /\ T1.c = e + 1 /\ T1.left = p.left
    BY <1>1
  <2> HIDE DEF T1
  <2>3. IsParse(T1, K)
    BY <2>1 DEF IsParse
  <2>4. Turn(p, buf) = T1
    BY <1>4, <1>8, Zenon
  <2>5. Moved(p, T1, K, w, buf, e)
    BY <1>5, <1>8, <2>2, <2>3, Zenon DEF Moved
  <2> QED BY <2>4, <2>5
<1>9. CASE buf[e + 1] # 32 /\ p.curr = "filename"
  <2>1. T2 \in [mem : [Buffers -> [0 .. K - 1 -> Nat]], curr : Buffers, i : Nat, c : Nat, left : BOOLEAN]
    <3> HIDE DEF mem2
    <3> QED BY <1>1, <1>7, <1>9
  <2>2. T2.mem = mem2 /\ T2.left = TRUE
    <3> HIDE DEF mem2
    <3> QED BY <1>1
  <2> HIDE DEF T2, mem2
  <2>3. IsParse(T2, K)
    BY <2>1 DEF IsParse
  <2>4. Turn(p, buf) = T2
    BY <1>4, <1>9, Zenon
  <2>5. mem2["arg"] = [p.mem["arg"] EXCEPT ![0] = 0] /\ mem2["filename"] = w
    BY <1>7, <1>9 DEF a0
  <2>6. Moved(p, T2, K, w, buf, e)
    BY <1>3, <1>9, <2>2, <2>3, <2>5, Zenon DEF Moved
  <2> QED BY <2>4, <2>6
<1>10. CASE buf[e + 1] # 32 /\ p.curr = "arg"
  <2>1. T3 \in [mem : [Buffers -> [0 .. K - 1 -> Nat]], curr : Buffers, i : Nat, c : Nat, left : BOOLEAN]
    <3> DEFINE M == [Buffers -> [0 .. K - 1 -> Nat]]
    <3>1. p \in [mem : M, curr : Buffers, i : Nat, c : Nat, left : BOOLEAN] /\ mem \in M
      BY <1>1, <1>5
    <3>2. e + 1 \in Nat /\ p.i + (e - p.c) + 1 \in Nat
      BY <1>2
    <3> HIDE DEF M
    <3>3. T3 \in [mem : M, curr : Buffers, i : Nat, c : Nat, left : BOOLEAN]
      BY <1>3, <3>1, <3>2
    <3> QED BY <3>3 DEF M
  <2>2. T3.mem = mem /\ T3.curr = p.curr /\ T3.i = p.i + (e - p.c) + 1 /\ T3.c = e + 1 /\ T3.left = p.left
    BY <1>1
  <2> HIDE DEF T3
  <2>3. IsParse(T3, K)
    BY <2>1 DEF IsParse
  <2>4. Turn(p, buf) = T3
    BY <1>3, <1>4, <1>10, Zenon
  <2>5. mem["arg"] = w /\ mem["filename"] = p.mem["filename"]
    BY <1>3, <1>5, <1>10
  <2>6. Moved(p, T3, K, w, buf, e)
    BY <1>3, <1>10, <2>2, <2>3, <2>5, Zenon DEF Moved
  <2> QED BY <2>4, <2>6
<1> QED BY <1>2, <1>3, <1>8, <1>9, <1>10

(* A buffer with a word from place i on.                                   *)
Written(b, w, K, i, buf, c, e) ==
  /\ w \in [0 .. K - 1 -> Nat]
  /\ \A x \in 0 .. K - 1 : /\ i <= x /\ x < i + (e - c) => w[x] = buf[c + (x - i) + 1]
                           /\ x = i + (e - c) => w[x] = 0
                           /\ x < i \/ i + (e - c) < x => w[x] = b[x]
LEMMA WordIs ==
  ASSUME NEW K \in Nat, NEW b \in [0 .. K - 1 -> Nat], NEW i \in Nat, NEW c \in Nat, NEW e \in Nat, c <= e,
         NEW buf, \A j \in c .. e - 1 : buf[j + 1] \in Nat
  PROVE  Written(b, Word(b, i, buf, c, e), K, i, buf, c, e)
<1> DEFINE w == Word(b, i, buf, c, e)
           D == 0 .. K - 1
           V(x) == IF i <= x /\ x < i + (e - c) THEN buf[c + (x - i) + 1] ELSE IF x = i + (e - c) THEN 0 ELSE b[x]
<1>1. w = [x \in D |-> V(x)]
  BY Zenon DEF Word, Dec, NUL
<1>2. ASSUME NEW x \in D PROVE V(x) \in Nat
  <2>1. CASE i <= x /\ x < i + (e - c)
    <3>1. c + (x - i) \in c .. e - 1
      BY <2>1
    <3> QED BY <2>1, <3>1
  <2>2. CASE ~(i <= x /\ x < i + (e - c))
    BY <2>2
  <2> QED BY <2>1, <2>2
<1>3. (\A x \in D : w[x] = V(x)) /\ w \in [D -> Nat]
  <2> HIDE DEF V, w
  <2> QED BY <1>1, <1>2
<1> HIDE DEF w
<1>4. ASSUME NEW x \in D
      PROVE  /\ i <= x /\ x < i + (e - c) => V(x) = buf[c + (x - i) + 1]
             /\ x = i + (e - c) => V(x) = 0
             /\ x < i \/ i + (e - c) < x => V(x) = b[x]
  <2>1. /\ x = i + (e - c) => ~(i <= x /\ x < i + (e - c))
        /\ x < i \/ i + (e - c) < x => ~(i <= x /\ x < i + (e - c)) /\ x # i + (e - c)
    OBVIOUS
  <2> QED BY <2>1, Zenon
<1> HIDE DEF V
<1> QED BY <1>3, <1>4, Zenon DEF Written, w

(* The loop invariant after k turns: at the start of a field, behind the   *)
(* last one, or left.                                                      *)
IsFirst(t, N, F) == F \in 1 .. N + 1 /\ (F = N + 1 \/ t[F] = 32) /\ \A j \in 1 .. F - 1 : t[j] # 32
IsLast(t, N, l) == l \in 0 .. N /\ (l = 0 \/ t[l] = 32) /\ \A j \in l + 1 .. N : t[j] # 32
Spelt(b, t, a, m) == b[m] = 0 /\ \A j \in 0 .. m - 1 : b[j] = t[a + j + 1]
Behind(m, old, K) == \A b \in Buffers : \A x \in NameSize .. K - 1 : m[b][x] = old[b][x]
AtField(p, t, N, F, k) ==
  /\ ~p.left /\ p.i = 0 /\ p.c <= N /\ k <= p.c
  /\ \/ p.c = 0 /\ p.curr = "filename"
     \/ p.c > 0 /\ t[p.c] = 32 /\ p.curr = "arg" /\ F <= p.c /\ Spelt(p.mem["filename"], t, 0, F - 1)
AtPad(p, t, N, F, k) ==
  /\ ~p.left /\ p.curr = "arg" /\ F <= N /\ Spelt(p.mem["filename"], t, 0, F - 1)
  /\ \E l \in 1 .. N : IsLast(t, N, l) /\ p.c = p.i + l /\ N < p.c /\ Spelt(p.mem["arg"], t, l, N - l)
  /\ p.i <= NameSize /\ (k <= p.c \/ p.i = NameSize)
AtEnd(p, t, N, F) == p.left /\ F = N + 1 /\ Spelt(p.mem["filename"], t, 0, F - 1) /\ p.mem["arg"][0] = 0
PInv(p, old, t, N, F, K, k) ==
  /\ IsParse(p, K) /\ Behind(p.mem, old, K)
  /\ AtField(p, t, N, F, k) \/ AtPad(p, t, N, F, k) \/ AtEnd(p, t, N, F)

Setting(buf, t, N, F, K) ==
  /\ IsCommand(buf, t, N) /\ IsFirst(t, N, F) /\ K \in Nat /\ NameSize <= K
  /\ \A a \in 0 .. N - NameSize : \E j \in a + 1 .. a + NameSize : t[j] = 32

LEMMA BytesThere ==
  ASSUME NEW buf, NEW t, NEW N, IsCommand(buf, t, N)
  PROVE  \A j \in 0 .. N + 2 * NameSize - 1 : buf[j + 1] \in Nat
<1>1. /\ N \in Nat /\ NameSize \in Nat /\ t \in [1 .. N -> 1 .. 255]
      /\ \A j \in 0 .. N - 1 : buf[j + 1] = t[j + 1]
      /\ \A j \in N .. N + 2 * NameSize - 1 : buf[j + 1] = 0
  BY NameSizeAssumption DEF IsCommand
<1> TAKE j \in 0 .. N + 2 * NameSize - 1
<1>2. CASE j < N
  <2>1. j \in 0 .. N - 1 /\ j + 1 \in 1 .. N
    BY <1>1, <1>2
  <2>2. t[j + 1] \in 1 .. 255
    BY <1>1, <2>1
  <2>3. buf[j + 1] = t[j + 1]
    BY <1>1, <2>1, Zenon
  <2> QED BY <2>2, <2>3
<1>3. CASE ~(j < N)
  <2>1. j \in N .. N + 2 * NameSize - 1
    BY <1>1, <1>3
  <2>2. buf[j + 1] = 0
    BY <1>1, <2>1, Zenon
  <2> QED BY <2>2
<1> QED BY <1>2, <1>3

LEMMA FieldTurn ==
  ASSUME NEW buf, NEW t, NEW N, NEW F, NEW K, Setting(buf, t, N, F, K), NEW old, NEW k \in Nat,
         NEW p, IsParse(p, K), Behind(p.mem, old, K), AtField(p, t, N, F, k)
  PROVE  PInv(Turn(p, buf), old, t, N, F, K, k + 1)
<1> DEFINE c == p.c
           b == p.mem[p.curr]
           e == WordEnd(buf, p.c)
           w == Word(p.mem[p.curr], p.i, buf, p.c, e)
           T == Turn(p, buf)
           S == NameSize
<1>1. /\ IsCommand(buf, t, N) /\ IsFirst(t, N, F) /\ K \in Nat /\ S <= K /\ S \in Nat \ {0} /\ N \in Nat
      /\ \A a \in 0 .. N - S : \E j \in a + 1 .. a + S : t[j] = 32
      /\ \A j \in 0 .. N - 1 : buf[j + 1] = t[j + 1]
  BY NameSizeAssumption, Zenon DEF Setting, IsCommand
<1>2. /\ p.mem \in [Buffers -> [0 .. K - 1 -> Nat]] /\ p.curr \in Buffers /\ c \in Nat /\ p.left \in BOOLEAN
      /\ b \in [0 .. K - 1 -> Nat]
  BY DEF IsParse
<1>3. ~p.left /\ p.i = 0 /\ c <= N /\ k <= c
  BY DEF AtField
<1>4. "arg" \in Buffers /\ "filename" \in Buffers /\ "arg" # "filename" /\ \A x \in Buffers : x = "arg" \/ x = "filename"
  BY DEF Buffers
<1>5. Ended(buf, t, N, c, e)
  <2>1. c < N + 2 * NameSize
    BY <1>1, <1>2, <1>3
  <2> QED BY <1>1, <1>2, <2>1, WordEnds, Zenon
<1> HIDE DEF e
<1>6. /\ e \in Nat /\ c <= e /\ e <= N /\ (\A j \in c .. e - 1 : buf[j + 1] # 32)
      /\ (buf[e + 1] = 32 <=> e < N) /\ (e = N \/ t[e + 1] = 32)
  BY <1>3, <1>5 DEF Ended
<1>7. \A j \in c + 1 .. e : t[j] # 32
  <2> TAKE j \in c + 1 .. e
  <2>1. j - 1 \in c .. e - 1 /\ j - 1 \in 0 .. N - 1 /\ j - 1 + 1 = j
    BY <1>1, <1>2, <1>6
  <2>2. buf[j - 1 + 1] # 32 /\ buf[j - 1 + 1] = t[j - 1 + 1]
    BY <1>1, <1>6, <2>1, Zenon
  <2> QED BY <2>1, <2>2
<1>8. e - c < S
  <2>1. SUFFICES ASSUME ~(e - c < S) PROVE FALSE
    BY <2>1
  <2>2. c \in 0 .. N - S /\ \A j \in c + 1 .. c + S : j \in c + 1 .. e
    BY <1>1, <1>2, <1>6, <2>1
  <2> QED BY <1>1, <1>7, <2>2, Zenon
<1>9. Written(b, w, K, 0, buf, c, e)
  <2>1. \A j \in c .. e - 1 : buf[j + 1] \in Nat
    <3>1. \A j \in c .. e - 1 : j \in 0 .. N + 2 * NameSize - 1
      BY <1>1, <1>2, <1>6
    <3> QED BY <1>1, <3>1, BytesThere, Zenon
  <2>2. w = Word(b, 0, buf, c, e)
    BY <1>3, Zenon
  <2>3. Written(b, Word(b, 0, buf, c, e), K, 0, buf, c, e)
    <3> HIDE DEF b, c
    <3>1. 0 \in Nat
      OBVIOUS
    <3> QED BY <1>1, <1>2, <1>6, <2>1, <3>1, WordIs
  <2> QED BY <2>2, <2>3, Zenon
<1>10. w \in [0 .. K - 1 -> Nat] /\ w = Word(p.mem[p.curr], p.i, buf, p.c, e)
  BY <1>9, Zenon DEF Written
<1>11. Moved(p, T, K, w, buf, e)
  BY <1>1, <1>6, <1>10, TurnIs, Zenon DEF e
<1> HIDE DEF w, T
<1>12. Spelt(w, t, c, e - c)
  <2>1. e - c \in 0 .. K - 1 /\ e - c = 0 + (e - c)
    BY <1>1, <1>2, <1>6, <1>8
  <2>2. w[e - c] = 0
    BY <1>9, <2>1, Zenon DEF Written
  <2>3. ASSUME NEW j \in 0 .. (e - c) - 1 PROVE w[j] = t[c + j + 1]
    <3>1. j \in 0 .. K - 1 /\ 0 <= j /\ j < 0 + (e - c) /\ c + (j - 0) = c + j /\ c + j \in 0 .. N - 1
      <4>1. N \in Nat /\ K \in Nat /\ S \in Nat /\ e \in Nat /\ c \in Nat /\ e <= N /\ e - c < S /\ S <= K
        BY <1>1, <1>2, <1>6, <1>8, Zenon
      <4> HIDE DEF c, S
      <4> QED BY <4>1
    <3>2. w[j] = buf[c + (j - 0) + 1]
      BY <1>9, <3>1, Zenon DEF Written
    <3>3. buf[(c + j) + 1] = t[(c + j) + 1]
      BY <1>1, <3>1, Zenon
    <3> QED BY <3>1, <3>2, <3>3
  <2> QED BY <2>2, <2>3, Zenon DEF Spelt
<1>13. \A x \in S .. K - 1 : w[x] = b[x]
  <2> TAKE x \in S .. K - 1
  <2>1. x \in 0 .. K - 1 /\ 0 + (e - c) < x
    BY <1>1, <1>2, <1>6, <1>8
  <2> QED BY <1>9, <2>1, Zenon DEF Written
<1>14. IsParse(T, K)
  BY <1>11, Zenon DEF Moved
<1>15. \A x \in S .. K - 1 : x # 0
  BY <1>1
<1>16. ASSUME c = 0 PROVE F = e + 1 /\ F - 1 = e - c
  <2>1. F \in 1 .. N + 1 /\ (F = N + 1 \/ t[F] = 32) /\ \A j \in 1 .. F - 1 : t[j] # 32
    BY <1>1, Zenon DEF IsFirst
  <2>2. F < e + 1 => F \in c + 1 .. e /\ F # N + 1
    BY <1>1, <1>6, <1>16, <2>1
  <2>3. ~(F < e + 1)
    BY <1>7, <2>1, <2>2, Zenon
  <2>4. e + 1 < F => e + 1 \in 1 .. F - 1 /\ e # N
    BY <1>1, <1>6, <2>1
  <2>5. ~(e + 1 < F)
    BY <1>6, <2>1, <2>4, Zenon
  <2> QED BY <1>1, <1>6, <1>16, <2>1, <2>3, <2>5
<1>17. \/ c = 0 /\ p.curr = "filename"
       \/ c > 0 /\ t[c] = 32 /\ p.curr = "arg" /\ F <= c /\ Spelt(p.mem["filename"], t, 0, F - 1)
  BY DEF AtField
<1>18. CASE e < N
  <2>1. buf[e + 1] = 32 /\ e # N
    BY <1>6, <1>18
  <2>2. /\ T.curr = "arg" /\ T.i = 0 /\ T.c = e + 1 /\ T.left = p.left /\ T.mem[p.curr] = w
        /\ \A x \in Buffers : x # p.curr => T.mem[x] = p.mem[x]
    BY <1>11, <2>1, Zenon DEF Moved
  <2>3. Behind(T.mem, old, K)
    <3>1. ASSUME NEW x \in Buffers, NEW y \in S .. K - 1 PROVE T.mem[x][y] = p.mem[x][y]
      <4>1. CASE x = p.curr
        BY <1>13, <2>2, <4>1, Zenon
      <4>2. CASE x # p.curr
        BY <2>2, <4>2, Zenon
      <4> QED BY <4>1, <4>2, Zenon
    <3> QED BY <3>1, Zenon DEF Behind
  <2>4. Spelt(T.mem["filename"], t, 0, F - 1) /\ F <= e + 1
    <3>1. CASE c = 0 /\ p.curr = "filename"
      BY <1>6, <1>12, <1>16, <2>2, <3>1
    <3>2. CASE p.curr = "arg" /\ F <= c /\ Spelt(p.mem["filename"], t, 0, F - 1)
      <4>1. T.mem["filename"] = p.mem["filename"]
        BY <1>4, <2>2, <3>2, Zenon
      <4>2. F <= e + 1
        <5>1. F \in Nat
          BY <1>1 DEF IsFirst
        <5> QED BY <1>2, <1>6, <3>2, <5>1
      <4> QED BY <3>2, <4>1, <4>2, Zenon
    <3> QED BY <1>17, <3>1, <3>2, Zenon
  <2>5. e + 1 <= N /\ k + 1 <= e + 1 /\ e + 1 > 0 /\ t[e + 1] = 32
    BY <1>1, <1>2, <1>3, <1>6, <1>18
  <2>6. AtField(T, t, N, F, k + 1)
    BY <1>3, <2>2, <2>4, <2>5, Zenon DEF AtField
  <2> QED BY <1>14, <2>3, <2>6, Zenon DEF PInv, T
<1>19. CASE ~(e < N)
  <2>1. buf[e + 1] # 32 /\ e = N
    BY <1>1, <1>6, <1>19
  <2>2. CASE c = 0 /\ p.curr = "filename"
    <3>1. T.left /\ T.mem["filename"] = w /\ T.mem["arg"] = [p.mem["arg"] EXCEPT ![0] = 0]
      BY <1>11, <2>1, <2>2, Zenon DEF Moved
    <3>2. p.mem["arg"] \in [0 .. K - 1 -> Nat] /\ 0 \in 0 .. K - 1
      BY <1>1, <1>2, <1>4
    <3>3. T.mem["arg"][0] = 0 /\ \A x \in S .. K - 1 : T.mem["arg"][x] = p.mem["arg"][x]
      <4>1. \A x \in S .. K - 1 : x \in 0 .. K - 1
        BY <1>1
      <4> QED BY <1>15, <3>1, <3>2, <4>1
    <3>4. Behind(T.mem, old, K)
      <4>1. ASSUME NEW x \in Buffers, NEW y \in S .. K - 1 PROVE T.mem[x][y] = p.mem[x][y]
        <5>1. CASE x = "arg"
          BY <3>3, <5>1, Zenon
        <5>2. CASE x = "filename"
          BY <1>13, <2>2, <3>1, <5>2, Zenon
        <5> QED BY <1>4, <5>1, <5>2, Zenon
      <4> QED BY <4>1, Zenon DEF Behind
    <3>5. F = N + 1 /\ Spelt(T.mem["filename"], t, 0, F - 1)
      BY <1>12, <1>16, <2>1, <2>2, <3>1
    <3>6. AtEnd(T, t, N, F)
      BY <3>1, <3>3, <3>5, Zenon DEF AtEnd
    <3> QED BY <1>14, <3>4, <3>6, Zenon DEF PInv, T
  <2>3. CASE c > 0 /\ t[c] = 32 /\ p.curr = "arg" /\ F <= c /\ Spelt(p.mem["filename"], t, 0, F - 1)
    <3>1. /\ T.curr = "arg" /\ T.i = p.i + (e - p.c) + 1 /\ T.c = e + 1 /\ T.left = p.left
          /\ T.mem["arg"] = w /\ T.mem["filename"] = p.mem["filename"]
      BY <1>11, <2>1, <2>3, Zenon DEF Moved
    <3>2. Behind(T.mem, old, K)
      <4>1. ASSUME NEW x \in Buffers, NEW y \in S .. K - 1 PROVE T.mem[x][y] = p.mem[x][y]
        <5>1. CASE x = "arg"
          BY <1>13, <2>3, <3>1, <5>1, Zenon
        <5>2. CASE x = "filename"
          BY <3>1, <5>2, Zenon
        <5> QED BY <1>4, <5>1, <5>2, Zenon
      <4> QED BY <4>1, Zenon DEF Behind
    <3>3. IsLast(t, N, c) /\ c \in 1 .. N
      BY <1>1, <1>2, <1>3, <1>7, <2>1, <2>3 DEF IsLast
    <3>4. T.c = T.i + c /\ N < T.c /\ T.i <= NameSize /\ k + 1 <= T.c /\ F <= N
      <4>1. F \in Nat
        BY <1>1 DEF IsFirst
      <4>2. /\ N \in Nat /\ c \in Nat /\ e \in Nat /\ S \in Nat /\ S = NameSize /\ e = N /\ c <= e /\ e - c < S
            /\ k <= c /\ F <= c /\ c > 0 /\ T.i = 0 + (e - c) + 1 /\ T.c = e + 1
        BY <1>1, <1>2, <1>3, <1>6, <1>8, <2>1, <2>3, <3>1, Zenon
      <4> HIDE DEF c, S
      <4> QED BY <4>1, <4>2
    <3>5. Spelt(T.mem["arg"], t, c, N - c)
      BY <1>12, <2>1, <3>1, Zenon
    <3>6. AtPad(T, t, N, F, k + 1)
      BY <1>3, <2>3, <3>1, <3>3, <3>4, <3>5, Zenon DEF AtPad
    <3> QED BY <1>14, <3>2, <3>6, Zenon DEF PInv, T
  <2> QED BY <1>17, <2>2, <2>3, Zenon
<1> QED BY <1>18, <1>19, Zenon

LEMMA PadTurn ==
  ASSUME NEW buf, NEW t, NEW N, NEW F, NEW K, Setting(buf, t, N, F, K), NEW old, NEW k \in Nat,
         NEW p, IsParse(p, K), Behind(p.mem, old, K), AtPad(p, t, N, F, k), p.i < NameSize
  PROVE  PInv(Turn(p, buf), old, t, N, F, K, k + 1)
<1> DEFINE c == p.c
           i == p.i
           b == p.mem["arg"]
           e == WordEnd(buf, p.c)
           w == Word(p.mem[p.curr], p.i, buf, p.c, e)
           T == Turn(p, buf)
           S == NameSize
<1>1. IsCommand(buf, t, N) /\ K \in Nat /\ S <= K /\ S \in Nat \ {0} /\ N \in Nat
  BY NameSizeAssumption, Zenon DEF Setting, IsCommand
<1>2. "arg" \in Buffers /\ "filename" \in Buffers /\ \A x \in Buffers : x = "arg" \/ x = "filename"
  BY DEF Buffers
<1>3. /\ p.mem \in [Buffers -> [0 .. K - 1 -> Nat]] /\ c \in Nat /\ i \in Nat /\ b \in [0 .. K - 1 -> Nat]
  BY <1>2 DEF IsParse
<1>4. ~p.left /\ p.curr = "arg" /\ F <= N /\ Spelt(p.mem["filename"], t, 0, F - 1) /\ (k <= c \/ i = S)
  BY Zenon DEF AtPad
<1>5. PICK l \in 1 .. N : IsLast(t, N, l) /\ c = i + l /\ N < c /\ Spelt(b, t, l, N - l)
  BY Zenon DEF AtPad
<1>6. c < N + 2 * S /\ N <= c /\ i < S /\ k <= c
  <2>1. c \in Nat /\ i \in Nat /\ c = i + l /\ N < c /\ i < S /\ (k <= c \/ i = S) /\ S \in Nat /\ N \in Nat
    BY <1>1, <1>3, <1>4, <1>5, Zenon
  <2> HIDE DEF c, i, S
  <2> QED BY <2>1
<1>7. Ended(buf, t, N, c, e)
  BY <1>1, <1>3, <1>6, WordEnds, Zenon
<1> HIDE DEF e
<1>8. e = c /\ buf[e + 1] = 0 /\ e \in Nat /\ c <= e
  BY <1>3, <1>6, <1>7 DEF Ended
<1>9. Written(b, w, K, i, buf, c, e)
  <2>1. \A j \in c .. e - 1 : buf[j + 1] \in Nat
    BY <1>3, <1>8
  <2>2. w = Word(b, i, buf, c, e)
    BY <1>4, Zenon
  <2>3. Written(b, Word(b, i, buf, c, e), K, i, buf, c, e)
    <3> HIDE DEF b, c, i
    <3> QED BY <1>1, <1>3, <1>8, <2>1, WordIs
  <2> QED BY <2>2, <2>3, Zenon
<1>10. w \in [0 .. K - 1 -> Nat] /\ w = Word(p.mem[p.curr], p.i, buf, p.c, e)
  BY <1>9, Zenon DEF Written
<1>11. Moved(p, T, K, w, buf, e)
  BY <1>1, <1>8, <1>10, TurnIs, Zenon DEF e
<1> HIDE DEF w, T
<1>12. \A x \in 0 .. K - 1 : x # i => w[x] = b[x]
  <2> SUFFICES ASSUME NEW x \in 0 .. K - 1, x # i PROVE w[x] = b[x]
    OBVIOUS
  <2>1. x < i \/ i + (e - c) < x
    BY <1>3, <1>8
  <2> QED BY <1>9, <2>1, Zenon DEF Written
<1>13. /\ T.curr = "arg" /\ T.i = p.i + (e - p.c) + 1 /\ T.c = e + 1 /\ T.left = p.left
       /\ T.mem["arg"] = w /\ T.mem["filename"] = p.mem["filename"]
  <2>1. buf[e + 1] # 32
    BY <1>8
  <2> QED BY <1>4, <1>11, <2>1, Zenon DEF Moved
<1>14. IsParse(T, K)
  BY <1>11, Zenon DEF Moved
<1>15. Behind(T.mem, old, K)
  <2>1. ASSUME NEW x \in Buffers, NEW y \in S .. K - 1 PROVE T.mem[x][y] = p.mem[x][y]
    <3>1. CASE x = "arg"
      <4>1. y \in 0 .. K - 1 /\ y # i
        BY <1>1, <1>6
      <4> QED BY <1>12, <1>13, <3>1, <4>1, Zenon
    <3>2. CASE x = "filename"
      BY <1>13, <3>2, Zenon
    <3> QED BY <1>2, <3>1, <3>2, Zenon
  <2> QED BY <2>1, Zenon DEF Behind
<1>16. Spelt(w, t, l, N - l)
  <2>1. N - l < i /\ N - l \in 0 .. K - 1
    BY <1>1, <1>3, <1>5, <1>6
  <2>2. \A j \in 0 .. (N - l) - 1 : j \in 0 .. K - 1 /\ j # i
    BY <1>1, <1>3, <1>6, <2>1
  <2>3. N - l # i
    BY <1>3, <2>1
  <2> QED BY <1>5, <1>12, <2>1, <2>2, <2>3, Zenon DEF Spelt
<1>17. T.c = T.i + l /\ N < T.c /\ T.i <= S /\ k + 1 <= T.c
  <2>1. T.i = i + (e - c) + 1 /\ T.c = e + 1 /\ e = c /\ c = i + l /\ N < c /\ i < S /\ k <= c
    BY <1>5, <1>6, <1>8, <1>13, Zenon
  <2>2. i \in Nat /\ c \in Nat /\ S \in Nat /\ N \in Nat /\ l \in Nat
    BY <1>1, <1>3
  <2> HIDE DEF i, c, S
  <2> QED BY <2>1, <2>2
<1>18. AtPad(T, t, N, F, k + 1)
  BY <1>4, <1>5, <1>13, <1>16, <1>17, Zenon DEF AtPad
<1> QED BY <1>14, <1>15, <1>18, Zenon DEF PInv, T

(* One turn of the recursive function.                                     *)
Step(p, buf) == IF Done(p) THEN p ELSE Turn(p, buf)
LEMMA StepKeeps ==
  ASSUME NEW buf, NEW t, NEW N, NEW F, NEW K, Setting(buf, t, N, F, K), NEW old, NEW k \in Nat,
         NEW p, PInv(p, old, t, N, F, K, k)
  PROVE  PInv(Step(p, buf), old, t, N, F, K, k + 1)
<1>1. IsParse(p, K) /\ Behind(p.mem, old, K) /\ NameSize \in Nat \ {0}
  BY NameSizeAssumption, Zenon DEF PInv
<1>2. p.i \in Nat
  BY <1>1 DEF IsParse
<1>3. CASE AtField(p, t, N, F, k)
  <2>1. ~Done(p)
    BY <1>1, <1>3 DEF AtField, Done
  <2>2. PInv(Turn(p, buf), old, t, N, F, K, k + 1)
    BY <1>1, <1>3, FieldTurn, Zenon
  <2> QED BY <2>1, <2>2, Zenon DEF Step
<1>4. CASE AtPad(p, t, N, F, k)
  <2>1. CASE p.i < NameSize
    <3>1. ~Done(p)
      BY <1>1, <1>2, <1>4, <2>1 DEF AtPad, Done
    <3>2. PInv(Turn(p, buf), old, t, N, F, K, k + 1)
      BY <1>1, <1>4, <2>1, PadTurn, Zenon
    <3> QED BY <3>1, <3>2, Zenon DEF Step
  <2>2. CASE ~(p.i < NameSize)
    <3>1. Done(p)
      BY <1>1, <1>2, <2>2 DEF Done
    <3>2. p.i = NameSize
      BY <1>1, <1>2, <1>4, <2>2 DEF AtPad
    <3>3. AtPad(p, t, N, F, k + 1)
      BY <1>4, <3>2, Zenon DEF AtPad
    <3> QED BY <1>1, <3>1, <3>3, Zenon DEF Step, PInv
  <2> QED BY <2>1, <2>2
<1>5. CASE AtEnd(p, t, N, F)
  <2>1. Done(p)
    BY <1>5, Zenon DEF AtEnd, Done
  <2> QED BY <1>1, <1>5, <2>1, Zenon DEF Step, PInv
<1> QED BY <1>3, <1>4, <1>5, Zenon DEF PInv

(* The turns: a function that solves the equation exists, turn by turn.    *)
Run(h, s, buf, n) == h = [k \in 0 .. n |-> IF k = 0 THEN s ELSE Step(h[k - 1], buf)]
LEMMA RunExists == ASSUME NEW s, NEW buf, NEW n \in Nat PROVE \E h : Run(h, s, buf, n)
<1> DEFINE B == {m \in Nat : ~ \E h : Run(h, s, buf, m)}
<1>1. SUFFICES ASSUME B # {} PROVE FALSE
  BY <1>1, Zenon
<1>2. B \in SUBSET Nat
  OBVIOUS
<1>3. PICK m \in B : \A j \in B : m <= j
  <2> HIDE DEF B
  <2> QED BY <1>1, <1>2, Least
<1>4. m \in Nat /\ ~ \E h : Run(h, s, buf, m)
  OBVIOUS
<1>5. CASE m = 0
  <2> DEFINE h == [k \in 0 .. m |-> s]
  <2>1. \A k \in 0 .. m : k = 0
    BY <1>5
  <2>2. h = [k \in 0 .. m |-> IF k = 0 THEN s ELSE Step(h[k - 1], buf)]
    BY <2>1, Zenon
  <2>3. Run(h, s, buf, m)
    BY <2>2, Zenon DEF Run
  <2> QED BY <1>4, <2>3, Zenon
<1>6. CASE m # 0
  <2>1. m - 1 \in Nat /\ ~(m <= m - 1)
    BY <1>4, <1>6
  <2>2. PICK g : Run(g, s, buf, m - 1)
    BY <1>3, <2>1, Zenon
  <2> DEFINE h == [k \in 0 .. m |-> IF k = m THEN Step(g[m - 1], buf) ELSE g[k]]
  <2>3. \A k \in 0 .. m - 1 : g[k] = IF k = 0 THEN s ELSE Step(g[k - 1], buf)
    BY <2>2, Zenon DEF Run
  <2>4. \A k \in 0 .. m : /\ k # m => k \in 0 .. m - 1
                          /\ k # 0 => k - 1 \in 0 .. m /\ k - 1 # m
    BY <1>4, <1>6
  <2>5. h = [k \in 0 .. m |-> h[k]] /\ \A k \in 0 .. m : h[k] = IF k = m THEN Step(g[m - 1], buf) ELSE g[k]
    BY Zenon
  <2> HIDE DEF h
  <2>6. ASSUME NEW k \in 0 .. m PROVE h[k] = IF k = 0 THEN s ELSE Step(h[k - 1], buf)
    <3>1. CASE k = 0
      BY <1>6, <2>3, <2>4, <2>5, <3>1, Zenon
    <3>2. CASE k # 0
      <4>1. h[k - 1] = g[k - 1]
        BY <2>4, <2>5, <3>2, Zenon
      <4>2. CASE k = m
        BY <2>5, <3>2, <4>1, <4>2, Zenon
      <4>3. CASE k # m
        BY <2>3, <2>4, <2>5, <3>2, <4>1, <4>3, Zenon
      <4> QED BY <4>2, <4>3
    <3> QED BY <3>1, <3>2
  <2>7. Run(h, s, buf, m)
    BY <2>5, <2>6, Zenon DEF Run
  <2> QED BY <1>4, <2>7, Zenon
<1> QED BY <1>5, <1>6

Begin(mem) == [mem |-> mem, curr |-> "filename", i |-> 0, c |-> 0, left |-> FALSE]
LEMMA ParseEnds ==
  ASSUME NEW buf, NEW t, NEW N, NEW F, NEW K, Setting(buf, t, N, F, K),
         NEW old \in [Buffers -> [0 .. K - 1 -> Nat]]
  PROVE  \E p : parse_arg(old, buf) = p.mem /\ PInv(p, old, t, N, F, K, Len(buf))
<1> DEFINE n == Len(buf)
           s == Begin(old)
           f == CHOOSE f : Run(f, s, buf, n)
<1>1. /\ K \in Nat /\ N \in Nat /\ NameSize \in Nat \ {0} /\ n = N + 2 * NameSize
  BY NameSizeAssumption, Zenon DEF Setting, IsCommand
<1>2. n \in Nat
  BY <1>1
<1>3. parse_arg(old, buf) = f[n].mem
  BY Zenon DEF parse_arg, Run, Step, Begin
<1> HIDE DEF n
<1>4. Run(f, s, buf, n)
  <2>1. \E h : Run(h, s, buf, n)
    BY <1>2, RunExists, Zenon
  <2> QED BY <2>1, Zenon
<1> HIDE DEF f
<1>5. f[0] = s /\ \A k \in 0 .. n : k # 0 => f[k] = Step(f[k - 1], buf)
  <2>1. 0 \in 0 .. n
    BY <1>2
  <2>2. \A k \in 0 .. n : f[k] = IF k = 0 THEN s ELSE Step(f[k - 1], buf)
    BY <1>4, Zenon DEF Run
  <2> QED BY <2>1, <2>2, Zenon
<1>6. PInv(s, old, t, N, F, K, 0)
  <2>1. IsParse(s, K) /\ s.mem = old /\ ~s.left /\ s.i = 0 /\ s.c = 0 /\ s.curr = "filename"
    BY <1>1 DEF IsParse, Begin, Buffers
  <2>2. 0 <= N /\ 0 <= 0
    BY <1>1
  <2> HIDE DEF s
  <2>3. AtField(s, t, N, F, 0)
    BY <2>1, <2>2, Zenon DEF AtField
  <2>4. Behind(s.mem, old, K)
    BY <2>1, Zenon DEF Behind
  <2> QED BY <2>1, <2>3, <2>4, Zenon DEF PInv
<1> HIDE DEF s
<1> DEFINE B == {k \in 0 .. n : ~PInv(f[k], old, t, N, F, K, k)}
<1>7. B = {}
  <2>1. SUFFICES ASSUME B # {} PROVE FALSE
    BY <2>1
  <2>2. B \in SUBSET Nat
    BY <1>2
  <2>3. PICK m \in B : \A j \in B : m <= j
    <3> HIDE DEF B
    <3> QED BY <2>1, <2>2, Least
  <2>4. m \in 0 .. n /\ ~PInv(f[m], old, t, N, F, K, m)
    BY Zenon
  <2>5. m # 0
    BY <1>5, <1>6, <2>4, Zenon
  <2>6. m - 1 \in 0 .. n /\ m - 1 \in Nat /\ ~(m <= m - 1) /\ m - 1 + 1 = m
    BY <1>2, <2>4, <2>5
  <2>7. PInv(f[m - 1], old, t, N, F, K, m - 1)
    BY <2>3, <2>6, Zenon
  <2>8. PInv(Step(f[m - 1], buf), old, t, N, F, K, (m - 1) + 1)
    <3> DEFINE q == m - 1
    <3> HIDE DEF q
    <3>1. PInv(f[q], old, t, N, F, K, q) /\ q \in Nat
      BY <2>6, <2>7 DEF q
    <3>2. PInv(Step(f[q], buf), old, t, N, F, K, q + 1)
      BY <3>1, StepKeeps, Zenon
    <3> QED BY <3>2 DEF q
  <2>9. f[m] = Step(f[m - 1], buf)
    BY <1>5, <2>4, <2>5, Zenon
  <2> QED BY <2>4, <2>6, <2>8, <2>9
<1>8. n \in 0 .. n
  BY <1>2
<1>9. PInv(f[n], old, t, N, F, K, n)
  BY <1>7, <1>8, Zenon
<1> QED BY <1>3, <1>9, Zenon DEF n

LEMMA FirstSpaceIs == ASSUME NEW t, NEW N, IsText(t, N) PROVE IsFirst(t, N, FirstSpace(t))
<1>1. N \in Nat /\ Len(t) = N
  BY DEF IsText
<1> DEFINE R == 1 .. N + 1
           P(e) == (e = N + 1 \/ t[e] = 32) /\ \A j \in 1 .. e - 1 : t[j] # 32
           B == {e \in R : e = N + 1 \/ t[e] = 32}
<1>2. B \in SUBSET Nat /\ N + 1 \in B
  BY <1>1
<1>3. PICK m \in B : \A j \in B : m <= j
  <2> HIDE DEF B
  <2> QED BY <1>2, Least
<1>4. m \in R /\ P(m)
  <2>1. \A j \in 1 .. m - 1 : j \in R /\ ~(m <= j)
    BY <1>1
  <2> HIDE DEF R
  <2>2. \A j \in 1 .. m - 1 : t[j] # 32
    BY <1>3, <2>1, Zenon
  <2> QED BY <2>2, Zenon
<1>5. FirstSpace(t) = CHOOSE e \in R : P(e)
  BY <1>1, Zenon DEF FirstSpace, Space
<1> HIDE DEF R, P
<1>6. FirstSpace(t) \in R /\ P(FirstSpace(t))
  BY <1>4, <1>5, Zenon
<1> QED BY <1>6, Zenon DEF IsFirst, R, P

LEMMA LastSpaceIs ==
  ASSUME NEW t, NEW N, IsText(t, N), NEW l, IsLast(t, N, l) PROVE LastSpace(t) = l
<1>1. N \in Nat /\ Len(t) = N
  BY DEF IsText
<1> DEFINE P(e) == (e = 0 \/ t[e] = 32) /\ \A j \in e + 1 .. N : t[j] # 32
           x == CHOOSE e \in 0 .. N : P(e)
<1>2. l \in 0 .. N /\ P(l)
  BY Zenon DEF IsLast
<1>3. x \in 0 .. N /\ P(x)
  <2> HIDE DEF P
  <2> QED BY <1>2, Zenon
<1>4. LastSpace(t) = x
  BY <1>1, Zenon DEF LastSpace, Space
<1> HIDE DEF x
<1>5. x < l => l \in x + 1 .. N /\ l # 0
  BY <1>1, <1>2, <1>3
<1>6. l < x => x \in l + 1 .. N /\ x # 0
  BY <1>1, <1>2, <1>3
<1>7. ~(x < l) /\ ~(l < x)
  BY <1>2, <1>3, <1>5, <1>6, Zenon
<1> QED BY <1>1, <1>2, <1>3, <1>4, <1>7

LEMMA SpeltIs ==
  ASSUME NEW t, NEW N, IsText(t, N), NEW a \in Nat, NEW m \in Nat, a + m <= N, NEW b, Spelt(b, t, a, m)
  PROVE  Spells(b, SubSeq(t, a + 1, a + m))
<1> DEFINE w == SubSeq(t, a + 1, a + m)
<1>1. t \in Seq(Nat) /\ Len(t) = N /\ N \in Nat
  BY DEF IsText
<1>2. Len(w) = m /\ \A j \in 1 .. m : w[j] = t[a + j]
  BY <1>1
<1> HIDE DEF w
<1>3. b[m] = 0 /\ \A j \in 0 .. m - 1 : b[j] = t[a + j + 1]
  BY Zenon DEF Spelt
<1>4. ASSUME NEW j \in 1 .. m PROVE b[j - 1] = w[j]
  <2>1. j - 1 \in 0 .. m - 1 /\ a + (j - 1) + 1 = a + j
    OBVIOUS
  <2>2. b[j - 1] = t[a + (j - 1) + 1]
    BY <1>3, <2>1, Zenon
  <2> QED BY <1>2, <2>1, <2>2
<1> QED BY <1>2, <1>3, <1>4 DEF Spells, w, NUL

(* The buffers r after parse_arg of t.                                     *)
Parsed(r, old, t, N, K) ==
  /\ Spells(r["filename"], SubSeq(t, 1, FirstSpace(t) - 1))
  /\ Spells(r["arg"], IF FirstSpace(t) = N + 1 THEN <<>> ELSE SubSeq(t, LastSpace(t) + 1, N))
  /\ \A b \in Buffers, x \in NameSize .. K - 1 : r[b][x] = old[b][x]

(* parse_arg gives the first field and the last one, and writes nothing    *)
(* behind its buffers, whatever the buffers held and for every command     *)
(* whose fields are shorter than they are (syscall.c:140-163).             *)
THEOREM ParseArgCuts ==
  ASSUME NEW t, NEW N, IsText(t, N), Short(t), NEW K \in Nat, NameSize <= K,
         NEW old \in [Buffers -> [0 .. K - 1 -> Nat]]
  PROVE  Parsed(parse_arg(old, Given(t)), old, t, N, K)
<1> DEFINE F == FirstSpace(t)
           buf == Given(t)
           r == parse_arg(old, buf)
           S == NameSize
<1>1. N \in Nat /\ Len(t) = N /\ S \in Nat \ {0}
  BY NameSizeAssumption, Zenon DEF IsText
<1>2. IsCommand(buf, t, N) /\ IsFirst(t, N, F)
  BY GivenIs, FirstSpaceIs, Zenon
<1> HIDE DEF F
<1>3. Len(buf) = N + 2 * S
  BY <1>2, Zenon DEF IsCommand
<1>4. Setting(buf, t, N, F, K)
  BY <1>1, <1>2, Zenon DEF Setting, Short, Space
<1> HIDE DEF buf
<1>5. PICK p : r = p.mem /\ PInv(p, old, t, N, F, K, Len(buf))
  BY <1>4, ParseEnds, Zenon
<1> HIDE DEF r
<1>6. Behind(r, old, K) /\ p.c \in Nat /\ p.i \in Nat
  <2>1. IsParse(p, K) /\ Behind(p.mem, old, K)
    BY <1>5, Zenon DEF PInv
  <2>2. p.c \in Nat /\ p.i \in Nat
    BY <2>1 DEF IsParse
  <2> QED BY <1>5, <2>1, <2>2, Zenon
<1>7. F \in 1 .. N + 1
  BY <1>2, Zenon DEF IsFirst
<1>8. Spelt(r["filename"], t, 0, F - 1) => Spells(r["filename"], SubSeq(t, 1, F - 1))
  <2>1. 0 + 1 = 1 /\ 0 + (F - 1) = F - 1 /\ F - 1 \in Nat /\ 0 \in Nat /\ 0 + (F - 1) <= N
    BY <1>1, <1>7
  <2>2. Spelt(r["filename"], t, 0, F - 1) => Spells(r["filename"], SubSeq(t, 0 + 1, 0 + (F - 1)))
    <3> DEFINE m == F - 1
    <3>1. 0 \in Nat /\ m \in Nat /\ 0 + m <= N
      BY <2>1, Zenon
    <3> HIDE DEF m
    <3>2. Spelt(r["filename"], t, 0, m) => Spells(r["filename"], SubSeq(t, 0 + 1, 0 + m))
      BY <3>1, SpeltIs
    <3> QED BY <3>2, Zenon DEF m
  <2> QED BY <2>1, <2>2
<1>9. ~AtField(p, t, N, F, Len(buf))
  <2>1. ~(p.c <= N /\ N + 2 * S <= p.c)
    BY <1>1, <1>6
  <2> QED BY <1>3, <2>1, Zenon DEF AtField
<1>10. CASE AtPad(p, t, N, F, Len(buf))
  <2>1. PICK l \in 1 .. N : IsLast(t, N, l) /\ Spelt(r["arg"], t, l, N - l)
    BY <1>5, <1>10, Zenon DEF AtPad
  <2>2. LastSpace(t) = l
    BY <2>1, LastSpaceIs, Zenon
  <2>3. F <= N /\ Spelt(r["filename"], t, 0, F - 1)
    BY <1>5, <1>10, Zenon DEF AtPad
  <2>4. l \in Nat /\ N - l \in Nat /\ l + (N - l) = N /\ l + (N - l) <= N /\ F # N + 1
    BY <1>1, <1>7, <2>3
  <2>5. Spells(r["arg"], SubSeq(t, l + 1, N))
    <3> DEFINE m == N - l
    <3>1. m \in Nat /\ l + m = N /\ l + m <= N /\ Spelt(r["arg"], t, l, m)
      BY <2>1, <2>4, Zenon
    <3> HIDE DEF m
    <3>2. Spells(r["arg"], SubSeq(t, l + 1, l + m))
      BY <2>4, <3>1, SpeltIs, Zenon
    <3> QED BY <3>1, <3>2
  <2> QED BY <1>6, <1>8, <2>2, <2>3, <2>4, <2>5, Zenon DEF Parsed, Behind, F, r, buf
<1>11. CASE AtEnd(p, t, N, F)
  <2>1. F = N + 1 /\ Spelt(r["filename"], t, 0, F - 1) /\ r["arg"][0] = 0
    BY <1>5, <1>11, Zenon DEF AtEnd
  <2>2. Spells(r["arg"], <<>>)
    BY <2>1 DEF Spells, NUL
  <2> QED BY <1>6, <1>8, <2>1, <2>2, Zenon DEF Parsed, Behind, F, r, buf
<1> QED BY <1>5, <1>9, <1>10, <1>11, Zenon DEF PInv

(* parse_arg cuts as ParseRight says, for buffers of every length and      *)
(* commands of up to three times that length (syscall.c:140-163).          *)
THEOREM ParseAlways == input \in Commands => ParseRight
<1> SUFFICES ASSUME input \in Commands, Short(input.t) PROVE ParseRight
  BY Zenon DEF ParseRight
<1> DEFINE t == input.t
           N == Len(t)
           K == 2 * NameSize
<1>1. NameSize \in Nat \ {0} /\ K \in Nat /\ NameSize <= K
  BY NameSizeAssumption
<1>2. IsText(t, N)
  <2>1. PICK n \in 0 .. 3 * NameSize : t \in [1 .. n -> {97, Space}]
    BY DEF Commands
  <2>2. n \in Nat
    BY <1>1
  <2>3. \A x \in {97, Space} : x \in 1 .. 255 /\ x \in Nat
    BY DEF Space
  <2> HIDE DEF t
  <2>4. t \in [1 .. n -> 1 .. 255] /\ t \in [1 .. n -> Nat]
    BY <2>1, <2>3, Zenon
  <2>5. t \in Seq(Nat) /\ Len(t) = n
    BY <2>2, <2>4
  <2> QED BY <2>2, <2>4, <2>5, Zenon DEF IsText
<1>3. OldBuffers \in [Buffers -> [0 .. K - 1 -> Nat]]
  BY DEF OldBuffers
<1> HIDE DEF K, t, N
<1>4. Short(t)
  BY DEF t
<1>5. Parsed(parse_arg(OldBuffers, Given(t)), OldBuffers, t, N, K)
  BY <1>1, <1>2, <1>3, <1>4, ParseArgCuts, Zenon
<1> QED BY <1>5, Zenon DEF Parsed, ParseRight, t, N, K
-----------------------------------------------------------------------------
(* A function defined by its value at 0 and a step exists and has its      *)
(* values in X when the step stays there.  F[k] is the step to k.          *)
Iterate(h, X, s, F, n) == h \in [0 .. n -> X] /\ h[0] = s /\ \A k \in 1 .. n : h[k] = F[k][h[k - 1]]
LEMMA Iterates ==
  ASSUME NEW X, NEW s \in X, NEW F, NEW n \in Nat, \A k \in 1 .. n : \A x \in X : F[k][x] \in X
  PROVE  \E h : Iterate(h, X, s, F, n)
<1> DEFINE B == {m \in 0 .. n : ~ \E h : Iterate(h, X, s, F, m)}
<1>1. SUFFICES ASSUME B # {} PROVE FALSE
  <2>1. n \in 0 .. n
    OBVIOUS
  <2> QED BY <1>1, <2>1, Zenon
<1>2. B \in SUBSET Nat
  OBVIOUS
<1>3. PICK m \in B : \A j \in B : m <= j
  <2> HIDE DEF B
  <2> QED BY <1>1, <1>2, Least
<1>4. m \in 0 .. n /\ m \in Nat /\ ~ \E h : Iterate(h, X, s, F, m)
  OBVIOUS
<1>5. CASE m = 0
  <2> DEFINE h == [k \in 0 .. m |-> s]
  <2>1. 0 \in 0 .. m /\ \A k \in 1 .. m : FALSE
    BY <1>5
  <2>2. h \in [0 .. m -> X] /\ h[0] = s
    BY <2>1, Zenon
  <2>3. Iterate(h, X, s, F, m)
    BY <2>1, <2>2, Zenon DEF Iterate
  <2> QED BY <1>4, <2>3, Zenon
<1>6. CASE m # 0
  <2>1. m - 1 \in 0 .. n /\ ~(m <= m - 1) /\ m \in 1 .. n /\ m - 1 \in 0 .. m - 1
    BY <1>4, <1>6
  <2>2. PICK g : Iterate(g, X, s, F, m - 1)
    BY <1>3, <2>1, Zenon
  <2>3. g \in [0 .. m - 1 -> X] /\ g[0] = s /\ \A k \in 1 .. m - 1 : g[k] = F[k][g[k - 1]]
    BY <2>2, Zenon DEF Iterate
  <2>4. F[m][g[m - 1]] \in X
    BY <2>1, <2>3, Zenon
  <2> DEFINE h == [k \in 0 .. m |-> IF k = m THEN F[m][g[m - 1]] ELSE g[k]]
  <2>5. \A k \in 0 .. m : k # m => k \in 0 .. m - 1
    BY <1>4
  <2>6. h \in [0 .. m -> X]
    BY <2>3, <2>4, <2>5, Zenon
  <2>7. \A k \in 0 .. m : h[k] = IF k = m THEN F[m][g[m - 1]] ELSE g[k]
    BY Zenon
  <2> HIDE DEF h
  <2>8. h[0] = s
    <3>1. 0 \in 0 .. m /\ 0 # m
      BY <1>4, <1>6
    <3> QED BY <2>3, <2>7, <3>1, Zenon
  <2>9. ASSUME NEW k \in 1 .. m PROVE h[k] = F[k][h[k - 1]]
    <3>1. k \in 0 .. m /\ k - 1 \in 0 .. m /\ k - 1 # m /\ (k # m => k \in 1 .. m - 1)
      BY <1>4
    <3>2. h[k - 1] = g[k - 1]
      BY <2>7, <3>1, Zenon
    <3>3. CASE k = m
      BY <2>7, <3>1, <3>2, <3>3, Zenon
    <3>4. CASE k # m
      BY <2>3, <2>7, <3>1, <3>2, <3>4, Zenon
    <3> QED BY <3>3, <3>4
  <2>10. Iterate(h, X, s, F, m)
    BY <2>6, <2>8, <2>9, Zenon DEF Iterate
  <2> QED BY <1>4, <2>10, Zenon
<1> QED BY <1>5, <1>6
-----------------------------------------------------------------------------
(* The powers of 16 up to 2^32.                                            *)
Powers(T) == T \in [0 .. HexPlaces -> Nat \ {0}] /\ T[0] = 1 /\ \A k \in 1 .. HexPlaces : T[k] = 16 * T[k - 1]
LEMMA TopIs == \E T : Powers(T) /\ Top = T[HexPlaces]
<1> DEFINE n == HexPlaces
           X == Nat \ {0}
           F == [k \in 1 .. n |-> [x \in X |-> 16 * x]]
           f == CHOOSE f : f = [k \in 0 .. n |-> IF k = 0 THEN 1 ELSE 16 * f[k - 1]]
<1>1. n \in Nat
  BY HexPlacesAssumption
<1>2. Top = f[n]
  BY Zenon DEF Top
<1> HIDE DEF n
<1>3. \A k \in 1 .. n : \A x \in X : F[k][x] = 16 * x
  OBVIOUS
<1>4. \A x \in X : 16 * x \in X
  OBVIOUS
<1>5. 1 \in X
  OBVIOUS
<1> HIDE DEF X, F
<1>6. \E h : Iterate(h, X, 1, F, n)
  BY <1>1, <1>3, <1>4, <1>5, Iterates
<1>7. PICK h : Iterate(h, X, 1, F, n)
  BY <1>6
<1>8. \A k \in 1 .. n : k - 1 \in 0 .. n /\ k \in 0 .. n /\ k # 0
  BY <1>1
<1>9. h \in [0 .. n -> X] /\ h[0] = 1 /\ \A k \in 1 .. n : h[k] = 16 * h[k - 1]
  BY <1>3, <1>7, <1>8, Zenon DEF Iterate
<1>10. h = [k \in 0 .. n |-> IF k = 0 THEN 1 ELSE 16 * h[k - 1]]
  <2>1. \A k \in 0 .. n : k = 0 \/ k \in 1 .. n
    BY <1>1
  <2>2. h = [k \in 0 .. n |-> h[k]]
    BY <1>9, Zenon
  <2>3. \A k \in 0 .. n : h[k] = IF k = 0 THEN 1 ELSE 16 * h[k - 1]
    BY <1>9, <2>1, Zenon
  <2> QED BY <2>2, <2>3, Zenon
<1>11. f = [k \in 0 .. n |-> IF k = 0 THEN 1 ELSE 16 * f[k - 1]]
  BY <1>10, Zenon
<1> HIDE DEF f
<1>12. 0 \in 0 .. n
  BY <1>1
<1>13. f[0] = h[0] /\ \A k \in 1 .. n : f[k - 1] = h[k - 1] => f[k] = h[k]
  BY <1>8, <1>9, <1>11, <1>12, Zenon
<1>14. f[n] = h[n]
  BY <1>1, <1>13, Agree
<1>15. Powers(h)
  BY <1>9, Zenon DEF Powers, n, X
<1> QED BY <1>2, <1>14, <1>15, Zenon DEF n

(* newval after each turn of itoa.                                         *)
Quotients(f, v, r) == f \in [0 .. v -> Nat] /\ f[0] = v /\ \A k \in 1 .. v : f[k] = f[k - 1] \div r
Newval(v, r) == CHOOSE f : f = [k \in 0 .. v |-> IF k = 0 THEN v ELSE f[k - 1] \div r]
LEMMA NewvalIs ==
  ASSUME NEW v \in Nat, NEW r \in {2, 10, 16}
  PROVE  Quotients(Newval(v, r), v, r)
<1> DEFINE F == [k \in 1 .. v |-> [x \in Nat |-> x \div r]]
           f == Newval(v, r)
<1>1. \A k \in 1 .. v : \A x \in Nat : F[k][x] = x \div r
  OBVIOUS
<1>2. \A x \in Nat : x \div r \in Nat
  OBVIOUS
<1> HIDE DEF F
<1>3. \E h : Iterate(h, Nat, v, F, v)
  BY <1>1, <1>2, Iterates
<1>4. PICK h : Iterate(h, Nat, v, F, v)
  BY <1>3
<1>5. \A k \in 1 .. v : k - 1 \in 0 .. v /\ k \in 0 .. v /\ k # 0
  OBVIOUS
<1>6. h \in [0 .. v -> Nat] /\ h[0] = v /\ \A k \in 1 .. v : h[k] = h[k - 1] \div r
  BY <1>1, <1>4, <1>5, Zenon DEF Iterate
<1>7. h = [k \in 0 .. v |-> IF k = 0 THEN v ELSE h[k - 1] \div r]
  <2>1. \A k \in 0 .. v : k = 0 \/ k \in 1 .. v
    OBVIOUS
  <2>2. h = [k \in 0 .. v |-> h[k]]
    BY <1>6, Zenon
  <2>3. \A k \in 0 .. v : h[k] = IF k = 0 THEN v ELSE h[k - 1] \div r
    BY <1>6, <2>1, Zenon
  <2> QED BY <2>2, <2>3, Zenon
<1>8. f = [k \in 0 .. v |-> IF k = 0 THEN v ELSE f[k - 1] \div r]
  BY <1>7, Zenon DEF Newval
<1> HIDE DEF f
<1>9. 0 \in 0 .. v
  OBVIOUS
<1>10. f[0] = h[0] /\ \A k \in 1 .. v : f[k - 1] = h[k - 1] => f[k] = h[k]
  <2>1. \A k \in 0 .. v : f[k] = IF k = 0 THEN v ELSE f[k - 1] \div r
    BY <1>8, Zenon
  <2>2. f[0] = v
    BY <1>9, <2>1, Zenon
  <2>3. \A k \in 1 .. v : f[k] = f[k - 1] \div r
    BY <1>5, <2>1, Zenon
  <2> QED BY <1>6, <2>2, <2>3, Zenon
<1>11. \A k \in 0 .. v : f[k] = h[k]
  <2> TAKE k \in 0 .. v
  <2>1. k \in Nat /\ \A j \in 1 .. k : j \in 1 .. v
    OBVIOUS
  <2>2. \A j \in 1 .. k : f[j - 1] = h[j - 1] => f[j] = h[j]
    BY <1>10, <2>1, Zenon
  <2> QED BY <1>10, <2>1, <2>2, Agree
<1>12. f = h
  <2>1. f = [k \in 0 .. v |-> f[k]] /\ h = [k \in 0 .. v |-> h[k]]
    BY <1>6, <1>8, Zenon
  <2> QED BY <1>11, <2>1, Zenon
<1> QED BY <1>6, <1>12, Zenon DEF Quotients, f

LEMMA UpTo ==
  ASSUME NEW n \in Nat, NEW S, 0 \in S, \A k \in 1 .. n : k - 1 \in S => k \in S
  PROVE  \A k \in 0 .. n : k \in S
<1> DEFINE B == {k \in 0 .. n : k \notin S}
<1>1. SUFFICES ASSUME B # {} PROVE FALSE
  BY <1>1
<1>2. B \in SUBSET Nat
  OBVIOUS
<1>3. PICK j \in B : \A k \in B : j <= k
  BY <1>1, <1>2, Least, Zenon
<1>4. j \in 0 .. n /\ j \notin S
  OBVIOUS
<1>5. j \in 1 .. n /\ j - 1 \in 0 .. n /\ ~(j <= j - 1)
  <2>1. j # 0
    BY <1>4, Zenon
  <2> QED BY <1>4, <2>1
<1>6. j - 1 \in S
  BY <1>3, <1>5
<1> QED BY <1>4, <1>5, <1>6, Zenon

(* itoa's loop ends after n turns: the quotients go down to 0.             *)
Ends(f, n) == n \in Nat \ {0} /\ f[n] = 0 /\ \A j \in 0 .. n - 1 : f[j] # 0
LEMMA QuotientsEnd ==
  ASSUME NEW v \in Nat \ {0}, NEW r \in {2, 10, 16}, NEW f, Quotients(f, v, r)
  PROVE  \E n \in 0 .. v : Ends(f, n)
<1> DEFINE S == {k \in 0 .. v : f[k] <= v - k}
           B == {k \in 0 .. v : f[k] = 0}
<1>1. f \in [0 .. v -> Nat] /\ f[0] = v /\ \A k \in 1 .. v : f[k] = f[k - 1] \div r
  BY Zenon DEF Quotients
<1>2. 0 \in S
  BY <1>1
<1>3. \A x \in Nat \ {0} : x \div r <= x - 1
  OBVIOUS
<1>4. ASSUME NEW k \in 1 .. v, k - 1 \in S PROVE k \in S
  <2>1. k \in 0 .. v /\ k - 1 \in 0 .. v /\ f[k - 1] \in Nat /\ f[k - 1] <= v - (k - 1) /\ f[k] = f[k - 1] \div r
    BY <1>1, <1>4
  <2>2. CASE f[k - 1] = 0
    <3>1. f[k] = 0
      BY <2>1, <2>2
    <3> QED BY <2>1, <3>1
  <2>3. CASE f[k - 1] # 0
    <3>1. f[k] <= f[k - 1] - 1
      BY <1>3, <2>1, <2>3
    <3>2. f[k] \in Nat
      BY <1>1, <2>1
    <3> QED BY <2>1, <3>1, <3>2
  <2> QED BY <2>2, <2>3
<1>5. v \in B
  <2>1. v \in 0 .. v
    OBVIOUS
  <2>2. v \in S
    <3> HIDE DEF S
    <3>1. \A k \in 0 .. v : k \in S
      BY <1>2, <1>4, UpTo, Zenon
    <3> QED BY <2>1, <3>1, Zenon
  <2>3. f[v] <= v - v /\ f[v] \in Nat
    BY <1>1, <2>1, <2>2
  <2> QED BY <2>1, <2>3
<1>6. B \in SUBSET Nat
  OBVIOUS
<1>7. PICK n \in B : \A k \in B : n <= k
  <2> HIDE DEF B
  <2> QED BY <1>5, <1>6, Least
<1>8. n \in 0 .. v /\ f[n] = 0
  OBVIOUS
<1>9. n # 0
  BY <1>1, <1>8
<1>10. ASSUME NEW j \in 0 .. n - 1 PROVE f[j] # 0
  <2>1. j \in 0 .. v /\ ~(n <= j)
    BY <1>8
  <2> QED BY <1>7, <2>1, Zenon
<1>11. n \in Nat \ {0}
  BY <1>8, <1>9
<1> QED BY <1>8, <1>10, <1>11, Zenon DEF Ends

(* What the loop of itoa leaves, the last digit first.                     *)
Digits(f, n, r) == [k \in 1 .. n |-> 48 + (f[k - 1] % r)]
LEMMA PlacesAre ==
  ASSUME NEW v \in Nat \ {0}, NEW r \in {2, 10, 16}, NEW n \in 0 .. v, Ends(Newval(v, r), n)
  PROVE  Places(v, r) = CString(Digits(Newval(v, r), n, r))
<1> DEFINE f == Newval(v, r)
           P(k) == f[k] = 0 /\ \A j \in 0 .. k - 1 : f[j] # 0
           m == CHOOSE k \in 0 .. v : P(k)
<1>1. Places(v, r) = [k \in 1 .. m |-> Digit(f[k - 1] % r)] \o <<NUL>>
  BY Zenon DEF Places, Newval
<1>2. m = n
  <2>1. n \in Nat \ {0} /\ f[n] = 0 /\ \A j \in 0 .. n - 1 : f[j] # 0
    BY Zenon DEF Ends
  <2> HIDE DEF f
  <2>2. P(n)
    BY <2>1, Zenon
  <2>3. \A k \in 0 .. v : P(k) => k = n
    <3> SUFFICES ASSUME NEW k \in 0 .. v, P(k) PROVE k = n
      OBVIOUS
    <3>1. k \in Nat /\ n \in Nat /\ (k < n => k \in 0 .. n - 1) /\ (n < k => n \in 0 .. k - 1)
      OBVIOUS
    <3>2. ~(k < n) /\ ~(n < k)
      BY <2>1, <3>1, Zenon
    <3> QED BY <3>1, <3>2
  <2> HIDE DEF P
  <2> QED BY <2>2, <2>3, Zenon
<1> HIDE DEF m, f
<1> QED BY <1>1, <1>2, Zenon DEF Digits, CString, Digit, f

DigitsText(f, n, r) == IsText(Digits(f, n, r), n)
LEMMA DigitsAre ==
  ASSUME NEW v \in Nat, NEW r \in {2, 10, 16}, NEW f, Quotients(f, v, r), NEW n \in 0 .. v
  PROVE  DigitsText(f, n, r)
<1> DEFINE d == Digits(f, n, r)
<1>1. f \in [0 .. v -> Nat]
  BY Zenon DEF Quotients
<1>2. \A x \in Nat : 48 + (x % r) \in 1 .. 255
  <2>1. ASSUME NEW x \in Nat PROVE 48 + (x % r) \in 1 .. 255
    <3>1. x % r \in 0 .. 15
      OBVIOUS
    <3> HIDE DEF d
    <3> QED BY <3>1
  <2> QED BY <2>1
<1>3. \A k \in 1 .. n : k - 1 \in 0 .. v
  OBVIOUS
<1>4. n \in Nat /\ \A x \in 1 .. 255 : x \in Nat
  OBVIOUS
<1>5. d \in [1 .. n -> 1 .. 255]
  <2>1. \A k \in 1 .. n : f[k - 1] \in Nat
    BY <1>1, <1>3, Zenon
  <2>2. \A k \in 1 .. n : 48 + (f[k - 1] % r) \in 1 .. 255
    BY <1>2, <2>1, Zenon
  <2> QED BY <2>2, Zenon DEF Digits
<1> HIDE DEF d
<1>6. d \in [1 .. n -> Nat]
  <2>1. \A k \in 1 .. n : d[k] \in 1 .. 255
    BY <1>5, Zenon
  <2>2. \A k \in 1 .. n : d[k] \in Nat
    BY <1>4, <2>1, Zenon
  <2>3. d = [k \in 1 .. n |-> d[k]]
    BY <1>5, Zenon
  <2> QED BY <2>2, <2>3, Zenon
<1>7. d \in Seq(Nat) /\ Len(d) = n
  BY <1>4, <1>6
<1> QED BY <1>4, <1>5, <1>7, Zenon DEF IsText, DigitsText, d

BackwardsText(t, n) == IsText(Backwards(t, n), n) /\ \A i \in 1 .. n : Backwards(t, n)[i] = t[n + 1 - i]
LEMMA BackwardsIs == ASSUME NEW t, NEW n, IsText(t, n) PROVE BackwardsText(t, n)
<1> DEFINE d == Backwards(t, n)
<1>1. n \in Nat /\ t \in [1 .. n -> 1 .. 255]
  BY Zenon DEF IsText
<1>2. \A i \in 1 .. n : n + 1 - i \in 1 .. n
  BY <1>1
<1>3. d \in [1 .. n -> 1 .. 255] /\ \A i \in 1 .. n : d[i] = t[n + 1 - i]
  BY <1>1, <1>2, Zenon DEF Backwards
<1> HIDE DEF d
<1>4. \A x \in 1 .. 255 : x \in Nat
  OBVIOUS
<1>5. d \in [1 .. n -> Nat]
  BY <1>3, <1>4, Zenon
<1>6. d \in Seq(Nat) /\ Len(d) = n
  BY <1>1, <1>5
<1> QED BY <1>1, <1>3, <1>6, Zenon DEF IsText, BackwardsText, d
-----------------------------------------------------------------------------
(* What a prefix of a numeral denotes.                                     *)
Horner(s, r) == CHOOSE f : f = [i \in 0 .. Len(s) |-> IF i = 0 THEN 0 ELSE r * f[i - 1] + s[i] - Digit(0)]
Evaluates(f, s, n, r) ==
  f \in [0 .. n -> Int] /\ f[0] = 0 /\ \A i \in 1 .. n : f[i] = r * f[i - 1] + s[i] - 48
LEMMA HornerIs ==
  ASSUME NEW s, NEW n, IsText(s, n), NEW r \in {2, 10, 16}
  PROVE  Denotes(s, r) = Horner(s, r)[n] /\ Evaluates(Horner(s, r), s, n, r)
<1> DEFINE F == [k \in 1 .. n |-> [x \in Int |-> r * x + s[k] - 48]]
           f == Horner(s, r)
<1>0. n \in Nat /\ Len(s) = n /\ \A k \in 1 .. n : s[k] \in 1 .. 255
  BY DEF IsText
<1>1. \A k \in 1 .. n : \A x \in Int : F[k][x] = r * x + s[k] - 48
  OBVIOUS
<1>2. ASSUME NEW k \in 1 .. n, NEW x \in Int PROVE r * x + s[k] - 48 \in Int
  <2>1. s[k] \in 1 .. 255
    BY <1>0, Zenon
  <2>2. s[k] \in Int
    BY <2>1
  <2> QED BY <2>2
<1> HIDE DEF F
<1>3. \E h : Iterate(h, Int, 0, F, n)
  <2>1. \A k \in 1 .. n : \A x \in Int : F[k][x] \in Int
    BY <1>1, <1>2, Zenon
  <2>2. 0 \in Int
    OBVIOUS
  <2> QED BY <1>0, <2>1, <2>2, Iterates
<1>4. PICK h : Iterate(h, Int, 0, F, n)
  BY <1>3
<1>5. \A k \in 1 .. n : k - 1 \in 0 .. n /\ k \in 0 .. n /\ k # 0
  BY <1>0
<1>6. h \in [0 .. n -> Int] /\ h[0] = 0 /\ \A k \in 1 .. n : h[k] = r * h[k - 1] + s[k] - 48
  BY <1>1, <1>4, <1>5, Zenon DEF Iterate
<1>7. h = [k \in 0 .. n |-> IF k = 0 THEN 0 ELSE r * h[k - 1] + s[k] - 48]
  <2>1. \A k \in 0 .. n : k = 0 \/ k \in 1 .. n
    BY <1>0
  <2>2. h = [k \in 0 .. n |-> h[k]]
    BY <1>6, Zenon
  <2>3. \A k \in 0 .. n : h[k] = IF k = 0 THEN 0 ELSE r * h[k - 1] + s[k] - 48
    BY <1>6, <2>1, Zenon
  <2> QED BY <2>2, <2>3, Zenon
<1>8. f = [k \in 0 .. n |-> IF k = 0 THEN 0 ELSE r * f[k - 1] + s[k] - 48]
  <2>1. Digit(0) = 48
    BY DEF Digit
  <2>2. f = CHOOSE g : g = [k \in 0 .. n |-> IF k = 0 THEN 0 ELSE r * g[k - 1] + s[k] - 48]
    BY <1>0, <2>1, Zenon DEF Horner
  <2> HIDE DEF f
  <2> QED BY <1>7, <2>2, Zenon
<1>9. Denotes(s, r) = f[n]
  BY <1>0, Zenon DEF Denotes, Horner
<1> HIDE DEF f
<1>10. 0 \in 0 .. n
  BY <1>0
<1>11. f[0] = h[0] /\ \A k \in 1 .. n : f[k - 1] = h[k - 1] => f[k] = h[k]
  <2>1. \A k \in 0 .. n : f[k] = IF k = 0 THEN 0 ELSE r * f[k - 1] + s[k] - 48
    BY <1>8, Zenon
  <2>2. f[0] = 0
    BY <1>10, <2>1, Zenon
  <2>3. \A k \in 1 .. n : f[k] = r * f[k - 1] + s[k] - 48
    BY <1>5, <2>1, Zenon
  <2> QED BY <1>6, <2>2, <2>3, Zenon
<1>12. \A k \in 0 .. n : f[k] = h[k]
  <2> TAKE k \in 0 .. n
  <2>1. k \in Nat /\ \A j \in 1 .. k : j \in 1 .. n
    BY <1>0
  <2>2. \A j \in 1 .. k : f[j - 1] = h[j - 1] => f[j] = h[j]
    BY <1>11, <2>1, Zenon
  <2> QED BY <1>11, <2>1, <2>2, Agree
<1>13. f = h
  <2>1. f = [k \in 0 .. n |-> f[k]] /\ h = [k \in 0 .. n |-> h[k]]
    BY <1>6, <1>8, Zenon
  <2> QED BY <1>12, <2>1, Zenon
<1> QED BY <1>6, <1>9, <1>13, Zenon DEF Evaluates, f

LEMMA FewPlaces ==
  ASSUME NEW v \in Nat, v < Top, NEW f, Quotients(f, v, 16), NEW n \in 0 .. v, Ends(f, n)
  PROVE  n <= HexPlaces
<1> DEFINE H == HexPlaces
<1>1. PICK T : Powers(T) /\ Top = T[H]
  BY TopIs
<1>2. H \in Nat /\ T \in [0 .. H -> Nat] /\ T[0] = 1 /\ v < T[H] /\ \A k \in 1 .. H : T[k] = 16 * T[k - 1]
  <2>1. H \in Nat
    BY HexPlacesAssumption
  <2>2. T \in [0 .. H -> Nat \ {0}] /\ T[0] = 1 /\ \A k \in 1 .. H : T[k] = 16 * T[k - 1]
    BY <1>1, Zenon DEF Powers
  <2>3. T \in [0 .. H -> Nat]
    BY <2>2, Zenon
  <2> QED BY <1>1, <2>1, <2>2, <2>3, Zenon
<1>3. f \in [0 .. v -> Nat] /\ f[0] = v /\ \A k \in 1 .. v : f[k] = f[k - 1] \div 16
  BY Zenon DEF Quotients
<1>4. \A j \in 0 .. n - 1 : f[j] # 0
  BY Zenon DEF Ends
<1> HIDE DEF H
<1> SUFFICES ASSUME ~(n <= H) PROVE FALSE
  BY Zenon DEF H
<1>5. H \in 0 .. n - 1 /\ H \in 0 .. v /\ H <= v
  BY <1>2
<1> DEFINE S == {k \in 0 .. H : f[k] < T[H - k]}
<1>6. 0 \in S
  <2>1. 0 \in 0 .. H /\ H - 0 = H
    BY <1>2
  <2> QED BY <1>2, <1>3, <2>1
<1>7. ASSUME NEW k \in 1 .. H, k - 1 \in S PROVE k \in S
  <2>1. k \in 0 .. H /\ k - 1 \in 0 .. v /\ k \in 1 .. v /\ H - k \in 0 .. H /\ H - k + 1 \in 1 .. H
        /\ H - (k - 1) = H - k + 1 /\ (H - k + 1) - 1 = H - k
    BY <1>2, <1>5
  <2>2. f[k - 1] < T[H - k + 1]
    BY <1>7, <2>1
  <2>3. T[H - k + 1] = 16 * T[H - k] /\ T[H - k] \in Nat
    BY <1>2, <2>1, Zenon
  <2>4. f[k - 1] \in Nat /\ f[k] = f[k - 1] \div 16
    BY <1>3, <2>1, Zenon
  <2>5. \A x, y \in Nat : x < 16 * y => x \div 16 < y
    OBVIOUS
  <2>6. f[k] < T[H - k]
    BY <2>2, <2>3, <2>4, <2>5
  <2> QED BY <2>1, <2>6
<1>8. H \in S
  <2> HIDE DEF S
  <2>1. \A k \in 0 .. H : k \in S
    BY <1>2, <1>6, <1>7, UpTo, Zenon
  <2>2. H \in 0 .. H
    BY <1>2
  <2> QED BY <2>1, <2>2, Zenon
<1>9. f[H] < T[0]
  <2>1. H - H = 0
    BY <1>2
  <2> QED BY <1>8, <2>1
<1>10. f[H] \in Nat /\ f[H] # 0
  BY <1>3, <1>4, <1>5, Zenon
<1> QED BY <1>2, <1>9, <1>10

(* d has n digits and is what itoa writes for v: it denotes v and has no   *)
(* leading zero.                                                           *)
Numeral(d, n, v, r) ==
  /\ IsText(d, n) /\ n # 0 /\ itoa(v, r) = CString(d) /\ Denotes(d, r) = v
  /\ n > 1 => d[1] # 48
  /\ r = 16 /\ v < Top => n <= HexPlaces

LEMMA Zero == ASSUME NEW r \in {2, 10, 16} PROVE Numeral(<<48>>, 1, 0, r)
<1> DEFINE d == <<48>>
<1>1. IsText(d, 1)
  <2>1. d \in Seq(Nat) /\ Len(d) = 1
    OBVIOUS
  <2>2. d \in [1 .. 1 -> 1 .. 255]
    <3>1. DOMAIN d = 1 .. 1 /\ d = [i \in 1 .. 1 |-> 48]
      OBVIOUS
    <3> QED BY <3>1
  <2> QED BY <2>1, <2>2 DEF IsText
<1>2. itoa(0, r) = CString(d)
  <2>1. Digit(0) = 48
    BY DEF Digit
  <2>2. <<48, 0>> = <<48>> \o <<0>>
    OBVIOUS
  <2> QED BY <2>1, <2>2, Zenon DEF itoa, CString, NUL
<1>3. d[1] = 48
  OBVIOUS
<1> HIDE DEF d
<1>4. Denotes(d, r) = 0
  <2>1. Denotes(d, r) = Horner(d, r)[1] /\ Evaluates(Horner(d, r), d, 1, r)
    BY <1>1, HornerIs, Zenon
  <2>2. 1 \in 1 .. 1 /\ 1 - 1 = 0
    OBVIOUS
  <2>3. Horner(d, r)[1] = r * Horner(d, r)[1 - 1] + d[1] - 48 /\ Horner(d, r)[0] = 0
    BY <2>1, <2>2, Zenon DEF Evaluates
  <2>4. Horner(d, r)[1] = r * 0 + 48 - 48
    BY <1>3, <2>2, <2>3, Zenon
  <2> QED BY <2>1, <2>4
<1>5. 1 # 0 /\ ~(1 > 1) /\ 1 <= HexPlaces
  BY HexPlacesAssumption
<1> QED BY <1>1, <1>2, <1>4, <1>5, Zenon DEF Numeral, d

LEMMA Itoa == ASSUME NEW v \in Nat, NEW r \in {2, 10, 16} PROVE \E d, n : Numeral(d, n, v, r)
<1>0. CASE v = 0
  BY <1>0, Zero, Zenon
<1>1. CASE v # 0
  <2> DEFINE f == Newval(v, r)
  <2>0. v \in Nat \ {0}
    BY <1>1
  <2>1. Quotients(f, v, r)
    BY NewvalIs
  <2> HIDE DEF f
  <2>2. PICK n \in 0 .. v : Ends(f, n)
    BY <2>0, <2>1, QuotientsEnd
  <2> DEFINE t == Digits(f, n, r)
             d == Backwards(t, n)
  <2>3. IsText(t, n)
    BY <2>1, DigitsAre, Zenon DEF DigitsText
  <2>4. Places(v, r) = CString(t)
    BY <2>0, <2>2, PlacesAre DEF f
  <2>5. \A k \in 1 .. n : t[k] = 48 + (f[k - 1] % r)
    BY Zenon DEF Digits
  <2> HIDE DEF t
  <2>6. itoa(v, r) = CString(d)
    <3>1. Reverses(t, n)
      BY <2>3, StrrevReverses, Zenon
    <3> QED BY <1>1, <2>4, <3>1, Zenon DEF Reverses, itoa
  <2>7. IsText(d, n) /\ \A i \in 1 .. n : d[i] = t[n + 1 - i]
    <3>1. BackwardsText(t, n)
      BY <2>3, BackwardsIs, Zenon
    <3> QED BY <3>1, Zenon DEF BackwardsText
  <2> HIDE DEF d
  <2>8. /\ n \in Nat \ {0} /\ f[n] = 0 /\ f[0] = v
        /\ \A j \in 0 .. n - 1 : f[j] # 0
        /\ \A k \in 0 .. v : f[k] \in Nat
        /\ \A k \in 1 .. v : f[k] = f[k - 1] \div r
    BY <2>1, <2>2, Zenon DEF Ends, Quotients
  <2>9. ASSUME NEW i \in 1 .. n PROVE d[i] = 48 + (f[n - i] % r)
    <3>1. n + 1 - i \in 1 .. n /\ (n + 1 - i) - 1 = n - i
      BY <2>8
    <3> QED BY <2>5, <2>7, <3>1, Zenon
  <2> DEFINE g == Horner(d, r)
  <2>10. Denotes(d, r) = g[n] /\ Evaluates(g, d, n, r)
    BY <2>7, HornerIs, Zenon
  <2> HIDE DEF g
  <2>11. Denotes(d, r) = v
    <3> DEFINE h == [i \in 0 .. n |-> f[n - i]]
    <3>1. g[0] = h[0]
      <4>1. 0 \in 0 .. n /\ n - 0 = n
        BY <2>8
      <4>2. h[0] = f[n - 0]
        BY <4>1, Zenon
      <4> QED BY <2>8, <2>10, <4>1, <4>2, Zenon DEF Evaluates
    <3>2. ASSUME NEW i \in 1 .. n, g[i - 1] = h[i - 1] PROVE g[i] = h[i]
      <4>1. i \in 0 .. n /\ i - 1 \in 0 .. n /\ n - (i - 1) = n - i + 1 /\ (n - i + 1) - 1 = n - i
            /\ n - i + 1 \in 1 .. v /\ n - i \in 0 .. v
        BY <2>8
      <4>2. g[i] = r * g[i - 1] + d[i] - 48
        BY <2>10, Zenon DEF Evaluates
      <4>3. h[i] = f[n - i] /\ h[i - 1] = f[n - i + 1]
        BY <4>1, Zenon
      <4>4. f[n - i + 1] = f[n - i] \div r /\ f[n - i] \in Nat
        BY <2>8, <4>1, Zenon
      <4>5. d[i] = 48 + (f[n - i] % r)
        BY <2>9, Zenon
      <4>6. g[i] = r * (f[n - i] \div r) + (48 + (f[n - i] % r)) - 48
        BY <3>2, <4>2, <4>3, <4>4, <4>5, Zenon
      <4>7. \A x \in Nat : r * (x \div r) + (48 + (x % r)) - 48 = x
        OBVIOUS
      <4> QED BY <4>3, <4>4, <4>6, <4>7, Zenon
    <3>3. h[n] = f[0]
      <4>1. n \in 0 .. n /\ n - n = 0
        BY <2>8
      <4> QED BY <4>1, Zenon
    <3> HIDE DEF h
    <3>4. g[n] = h[n]
      BY <2>8, <3>1, <3>2, Agree
    <3> QED BY <2>8, <2>10, <3>3, <3>4, Zenon
  <2>12. d[1] # 48
    <3>1. 1 \in 1 .. n /\ n - 1 \in 0 .. n - 1 /\ n - 1 \in 0 .. v /\ n \in 1 .. v
      BY <2>8
    <3>2. d[1] = 48 + (f[n - 1] % r) /\ f[n - 1] \in Nat /\ f[n - 1] # 0 /\ f[n - 1] \div r = 0
      BY <2>8, <2>9, <3>1, Zenon
    <3>3. \A x \in Nat : x \div r = 0 => x % r = x
      OBVIOUS
    <3>4. f[n - 1] % r = f[n - 1]
      BY <3>2, <3>3, Zenon
    <3> QED BY <3>2, <3>4
  <2>13. r = 16 /\ v < Top => n <= HexPlaces
    BY <2>1, <2>2, FewPlaces, Zenon
  <2> QED BY <2>6, <2>7, <2>8, <2>11, <2>12, <2>13, Zenon DEF Numeral
<1> QED BY <1>0, <1>1

(* A string that ends in its 0 is cut there.                               *)
Cuts(d) == Chop(CString(d)) = d /\ Text(CString(d)) = d
LEMMA CutsAre == ASSUME NEW d, NEW n, IsText(d, n) PROVE Cuts(d)
<1> DEFINE s == CString(d)
           P(i) == s[i] = NUL /\ \A j \in 1 .. i - 1 : s[j] # NUL
           e == CHOOSE i \in 1 .. Len(s) : P(i)
<1>1. Holds(s, d, n)
  BY CStringHolds, Zenon
<1> HIDE DEF s
<1>2. strlen(s) = n
  BY <1>1, StrlenIs, Zenon
<1>3. /\ n \in Nat /\ Len(s) = n + 1 /\ s[n + 1] = 0 /\ s = [x \in 1 .. n + 1 |-> s[x]]
      /\ \A j \in 0 .. n - 1 : s[j + 1] = d[j + 1] /\ s[j + 1] \in 1 .. 255
  BY <1>1, Zenon DEF Holds
<1>4. ASSUME NEW j \in 1 .. n PROVE s[j] = d[j] /\ s[j] \in Nat /\ s[j] # 0
  <2>1. j - 1 \in 0 .. n - 1 /\ (j - 1) + 1 = j
    BY <1>3
  <2>2. s[j] = d[j] /\ s[j] \in 1 .. 255
    BY <1>3, <2>1, Zenon
  <2> QED BY <2>2
<1>5. s \in Seq(Nat)
  <2>1. ASSUME NEW j \in 1 .. n + 1 PROVE s[j] \in Nat
    <3>1. CASE j = n + 1
      BY <1>3, <3>1
    <3>2. CASE j # n + 1
      <4>1. j \in 1 .. n
        BY <1>3, <3>2
      <4> QED BY <1>4, <4>1, Zenon
    <3> QED BY <3>1, <3>2
  <2>2. s \in [1 .. n + 1 -> Nat]
    BY <1>3, <2>1, Zenon
  <2>3. n + 1 \in Nat
    BY <1>3
  <2> QED BY <2>2, <2>3
<1>6. e = n + 1
  <2>1. n + 1 \in 1 .. Len(s) /\ (n + 1) - 1 = n
    BY <1>3
  <2>2. P(n + 1)
    BY <1>3, <1>4, <2>1, Zenon DEF NUL
  <2>3. \A i \in 1 .. Len(s) : P(i) => i = n + 1
    <3> SUFFICES ASSUME NEW i \in 1 .. Len(s), P(i) PROVE i = n + 1
      OBVIOUS
    <3>1. i \in 1 .. n \/ i = n + 1
      BY <1>3
    <3> QED BY <1>4, <3>1, Zenon DEF NUL
  <2> HIDE DEF P
  <2> QED BY <2>1, <2>2, <2>3, Zenon
<1>7. SubSeq(s, 1, n) = d
  <2> DEFINE w == SubSeq(s, 1, n)
  <2>1. w \in Seq(Nat) /\ Len(w) = n /\ \A j \in 1 .. n : w[j] = s[j]
    <3>1. n \in Nat /\ Len(s) = n + 1 /\ s \in Seq(Nat)
      BY <1>3, <1>5, Zenon
    <3> QED BY <3>1
  <2> HIDE DEF w
  <2>2. w = [j \in 1 .. n |-> w[j]]
    BY <1>3, <2>1
  <2>3. d = [j \in 1 .. n |-> d[j]]
    BY Zenon DEF IsText
  <2>4. w = d
    BY <1>4, <2>1, <2>2, <2>3, Zenon
  <2> QED BY <2>4 DEF w
<1>8. (n + 1) - 1 = n
  BY <1>3
<1>9. Chop(s) = d
  BY <1>2, <1>7, Zenon DEF Chop
<1>10. Text(s) = SubSeq(s, 1, e - 1)
  BY Zenon DEF Text
<1> HIDE DEF e
<1>11. Text(s) = d
  BY <1>6, <1>7, <1>8, <1>10, Zenon
<1> QED BY <1>9, <1>11, Zenon DEF Cuts, s

(* %#x: zeros in front of a numeral change nothing it denotes.             *)
Padded(v) == IsText(PaddedHex(v), HexPlaces) /\ Denotes(PaddedHex(v), 16) = v
LEMMA PaddedIs == ASSUME NEW v \in Nat, v < Top PROVE Padded(v)
<1> DEFINE H == HexPlaces
<1>1. PICK d, n : Numeral(d, n, v, 16)
  BY Itoa
<1>2. IsText(d, n) /\ itoa(v, 16) = CString(d) /\ Denotes(d, 16) = v /\ n <= H
  BY <1>1, Zenon DEF Numeral
<1>3. Chop(itoa(v, 16)) = d
  BY <1>2, CutsAre, Zenon DEF Cuts
<1>4. /\ n \in Nat /\ H \in Nat /\ Len(d) = n /\ d \in Seq(Nat)
      /\ \A j \in 1 .. n : d[j] \in 1 .. 255
  <2>1. n \in Nat /\ Len(d) = n /\ d \in Seq(Nat) /\ d \in [1 .. n -> 1 .. 255]
    BY <1>2, Zenon DEF IsText
  <2>2. H \in Nat
    BY HexPlacesAssumption
  <2> QED BY <2>1, <2>2, Zenon
<1> DEFINE z == [i \in 1 .. H - n |-> 48]
           p == z \o d
           b == H - n
<1>5. PaddedHex(v) = p
  <2>1. Digit(0) = 48
    BY DEF Digit
  <2> QED BY <1>3, <1>4, <2>1, Zenon DEF PaddedHex
<1> HIDE DEF H
<1>6. b \in Nat /\ b + n = H /\ b <= H
  BY <1>2, <1>4
<1>7. z \in Seq(Nat) /\ Len(z) = b /\ \A i \in 1 .. b : z[i] = 48
  <2>1. 48 \in Nat
    OBVIOUS
  <2>2. z \in [1 .. b -> Nat] /\ \A i \in 1 .. b : z[i] = 48
    BY <2>1, Zenon
  <2> HIDE DEF z, b
  <2> QED BY <1>6, <2>2
<1> HIDE DEF z, b
<1>8. /\ p \in Seq(Nat) /\ Len(p) = H
      /\ \A i \in 1 .. b : p[i] = 48
      /\ \A i \in 1 .. n : p[b + i] = d[i]
  BY <1>4, <1>6, <1>7
<1> HIDE DEF p
<1>9. IsText(p, H)
  <2>1. ASSUME NEW i \in 1 .. H PROVE p[i] \in 1 .. 255
    <3>1. CASE i <= b
      <4>1. i \in 1 .. b
        BY <1>6, <3>1
      <4>2. p[i] = 48
        BY <1>8, <4>1, Zenon
      <4> QED BY <4>2
    <3>2. CASE ~(i <= b)
      <4>1. i - b \in 1 .. n /\ b + (i - b) = i
        BY <1>4, <1>6, <3>2
      <4>2. p[i] = d[i - b]
        BY <1>8, <4>1
      <4> QED BY <1>4, <4>1, <4>2, Zenon
    <3> QED BY <3>1, <3>2
  <2>2. p = [i \in 1 .. H |-> p[i]]
    BY <1>4, <1>8
  <2>3. p \in [1 .. H -> 1 .. 255]
    BY <2>1, <2>2, Zenon
  <2> QED BY <1>4, <1>8, <2>3, Zenon DEF IsText
<1> DEFINE g == Horner(p, 16)
           h == Horner(d, 16)
<1>10. 16 \in {2, 10, 16}
  OBVIOUS
<1>11. Denotes(p, 16) = g[H] /\ Evaluates(g, p, H, 16)
  BY <1>9, <1>10, HornerIs, Zenon
<1>12. Denotes(d, 16) = h[n] /\ Evaluates(h, d, n, 16)
  BY <1>2, <1>10, HornerIs, Zenon
<1> HIDE DEF g, h
<1>13. g[0] = 0 /\ \A i \in 1 .. H : g[i] = 16 * g[i - 1] + p[i] - 48
  BY <1>11, Zenon DEF Evaluates
<1>14. h[0] = 0 /\ \A i \in 1 .. n : h[i] = 16 * h[i - 1] + d[i] - 48
  BY <1>12, Zenon DEF Evaluates
<1>15. g[b] = 0
  <2> DEFINE zero == [i \in 0 .. b |-> 0]
  <2>1. zero[0] = 0 /\ zero[b] = 0
    BY <1>6
  <2>2. ASSUME NEW i \in 1 .. b, g[i - 1] = zero[i - 1] PROVE g[i] = zero[i]
    <3>1. i \in 1 .. H /\ i \in 0 .. b /\ i - 1 \in 0 .. b
      BY <1>4, <1>6
    <3>2. g[i] = 16 * g[i - 1] + p[i] - 48 /\ p[i] = 48
      BY <1>8, <1>13, <3>1, Zenon
    <3>3. g[i - 1] = 0 /\ zero[i] = 0
      BY <2>2, <3>1, Zenon
    <3>4. g[i] = 16 * 0 + 48 - 48
      BY <3>2, <3>3, Zenon
    <3> QED BY <3>3, <3>4
  <2> HIDE DEF zero
  <2>3. g[b] = zero[b]
    BY <1>6, <1>13, <2>1, <2>2, Agree
  <2> QED BY <2>1, <2>3, Zenon
<1>16. g[H] = h[n]
  <2> DEFINE s == [i \in b .. H |-> h[i - b]]
  <2>1. b \in b .. H /\ H \in b .. H /\ b - b = 0 /\ H - b = n
    BY <1>4, <1>6
  <2>2. s[b] = h[b - b] /\ s[H] = h[H - b]
    BY <2>1, Zenon
  <2>3. ASSUME NEW i \in b + 1 .. H, g[i - 1] = s[i - 1] PROVE g[i] = s[i]
    <3>1. i \in b .. H /\ i - 1 \in b .. H /\ i \in 1 .. H /\ i - b \in 1 .. n /\ (i - 1) - b = (i - b) - 1
          /\ b + (i - b) = i
      BY <1>4, <1>6
    <3>2. g[i] = 16 * g[i - 1] + p[i] - 48
      BY <1>13, <3>1, Zenon
    <3>3. s[i] = h[i - b] /\ s[i - 1] = h[(i - b) - 1]
      <4>1. s[i - 1] = h[(i - 1) - b] /\ s[i] = h[i - b]
        BY <3>1, Zenon
      <4> QED BY <3>1, <4>1, Zenon
    <3>4. h[i - b] = 16 * h[(i - b) - 1] + d[i - b] - 48
      BY <1>14, <3>1, Zenon
    <3>5. p[i] = d[i - b]
      <4>1. p[b + (i - b)] = d[i - b]
        BY <1>8, <3>1, Zenon
      <4> QED BY <3>1, <4>1, Zenon
    <3> QED BY <2>3, <3>2, <3>3, <3>4, <3>5, Zenon
  <2> HIDE DEF s
  <2>4. g[b] = s[b]
    BY <1>14, <1>15, <2>1, <2>2, Zenon
  <2>5. g[H] = s[H]
    BY <1>4, <1>6, <2>3, <2>4, AgreeFrom
  <2> QED BY <2>1, <2>2, <2>5, Zenon
<1> QED BY <1>2, <1>5, <1>9, <1>11, <1>12, <1>16, Zenon DEF Padded, H

LEMMA TopEven == \E y \in Nat \ {0} : Top = 16 * y
<1> DEFINE H == HexPlaces
<1>1. PICK T : Powers(T) /\ Top = T[H]
  BY TopIs
<1>2. T \in [0 .. H -> Nat \ {0}] /\ \A k \in 1 .. H : T[k] = 16 * T[k - 1]
  BY <1>1, Zenon DEF Powers
<1>3. H \in 1 .. H /\ H - 1 \in 0 .. H
  BY HexPlacesAssumption
<1> QED BY <1>1, <1>2, <1>3, Zenon

LEMMA UnsignedIs == ASSUME NEW a \in Int PROVE Unsigned(a) \in Nat /\ Unsigned(a) < Top
<1>1. PICK y \in Nat \ {0} : Top = 16 * y
  BY TopEven
<1>2. Top \in Nat /\ Top > 0
  BY <1>1
<1> QED BY <1>2 DEF Unsigned

(* %d: the digits of the value, or "-" and those of its negation.          *)
Signs(w, d, n) ==
  /\ IsText(d, n)
  /\ w >= 0 => Signed(w) = d /\ Denotes(d, 10) = w
  /\ w < 0 => Signed(w) = <<45>> \o d /\ Denotes(d, 10) = Unsigned(-w)
LEMMA SignedIs == ASSUME NEW w \in Int PROVE \E d, n : Signs(w, d, n)
<1>0. 10 \in {2, 10, 16}
  OBVIOUS
<1>1. CASE w >= 0
  <2>1. w \in Nat /\ ~(w < 0)
    BY <1>1
  <2>2. PICK d, n : Numeral(d, n, w, 10)
    BY <1>0, <2>1, Itoa
  <2>3. IsText(d, n) /\ itoa(w, 10) = CString(d) /\ Denotes(d, 10) = w
    BY <2>2, Zenon DEF Numeral
  <2>4. Chop(itoa(w, 10)) = d
    BY <2>3, CutsAre, Zenon DEF Cuts
  <2>5. Signed(w) = d
    BY <2>1, <2>4, Zenon DEF Signed
  <2> QED BY <2>1, <2>3, <2>5, Zenon DEF Signs
<1>2. CASE w < 0
  <2> DEFINE u == Unsigned(-w)
  <2>1. -w \in Int /\ ~(w >= 0)
    BY <1>2
  <2>2. u \in Nat
    BY <2>1, UnsignedIs
  <2> HIDE DEF u
  <2>3. PICK d, n : Numeral(d, n, u, 10)
    BY <1>0, <2>2, Itoa
  <2>4. IsText(d, n) /\ itoa(u, 10) = CString(d) /\ Denotes(d, 10) = u
    BY <2>3, Zenon DEF Numeral
  <2>5. Chop(itoa(u, 10)) = d
    BY <2>4, CutsAre, Zenon DEF Cuts
  <2>6. Signed(w) = <<45>> \o d
    BY <1>2, <2>5, Zenon DEF Signed, Minus, u
  <2> QED BY <2>1, <2>4, <2>6, Zenon DEF Signs, u
<1> QED BY <1>1, <1>2

(* What itoa and the conversions of a number give, for v and the signed    *)
(* number with the same bits.                                              *)
Prints(v, w) ==
  /\ \A r \in {2, 10, 16} : LET s == Text(itoa(v, r)) IN Denotes(s, r) = v /\ (Len(s) > 1 => s[1] # Digit(0))
  /\ Len(PaddedHex(v)) = HexPlaces /\ Denotes(PaddedHex(v), 16) = v
  /\ IF w < 0 THEN Signed(w)[1] = Minus /\ Denotes(Tail(Signed(w)), 10) = -w
              ELSE Denotes(Signed(w), 10) = w

(* itoa writes the digits that denote its value, without a leading zero,   *)
(* in every radix that is used; %#x fills up to the width of an int and    *)
(* %d prints the sign, of the most negative number too, whose negation     *)
(* overflows, for every width of an int (lib.c:126-176, 334-367).          *)
THEOREM NumbersPrinted ==
  ASSUME NEW v \in 0 .. Top - 1
  PROVE  Prints(v, IF v < Top \div 2 THEN v ELSE v - Top)
<1> DEFINE w == IF v < Top \div 2 THEN v ELSE v - Top
<1>1. PICK y \in Nat \ {0} : Top = 16 * y
  BY TopEven
<1>2. Top \div 2 = 8 * y
  BY <1>1
<1>3. v \in Nat /\ v < Top
  BY <1>1
<1>4. w \in Int /\ (w < 0 => -w \in Nat /\ -w < Top)
  BY <1>1, <1>2, <1>3
<1> HIDE DEF w
<1>5. ASSUME NEW r \in {2, 10, 16}, NEW s, s = Text(itoa(v, r))
      PROVE  Denotes(s, r) = v /\ (Len(s) > 1 => s[1] # Digit(0))
  <2>1. PICK d, n : Numeral(d, n, v, r)
    BY <1>3, Itoa
  <2>2. IsText(d, n) /\ itoa(v, r) = CString(d) /\ Denotes(d, r) = v /\ (n > 1 => d[1] # 48)
    BY <2>1, Zenon DEF Numeral
  <2>3. s = d
    BY <1>5, <2>2, CutsAre, Zenon DEF Cuts
  <2>4. Len(d) = n /\ Digit(0) = 48
    BY <2>2 DEF IsText, Digit
  <2> QED BY <2>2, <2>3, <2>4, Zenon
<1>6. Len(PaddedHex(v)) = HexPlaces /\ Denotes(PaddedHex(v), 16) = v
  BY <1>3, PaddedIs, Zenon DEF Padded, IsText
<1>7. PICK d, n : Signs(w, d, n)
  BY <1>4, SignedIs
<1>8. ASSUME w < 0 PROVE Signed(w)[1] = Minus /\ Denotes(Tail(Signed(w)), 10) = -w
  <2>1. IsText(d, n) /\ Signed(w) = <<45>> \o d /\ Denotes(d, 10) = Unsigned(-w)
    BY <1>7, <1>8, Zenon DEF Signs
  <2>2. Unsigned(-w) = -w
    <3>1. -w \in Nat /\ -w < Top /\ Top \in Nat
      BY <1>1, <1>4, <1>8
    <3>2. \A x, t \in Nat : x < t => x % t = x
      OBVIOUS
    <3> QED BY <3>1, <3>2, Zenon DEF Unsigned
  <2>3. d \in Seq(Nat)
    BY <2>1, Zenon DEF IsText
  <2> DEFINE q == <<45>> \o d
  <2>4. q[1] = 45 /\ Tail(q) = d
    <3>1. <<45>> \in Seq(Nat) /\ Len(<<45>>) = 1 /\ <<45>>[1] = 45
      OBVIOUS
    <3> DEFINE o == <<45>>
    <3> HIDE DEF o
    <3>2. o \in Seq(Nat) /\ Len(o) = 1 /\ o[1] = 45
      BY <3>1 DEF o
    <3>3. q \in Seq(Nat) /\ Len(q) = 1 + Len(d) /\ q[1] = 45 /\ \A i \in 1 .. Len(d) : q[1 + i] = d[i]
      BY <2>3, <3>2 DEF o
    <3> HIDE DEF q
    <3>4. Tail(q) \in Seq(Nat) /\ Len(Tail(q)) = Len(d) /\ \A i \in 1 .. Len(d) : Tail(q)[i] = q[i + 1]
      BY <2>3, <3>3
    <3>5. \A i \in 1 .. Len(d) : Tail(q)[i] = d[i]
      <4> TAKE i \in 1 .. Len(d)
      <4>1. i + 1 = 1 + i
        OBVIOUS
      <4> QED BY <3>3, <3>4, <4>1, Zenon
    <3> DEFINE e == Tail(q)
    <3> HIDE DEF e
    <3>6. e = d
      <4>1. e \in Seq(Nat) /\ Len(e) = Len(d) /\ Len(d) \in Nat /\ \A i \in 1 .. Len(d) : e[i] = d[i]
        BY <2>3, <3>4, <3>5 DEF e
      <4>2. e = [i \in 1 .. Len(d) |-> e[i]] /\ d = [i \in 1 .. Len(d) |-> d[i]]
        BY <2>3, <4>1
      <4> QED BY <4>1, <4>2, Zenon
    <3> QED BY <3>3, <3>6 DEF e
  <2> HIDE DEF q
  <2>5. Signed(w) = q
    BY <2>1 DEF q
  <2> QED BY <2>1, <2>2, <2>4, <2>5, Zenon DEF Minus
<1>9. ASSUME ~(w < 0) PROVE Denotes(Signed(w), 10) = w
  <2>1. w >= 0
    BY <1>4, <1>9
  <2> QED BY <1>7, <2>1, Zenon DEF Signs
<1> QED BY <1>5, <1>6, <1>8, <1>9, Zenon DEF Prints, w
-----------------------------------------------------------------------------
(* The sequences of s, of elements of V, one behind the other, after each  *)
(* of them.                                                                *)
JoinedOf(h, s, m, V) == h \in [0 .. m -> Seq(V)] /\ h[0] = <<>> /\ \A k \in 1 .. m : h[k] = h[k - 1] \o s[k]
LEMMA FlatsAre ==
  ASSUME NEW V, NEW m \in Nat, NEW s, Len(s) = m, \A k \in 1 .. m : s[k] \in Seq(V)
  PROVE  \E h : JoinedOf(h, s, m, V) /\ Flat(s) = h[m]
<1> DEFINE X == Seq(V)
           F == [k \in 1 .. m |-> [x \in X |-> x \o s[k]]]
           f == CHOOSE f : f = [i \in 0 .. m |-> IF i = 0 THEN <<>> ELSE f[i - 1] \o s[i]]
<1>1. \A k \in 1 .. m : \A x \in X : F[k][x] = x \o s[k]
  BY Zenon
<1>2. \A x, y \in X : x \o y \in X
  OBVIOUS
<1>3. <<>> \in X
  OBVIOUS
<1>4. Flat(s) = f[m]
  BY Zenon DEF Flat
<1> HIDE DEF X, F
<1>5. \A k \in 1 .. m : \A x \in X : F[k][x] \in X
  BY <1>1, <1>2, Zenon DEF X
<1>6. PICK h : Iterate(h, X, <<>>, F, m)
  BY <1>3, <1>5, Iterates
<1>7. \A k \in 1 .. m : k - 1 \in 0 .. m /\ k \in 0 .. m /\ k # 0
  OBVIOUS
<1>8. h \in [0 .. m -> X] /\ h[0] = <<>> /\ \A k \in 1 .. m : h[k] = h[k - 1] \o s[k]
  BY <1>1, <1>6, <1>7, Zenon DEF Iterate
<1>9. h = [i \in 0 .. m |-> IF i = 0 THEN <<>> ELSE h[i - 1] \o s[i]]
  <2>1. \A k \in 0 .. m : k = 0 \/ k \in 1 .. m
    OBVIOUS
  <2>2. h = [k \in 0 .. m |-> h[k]]
    BY <1>8, Zenon
  <2>3. \A k \in 0 .. m : h[k] = IF k = 0 THEN <<>> ELSE h[k - 1] \o s[k]
    BY <1>8, <2>1, Zenon
  <2> QED BY <2>2, <2>3, Zenon
<1>10. f = [i \in 0 .. m |-> IF i = 0 THEN <<>> ELSE f[i - 1] \o s[i]]
  BY <1>9, Zenon
<1> HIDE DEF f
<1>11. 0 \in 0 .. m
  OBVIOUS
<1>12. f[0] = h[0] /\ \A k \in 1 .. m : f[k - 1] = h[k - 1] => f[k] = h[k]
  <2>1. \A k \in 0 .. m : f[k] = IF k = 0 THEN <<>> ELSE f[k - 1] \o s[k]
    BY <1>10, Zenon
  <2>2. f[0] = <<>>
    BY <1>11, <2>1, Zenon
  <2>3. \A k \in 1 .. m : f[k] = f[k - 1] \o s[k]
    BY <1>7, <2>1, Zenon
  <2> QED BY <1>8, <2>2, <2>3, Zenon
<1>13. f[m] = h[m]
  BY <1>12, Agree
<1>14. JoinedOf(h, s, m, V)
  BY <1>8, Zenon DEF JoinedOf, X
<1> QED BY <1>4, <1>13, <1>14, Zenon

Joined(h, s, m) == JoinedOf(h, s, m, Nat)
LEMMA FlatIs ==
  ASSUME NEW m \in Nat, NEW s, Len(s) = m, \A k \in 1 .. m : s[k] \in Seq(Nat)
  PROVE  \E h : Joined(h, s, m) /\ Flat(s) = h[m]
BY FlatsAre DEF Joined

(* Sequence k is behind the first k - 1 of them, at the same place in the  *)
(* whole; each takes up some of it.                                        *)
Concat(x, y, z) ==
  /\ Len(z) = Len(x) + Len(y)
  /\ \A i \in 1 .. Len(y) : z[Len(x) + i] = y[i]
  /\ \A i \in 1 .. Len(x) : z[i] = x[i]
LEMMA ConcatIs == ASSUME NEW x \in Seq(Nat), NEW y \in Seq(Nat) PROVE Concat(x, y, x \o y)
BY DEF Concat

InPlace(h, s, m) ==
  /\ \A k \in 1 .. m : /\ Len(h[k]) = Len(h[k - 1]) + Len(s[k]) /\ Len(h[k]) <= Len(h[m])
                       /\ \A i \in 1 .. Len(s[k]) : h[m][Len(h[k - 1]) + i] = s[k][i]
  /\ m <= Len(h[m]) /\ Len(h[0]) = 0 /\ \A k \in 0 .. m : Len(h[k]) \in Nat
LEMMA JoinedPlaces ==
  ASSUME NEW m \in Nat, NEW s, NEW h, Joined(h, s, m), \A k \in 1 .. m : s[k] \in Seq(Nat) /\ Len(s[k]) >= 1
  PROVE  InPlace(h, s, m)
<1>1. h \in [0 .. m -> Seq(Nat)] /\ h[0] = <<>> /\ \A k \in 1 .. m : h[k] = h[k - 1] \o s[k]
  BY Zenon DEF Joined, JoinedOf
<1>2. \A k \in 1 .. m : k - 1 \in 0 .. m /\ k \in 0 .. m
  OBVIOUS
<1>3. \A k \in 0 .. m : h[k] \in Seq(Nat) /\ Len(h[k]) \in Nat
  <2>1. \A x \in Seq(Nat) : Len(x) \in Nat
    OBVIOUS
  <2> QED BY <1>1, <2>1, Zenon
<1>4. \A k \in 1 .. m : Len(s[k]) \in Nat /\ Len(s[k]) >= 1
  OBVIOUS
<1>5. ASSUME NEW k \in 1 .. m
      PROVE  /\ Len(h[k]) = Len(h[k - 1]) + Len(s[k])
             /\ \A i \in 1 .. Len(s[k]) : h[k][Len(h[k - 1]) + i] = s[k][i]
             /\ \A i \in 1 .. Len(h[k - 1]) : h[k][i] = h[k - 1][i]
  <2>1. h[k - 1] \in Seq(Nat) /\ s[k] \in Seq(Nat) /\ h[k] = h[k - 1] \o s[k]
    BY <1>1, <1>2, <1>3, Zenon
  <2>2. Concat(h[k - 1], s[k], h[k])
    BY <2>1, ConcatIs
  <2> QED BY <2>2, Zenon DEF Concat
<1>6. Len(h[0]) = 0
  BY <1>1
<1>7. m <= Len(h[m])
  <2> DEFINE S == {k \in 0 .. m : k <= Len(h[k])}
  <2>1. 0 \in S
    BY <1>6
  <2>2. ASSUME NEW k \in 1 .. m, k - 1 \in S PROVE k \in S
    <3>1. k - 1 <= Len(h[k - 1])
      BY <2>2
    <3>2. Len(h[k]) = Len(h[k - 1]) + Len(s[k])
      BY <1>5, Zenon
    <3>3. Len(h[k - 1]) \in Nat /\ Len(s[k]) \in Nat /\ Len(s[k]) >= 1
      BY <1>2, <1>3, <1>4, Zenon
    <3> DEFINE a == Len(h[k - 1])
               b == Len(s[k])
               c == Len(h[k])
    <3>4. k - 1 <= a /\ c = a + b /\ a \in Nat /\ b \in Nat /\ b >= 1
      BY <3>1, <3>2, <3>3, Zenon
    <3> HIDE DEF a, b, c
    <3>5. k <= c /\ k \in 0 .. m
      BY <3>4
    <3> QED BY <3>5 DEF c
  <2>3. m \in 0 .. m
    OBVIOUS
  <2> HIDE DEF S
  <2>4. \A k \in 0 .. m : k \in S
    BY <2>1, <2>2, UpTo, Zenon
  <2>5. m \in S
    BY <2>3, <2>4, Zenon
  <2> QED BY <2>5 DEF S
<1>8. ASSUME NEW k \in 1 .. m PROVE Len(h[k]) <= Len(h[m]) /\ \A x \in 1 .. Len(h[k]) : h[m][x] = h[k][x]
  <2> DEFINE S == {j \in 0 .. m : k <= j => Len(h[k]) <= Len(h[j]) /\ \A x \in 1 .. Len(h[k]) : h[j][x] = h[k][x]}
  <2>1. 0 \in S
    OBVIOUS
  <2>2. ASSUME NEW j \in 1 .. m, j - 1 \in S PROVE j \in S
    <3>0. Len(h[k]) \in Nat /\ Len(h[j - 1]) \in Nat /\ Len(s[j]) \in Nat /\ j \in 0 .. m
      BY <1>2, <1>3, <1>4, Zenon
    <3>1. CASE j < k
      BY <3>1
    <3>2. CASE j = k
      BY <3>0, <3>2
    <3>3. CASE k < j
      <4>1. k <= j - 1
        BY <3>3
      <4>2. Len(h[k]) <= Len(h[j - 1]) /\ \A x \in 1 .. Len(h[k]) : h[j - 1][x] = h[k][x]
        BY <2>2, <4>1
      <4>3. Len(h[j]) = Len(h[j - 1]) + Len(s[j]) /\ \A i \in 1 .. Len(h[j - 1]) : h[j][i] = h[j - 1][i]
        BY <1>5, Zenon
      <4>4. Len(h[k]) <= Len(h[j]) /\ \A x \in 1 .. Len(h[k]) : x \in 1 .. Len(h[j - 1])
        <5> DEFINE a == Len(h[k])
                   b == Len(h[j - 1])
                   c == Len(h[j])
                   d == Len(s[j])
        <5>1. a \in Nat /\ b \in Nat /\ d \in Nat /\ a <= b /\ c = b + d
          BY <3>0, <4>2, <4>3, Zenon
        <5> HIDE DEF a, b, c, d
        <5>2. a <= c /\ \A x \in 1 .. a : x \in 1 .. b
          BY <5>1
        <5> QED BY <5>2 DEF a, b, c
      <4>5. \A x \in 1 .. Len(h[k]) : h[j][x] = h[k][x]
        BY <4>2, <4>3, <4>4, Zenon
      <4> QED BY <3>0, <4>4, <4>5, Zenon
    <3> QED BY <3>1, <3>2, <3>3
  <2>3. m \in 0 .. m /\ k <= m
    OBVIOUS
  <2> HIDE DEF S
  <2>4. \A j \in 0 .. m : j \in S
    BY <2>1, <2>2, UpTo, Zenon
  <2>5. m \in S
    BY <2>3, <2>4, Zenon
  <2> QED BY <2>3, <2>5, Zenon DEF S
<1>9. ASSUME NEW k \in 1 .. m, NEW i \in 1 .. Len(s[k]) PROVE h[m][Len(h[k - 1]) + i] = s[k][i]
  <2>1. Len(h[k - 1]) \in Nat /\ Len(s[k]) \in Nat /\ Len(h[k]) = Len(h[k - 1]) + Len(s[k])
    BY <1>2, <1>3, <1>4, <1>5, Zenon
  <2>2. Len(h[k - 1]) + i \in 1 .. Len(h[k])
    <3> DEFINE a == Len(h[k - 1])
               b == Len(s[k])
               c == Len(h[k])
    <3>1. a \in Nat /\ b \in Nat /\ c = a + b /\ i \in 1 .. b
      BY <2>1, Zenon
    <3> HIDE DEF a, b, c
    <3>2. a + i \in 1 .. c
      BY <3>1
    <3> QED BY <3>2 DEF a, c
  <2> QED BY <1>5, <1>8, <2>2, Zenon
<1> QED BY <1>3, <1>5, <1>6, <1>7, <1>8, <1>9, Zenon DEF InPlace
-----------------------------------------------------------------------------
LEMMA NoFlag ==
  ASSUME NEW f, Len(f) \in Nat, NEW a \in Nat, f[a + 1] # 35
  PROVE  Flags(f, a) = 0
<1> DEFINE P(k) == Dec(f, a + k) # Hash /\ \A j \in 0 .. k - 1 : Dec(f, a + j) = Hash
<1>0. Dec(f, a + 0) = f[a + 1]
  BY DEF Dec
<1>1. 0 \in 0 .. Len(f) /\ P(0)
  BY <1>0 DEF Hash
<1>2. \A k \in 0 .. Len(f) : P(k) => k = 0
  <2> SUFFICES ASSUME NEW k \in 0 .. Len(f), P(k), k # 0 PROVE FALSE
    OBVIOUS
  <2>1. 0 \in 0 .. k - 1
    OBVIOUS
  <2> QED BY <1>0, <2>1, Zenon DEF Hash
<1>3. Flags(f, a) = CHOOSE k \in 0 .. Len(f) : P(k)
  BY Zenon DEF Flags
<1> HIDE DEF P
<1> QED BY <1>1, <1>2, <1>3, Zenon

LEMMA OneFlag ==
  ASSUME NEW f, Len(f) \in Nat, NEW a \in Nat, 1 <= Len(f), f[a + 1] = 35, f[a + 2] # 35
  PROVE  Flags(f, a) = 1
<1> DEFINE P(k) == Dec(f, a + k) # Hash /\ \A j \in 0 .. k - 1 : Dec(f, a + j) = Hash
<1>0. Dec(f, a + 0) = f[a + 1] /\ Dec(f, a + 1) = f[a + 2]
  <2>1. a + 0 + 1 = a + 1 /\ a + 1 + 1 = a + 2
    OBVIOUS
  <2> QED BY <2>1, Zenon DEF Dec
<1>1. 1 \in 0 .. Len(f) /\ P(1)
  <2>1. 1 \in 0 .. Len(f) /\ \A j \in 0 .. 1 - 1 : j = 0
    OBVIOUS
  <2> QED BY <1>0, <2>1, Zenon DEF Hash
<1>2. \A k \in 0 .. Len(f) : P(k) => k = 1
  <2> SUFFICES ASSUME NEW k \in 0 .. Len(f), P(k), k # 1 PROVE FALSE
    OBVIOUS
  <2>1. CASE k = 0
    BY <1>0, <2>1, Zenon DEF Hash
  <2>2. CASE k # 0
    <3>1. 1 \in 0 .. k - 1
      BY <2>2
    <3> QED BY <1>0, <3>1, Zenon DEF Hash
  <2> QED BY <2>1, <2>2
<1>3. Flags(f, a) = CHOOSE k \in 0 .. Len(f) : P(k)
  BY Zenon DEF Flags
<1> HIDE DEF P
<1> QED BY <1>1, <1>2, <1>3, Zenon
-----------------------------------------------------------------------------
(* The strings a pointer of %s points to.                                  *)
LEMMA StringsThere == ASSUME NEW a PROVE \E d, n : IsText(d, n) /\ StringAt(a) = CString(d)
<1>1. IsText(<<>>, 0)
  <2>1. <<>> \in Seq(Nat) /\ Len(<<>>) = 0
    OBVIOUS
  <2>2. <<>> \in [1 .. 0 -> 1 .. 255]
    OBVIOUS
  <2> QED BY <2>1, <2>2 DEF IsText
<1>2. IsText(<<65, 66>>, 2)
  <2>1. <<65, 66>> \in Seq(Nat) /\ Len(<<65, 66>>) = 2
    OBVIOUS
  <2>2. <<65, 66>> \in [1 .. 2 -> 1 .. 255]
    <3>1. <<65, 66>> = [i \in 1 .. 2 |-> IF i = 1 THEN 65 ELSE 66]
      OBVIOUS
    <3>2. \A i \in 1 .. 2 : (IF i = 1 THEN 65 ELSE 66) \in 1 .. 255
      OBVIOUS
    <3> DEFINE b == <<65, 66>>
    <3> HIDE DEF b
    <3>3. b = [i \in 1 .. 2 |-> IF i = 1 THEN 65 ELSE 66]
      BY <3>1 DEF b
    <3>4. b \in [1 .. 2 -> 1 .. 255]
      BY <3>2, <3>3, Zenon
    <3> QED BY <3>4 DEF b
  <2> QED BY <2>1, <2>2 DEF IsText
<1>3. <<0>> = <<>> \o <<0>> /\ <<65, 66, 0>> = <<65, 66>> \o <<0>>
  OBVIOUS
<1>4. CASE a = 10
  BY <1>1, <1>3, <1>4, Zenon DEF StringAt, CString, NUL
<1>5. CASE a # 10
  BY <1>2, <1>3, <1>5, Zenon DEF StringAt, CString, NUL
<1> QED BY <1>4, <1>5

(* What each piece stands for, of the value v.                             *)
Stands(v) ==
  /\ PieceText(<<97>>, v) = <<97>>
  /\ PieceText(<<37, 37>>, v) = <<37>>
  /\ PieceText(<<37, 122>>, v) = <<>>
  /\ PieceText(<<37, 100>>, v) = Signed(v)
  /\ PieceText(<<37, 117>>, v) = Text(itoa(Unsigned(v), 10))
  /\ PieceText(<<37, 120>>, v) = Text(itoa(Unsigned(v), 16))
  /\ PieceText(<<37, 35, 120>>, v) = PaddedHex(Unsigned(v))
  /\ PieceText(<<37, 99>>, v) = <<Low8(v)>>
  /\ PieceText(<<37, 115>>, v) = Text(StringAt(v))
LEMMA PiecesStand == ASSUME NEW v PROVE Stands(v)
<1>1. PieceText(<<97>>, v) = <<97>>
  BY DEF PieceText
<1>2. PieceText(<<37, 37>>, v) = <<37>>
  BY DEF PieceText
<1>3. PieceText(<<37, 122>>, v) = <<>>
  BY DEF PieceText
<1>4. PieceText(<<37, 100>>, v) = Signed(v)
  BY DEF PieceText
<1>5. PieceText(<<37, 117>>, v) = Text(itoa(Unsigned(v), 10))
  BY DEF PieceText
<1>6. PieceText(<<37, 120>>, v) = Text(itoa(Unsigned(v), 16))
  BY DEF PieceText
<1>7. PieceText(<<37, 35, 120>>, v) = PaddedHex(Unsigned(v))
  BY DEF PieceText
<1>8. PieceText(<<37, 99>>, v) = <<Low8(v)>>
  BY DEF PieceText
<1>9. PieceText(<<37, 115>>, v) = Text(StringAt(v))
  BY DEF PieceText
<1> QED BY <1>1, <1>2, <1>3, <1>4, <1>5, <1>6, <1>7, <1>8, <1>9, Zenon DEF Stands

(* What each conversion prints, of the value v.                            *)
Converts(v) ==
  /\ \A w : Conversion(37, FALSE, w) = <<37>>
  /\ \A w : Conversion(122, FALSE, w) = <<>>
  /\ Conversion(100, FALSE, v) = Signed(v)
  /\ Conversion(117, FALSE, v) = Chop(itoa(Unsigned(v), 10))
  /\ Conversion(120, FALSE, v) = Chop(itoa(Unsigned(v), 16))
  /\ Conversion(120, TRUE, v) = PaddedHex(Unsigned(v))
  /\ Conversion(99, FALSE, v) = <<Low8(v)>>
  /\ Conversion(115, FALSE, v) = Chop(StringAt(v))
LEMMA ConversionsAre == ASSUME NEW v PROVE Converts(v)
<1>1. \A w : Conversion(37, FALSE, w) = <<37>>
  BY DEF Conversion, Percent
<1>2. \A w : Conversion(122, FALSE, w) = <<>>
  BY DEF Conversion, Percent
<1>3. Conversion(100, FALSE, v) = Signed(v)
  BY DEF Conversion, Percent
<1>4. Conversion(117, FALSE, v) = Chop(itoa(Unsigned(v), 10))
  BY DEF Conversion, Percent
<1>5. Conversion(120, FALSE, v) = Chop(itoa(Unsigned(v), 16))
  BY DEF Conversion, Percent
<1>6. Conversion(120, TRUE, v) = PaddedHex(Unsigned(v))
  BY DEF Conversion, Percent
<1>7. Conversion(99, FALSE, v) = <<Low8(v)>>
  BY DEF Conversion, Percent
<1>8. Conversion(115, FALSE, v) = Chop(StringAt(v))
  BY DEF Conversion, Percent
<1> QED BY <1>1, <1>2, <1>3, <1>4, <1>5, <1>6, <1>7, <1>8, Zenon DEF Converts

(* printf and the pieces agree on what a value is printed as.              *)
SameText(v) ==
  /\ Text(itoa(Unsigned(v), 10)) = Chop(itoa(Unsigned(v), 10)) /\ Chop(itoa(Unsigned(v), 10)) \in Seq(Nat)
  /\ Text(itoa(Unsigned(v), 16)) = Chop(itoa(Unsigned(v), 16)) /\ Chop(itoa(Unsigned(v), 16)) \in Seq(Nat)
  /\ Text(StringAt(v)) = Chop(StringAt(v)) /\ Chop(StringAt(v)) \in Seq(Nat)
  /\ Signed(v) \in Seq(Nat) /\ PaddedHex(Unsigned(v)) \in Seq(Nat) /\ <<Low8(v)>> \in Seq(Nat)
LEMMA TextsAgree == ASSUME NEW v \in Int PROVE SameText(v)
<1> DEFINE u == Unsigned(v)
<1>1. u \in Nat /\ u < Top
  BY UnsignedIs
<1>2. 10 \in {2, 10, 16} /\ 16 \in {2, 10, 16}
  OBVIOUS
<1> HIDE DEF u
<1>3. ASSUME NEW r \in {2, 10, 16} PROVE Text(itoa(u, r)) = Chop(itoa(u, r)) /\ Chop(itoa(u, r)) \in Seq(Nat)
  <2>1. PICK d, n : Numeral(d, n, u, r)
    BY <1>1, Itoa
  <2>2. IsText(d, n) /\ itoa(u, r) = CString(d)
    BY <2>1, Zenon DEF Numeral
  <2>3. Cuts(d) /\ d \in Seq(Nat)
    BY <2>2, CutsAre, Zenon DEF IsText
  <2> QED BY <2>2, <2>3, Zenon DEF Cuts
<1>4. Text(StringAt(v)) = Chop(StringAt(v)) /\ Chop(StringAt(v)) \in Seq(Nat)
  <2>1. PICK d, n : IsText(d, n) /\ StringAt(v) = CString(d)
    BY StringsThere
  <2>2. Cuts(d) /\ d \in Seq(Nat)
    BY <2>1, CutsAre, Zenon DEF IsText
  <2> QED BY <2>1, <2>2, Zenon DEF Cuts
<1>5. Signed(v) \in Seq(Nat)
  <2>1. PICK d, n : Signs(v, d, n)
    BY SignedIs
  <2>2. d \in Seq(Nat)
    BY <2>1, Zenon DEF Signs, IsText
  <2>3. <<45>> \o d \in Seq(Nat)
    BY <2>2
  <2>4. v >= 0 \/ v < 0
    OBVIOUS
  <2> QED BY <2>1, <2>2, <2>3, <2>4, Zenon DEF Signs
<1>6. PaddedHex(u) \in Seq(Nat)
  BY <1>1, PaddedIs, Zenon DEF Padded, IsText
<1>7. <<Low8(v)>> \in Seq(Nat)
  <2>1. Low8(v) \in Nat
    BY DEF Low8
  <2> QED BY <2>1
<1> QED BY <1>2, <1>3, <1>4, <1>5, <1>6, <1>7, Zenon DEF SameText, u

State(a, c, o) == [at |-> a, arg |-> c, out |-> o]

(* A turn of printf with k flags and the conversion ch.                    *)
ConvTurn(f, args, a, c, o, k, ch) ==
  LET q == PrintTurn(f, args, State(a, c, o)) IN
  /\ ch \in TakesArgument => q = State(a + k + 2, c + 1, o \o Conversion(ch, k > 0, args[c + 1]))
  /\ ch \notin TakesArgument => q = State(a + k + 2, c, o \o Conversion(ch, k > 0, 0))
LEMMA ConversionTurn ==
  ASSUME NEW f, NEW args, NEW a \in Nat, NEW c \in Nat, NEW o, NEW k \in Nat, NEW ch,
         f[a + 1] = 37, Flags(f, a + 1) = k, f[a + k + 2] = ch
  PROVE  ConvTurn(f, args, a, c, o, k, ch)
<1> DEFINE q == State(a, c, o)
<1>1. q.at = a /\ q.arg = c /\ q.out = o
  BY DEF State
<1> HIDE DEF q
<1>2. Dec(f, q.at) = 37 /\ Dec(f, q.at + 1 + k) = ch
  <2>1. a + 1 + k + 1 = a + k + 2
    OBVIOUS
  <2> QED BY <1>1, <2>1, Zenon DEF Dec
<1>3. CASE ch \in TakesArgument
  <2>1. PrintTurn(f, args, q) = State(q.at + k + 2, q.arg + 1, q.out \o Conversion(ch, k > 0, args[q.arg + 1]))
    BY <1>1, <1>2, <1>3, Zenon DEF PrintTurn, Percent, State
  <2> QED BY <1>1, <1>3, <2>1, Zenon DEF q, ConvTurn
<1>4. CASE ch \notin TakesArgument
  <2>1. PrintTurn(f, args, q) = State(q.at + k + 2, q.arg, q.out \o Conversion(ch, k > 0, 0))
    BY <1>1, <1>2, <1>4, Zenon DEF PrintTurn, Percent, State
  <2> QED BY <1>1, <1>4, <2>1, Zenon DEF q, ConvTurn
<1> QED BY <1>3, <1>4

(* f has p from a on.                                                      *)
Has(f, a, p) == Len(f) \in Nat /\ a + Len(p) <= Len(f) /\ \A i \in 1 .. Len(p) : f[a + i] = p[i]
Eats(p) == IF p \in Conversions THEN 1 ELSE 0
TurnPrints(f, args, a, c, o, p) ==
  PrintTurn(f, args, State(a, c, o)) = State(a + Len(p), c + Eats(p), o \o PieceText(p, args[1 + c]))

Letter == <<97>>
LEMMA LetterTurn ==
  ASSUME NEW f, NEW args, NEW a \in Nat, NEW c \in Nat, NEW o \in Seq(Nat), Has(f, a, Letter)
  PROVE  TurnPrints(f, args, a, c, o, Letter)
<1> DEFINE q == State(a, c, o)
           p == <<97>>
<1>1. q.at = a /\ q.arg = c /\ q.out = o
  BY DEF State
<1>2. Len(p) = 1 /\ p[1] = 97 /\ p \notin Conversions
  BY DEF Conversions
<1>3. f[a + 1] = 97
  <2>1. 1 \in 1 .. 1
    OBVIOUS
  <2> HIDE DEF p
  <2> QED BY <1>2, <2>1, Zenon DEF Has, Letter, p
<1>4. PrintTurn(f, args, q) = State(q.at + 1, q.arg, Append(q.out, 97))
  <2>1. Dec(f, q.at) = 97 /\ 97 # Percent
    BY <1>1, <1>3 DEF Dec, Percent
  <2> HIDE DEF q
  <2> QED BY <2>1, Zenon DEF PrintTurn, State
<1>6. Append(o, 97) = o \o <<97>>
  <2> DEFINE x == Append(o, 97)
             y == o \o <<97>>
             n == Len(o) + 1
  <2>1. x \in Seq(Nat) /\ y \in Seq(Nat) /\ Len(x) = n /\ Len(y) = n /\ n \in Nat /\ \A i \in 1 .. n : x[i] = y[i]
    OBVIOUS
  <2> HIDE DEF x, y, n
  <2>2. x = [i \in 1 .. n |-> x[i]] /\ y = [i \in 1 .. n |-> y[i]]
    BY <2>1
  <2>3. x = y
    BY <2>1, <2>2, Zenon
  <2> QED BY <2>3 DEF x, y
<1>7. PieceText(p, args[1 + c]) = <<97>>
  BY PiecesStand, Zenon DEF Stands
<1>8. c + 0 = c
  OBVIOUS
<1>9. Eats(p) = 0
  BY <1>2, Zenon DEF Eats
<1> HIDE DEF q
<1>10. PrintTurn(f, args, q) = State(a + 1, c, o \o <<97>>)
  BY <1>1, <1>4, <1>6, Zenon
<1> HIDE DEF p
<1> QED BY <1>2, <1>7, <1>8, <1>9, <1>10, Zenon DEF TurnPrints, Letter, q, p

(* A piece of two characters, "%" and another that is no flag.             *)
LEMMA PairTurn ==
  ASSUME NEW f, NEW args, NEW a \in Nat, NEW c \in Nat, NEW o \in Seq(Nat), NEW ch \in Nat \ {35},
         Has(f, a, <<37, ch>>), args[c + 1] \in Int,
         NEW v, v = args[1 + c],
         ch \in TakesArgument <=> <<37, ch>> \in Conversions,
         ch \in TakesArgument => PieceText(<<37, ch>>, v) = Conversion(ch, FALSE, v),
         ch \notin TakesArgument => PieceText(<<37, ch>>, v) = Conversion(ch, FALSE, 0)
  PROVE  TurnPrints(f, args, a, c, o, <<37, ch>>)
<1> DEFINE p == <<37, ch>>
<1>1. Len(p) = 2 /\ p[1] = 37 /\ p[2] = ch
  OBVIOUS
<1> HIDE DEF p
<1>2. f[a + 1] = 37 /\ f[a + 2] = ch /\ Len(f) \in Nat
  <2>1. 1 \in 1 .. 2 /\ 2 \in 1 .. 2
    OBVIOUS
  <2> QED BY <1>1, <2>1, Zenon DEF Has, p
<1>3. Flags(f, a + 1) = 0
  <2>1. a + 1 \in Nat /\ (a + 1) + 1 = a + 2 /\ ch # 35
    OBVIOUS
  <2>2. f[(a + 1) + 1] # 35
    BY <1>2, <2>1, Zenon
  <2> QED BY <1>2, <2>1, <2>2, NoFlag
<1>4. a + 0 + 2 = a + 2 /\ 0 \in Nat /\ (0 > 0) = FALSE /\ 1 + c = c + 1 /\ c + 0 = c
  OBVIOUS
<1>5. f[a + 0 + 2] = ch
  BY <1>2, <1>4, Zenon
<1>6. LET q == PrintTurn(f, args, State(a, c, o)) IN
      /\ ch \in TakesArgument => q = State(a + 0 + 2, c + 1, o \o Conversion(ch, 0 > 0, args[c + 1]))
      /\ ch \notin TakesArgument => q = State(a + 0 + 2, c, o \o Conversion(ch, 0 > 0, 0))
  <2>1. ConvTurn(f, args, a, c, o, 0, ch)
    BY <1>2, <1>3, <1>4, <1>5, ConversionTurn, Zenon
  <2> QED BY <2>1, Zenon DEF ConvTurn
<1>7. CASE ch \in TakesArgument
  <2>1. Eats(p) = 1
    BY <1>7, Zenon DEF Eats, p
  <2>2. PieceText(p, v) = Conversion(ch, FALSE, v)
    BY <1>7 DEF p
  <2>3. PrintTurn(f, args, State(a, c, o)) = State(a + 2, c + 1, o \o Conversion(ch, FALSE, v))
    BY <1>4, <1>6, <1>7, Zenon
  <2>4. PrintTurn(f, args, State(a, c, o)) = State(a + Len(p), c + Eats(p), o \o PieceText(p, args[1 + c]))
    BY <1>1, <2>1, <2>2, <2>3, Zenon
  <2> QED BY <2>4 DEF TurnPrints, p
<1>8. CASE ch \notin TakesArgument
  <2>1. Eats(p) = 0
    BY <1>8, Zenon DEF Eats, p
  <2>2. PieceText(p, v) = Conversion(ch, FALSE, 0)
    BY <1>8 DEF p
  <2>3. PrintTurn(f, args, State(a, c, o)) = State(a + 2, c, o \o Conversion(ch, FALSE, 0))
    BY <1>4, <1>6, <1>8, Zenon
  <2>4. PrintTurn(f, args, State(a, c, o)) = State(a + Len(p), c + Eats(p), o \o PieceText(p, args[1 + c]))
    BY <1>1, <1>4, <2>1, <2>2, <2>3, Zenon
  <2> QED BY <2>4 DEF TurnPrints, p
<1> QED BY <1>7, <1>8

(* "%#x".                                                                  *)
LEMMA FlagTurn ==
  ASSUME NEW f, NEW args, NEW a \in Nat, NEW c \in Nat, NEW o \in Seq(Nat), Has(f, a, <<37, 35, 120>>)
  PROVE  TurnPrints(f, args, a, c, o, <<37, 35, 120>>)
<1> DEFINE p == <<37, 35, 120>>
           v == args[1 + c]
<1>1. Len(p) = 3 /\ p[1] = 37 /\ p[2] = 35 /\ p[3] = 120 /\ p \in Conversions
  BY DEF Conversions
<1>2. PieceText(p, v) = PaddedHex(Unsigned(v))
  BY PiecesStand, Zenon DEF Stands
<1> HIDE DEF p
<1>3. f[a + 1] = 37 /\ f[a + 2] = 35 /\ f[a + 3] = 120 /\ Len(f) \in Nat /\ a + 3 <= Len(f)
  <2>1. 1 \in 1 .. 3 /\ 2 \in 1 .. 3 /\ 3 \in 1 .. 3
    OBVIOUS
  <2>2. Has(f, a, p)
    BY DEF p
  <2>3. Len(f) \in Nat /\ a + 3 <= Len(f) /\ \A i \in 1 .. 3 : f[a + i] = p[i]
    BY <1>1, <2>2, Zenon DEF Has
  <2>4. f[a + 1] = p[1]
    BY <2>1, <2>3, Zenon
  <2>5. f[a + 2] = p[2]
    BY <2>1, <2>3, Zenon
  <2>6. f[a + 3] = p[3]
    BY <2>1, <2>3, Zenon
  <2> QED BY <1>1, <2>3, <2>4, <2>5, <2>6, Zenon
<1>4. a + 1 \in Nat /\ (a + 1) + 1 = a + 2 /\ (a + 1) + 2 = a + 3 /\ 120 # 35 /\ 1 <= Len(f)
  BY <1>3
<1>5. Flags(f, a + 1) = 1
  <2>1. f[(a + 1) + 1] = 35 /\ f[(a + 1) + 2] # 35
    <3>1. f[(a + 1) + 1] = f[a + 2]
      BY <1>4, Zenon
    <3>2. f[(a + 1) + 2] = f[a + 3]
      BY <1>4, Zenon
    <3> QED BY <1>3, <3>1, <3>2
  <2> QED BY <1>3, <1>4, <2>1, OneFlag
<1>6. a + 1 + 2 = a + 3 /\ 1 \in Nat /\ (1 > 0) = TRUE /\ 1 + c = c + 1
  OBVIOUS
<1>7. f[a + 1 + 2] = 120
  BY <1>3, <1>6, Zenon
<1>8. ConvTurn(f, args, a, c, o, 1, 120)
  <2> DEFINE k == 1
             ch == 120
  <2>1. k \in Nat /\ f[a + 1] = 37 /\ Flags(f, a + 1) = k /\ f[a + k + 2] = ch
    BY <1>3, <1>5, <1>7
  <2> HIDE DEF k, ch
  <2>2. ConvTurn(f, args, a, c, o, k, ch)
    BY <2>1, ConversionTurn, Zenon
  <2> QED BY <2>2 DEF k, ch
<1>9. 120 \in TakesArgument
  BY DEF TakesArgument
<1>10. Conversion(120, TRUE, v) = PaddedHex(Unsigned(v))
  BY ConversionsAre, Zenon DEF Converts
<1>11. PrintTurn(f, args, State(a, c, o)) = State(a + 3, c + 1, o \o Conversion(120, TRUE, v))
  BY <1>6, <1>8, <1>9, Zenon DEF ConvTurn
<1>12. Eats(p) = 1
  BY <1>1, Zenon DEF Eats
<1>13. PrintTurn(f, args, State(a, c, o)) = State(a + Len(p), c + Eats(p), o \o PieceText(p, v))
  BY <1>1, <1>2, <1>10, <1>11, <1>12, Zenon
<1> QED BY <1>13 DEF TurnPrints, p

(* One turn prints one piece.                                              *)
LEMMA PieceTurn ==
  ASSUME NEW f, NEW args, NEW a \in Nat, NEW c \in Nat, NEW o \in Seq(Nat), NEW p \in Pieces, Has(f, a, p),
         args[1 + c] \in Int
  PROVE  TurnPrints(f, args, a, c, o, p)
<1> DEFINE v == args[1 + c]
<1>1. v \in Int /\ args[c + 1] = v
  OBVIOUS
<1>2. Stands(v) /\ Converts(v) /\ SameText(v)
  BY <1>1, PiecesStand, ConversionsAre, TextsAgree
<1> HIDE DEF v
<1>3. args[c + 1] \in Int /\ v = args[1 + c]
  BY <1>1, Zenon DEF v
<1>4. CASE p = <<97>>
  BY <1>4, LetterTurn DEF Letter
<1>5. CASE p = <<37, 35, 120>>
  BY <1>5, FlagTurn
<1>6. CASE p = <<37, 37>>
  <2>1. 37 \in Nat \ {35} /\ 37 \notin TakesArgument /\ <<37, 37>> \notin Conversions
    BY DEF TakesArgument, Conversions
  <2>2. PieceText(<<37, 37>>, v) = Conversion(37, FALSE, 0)
    BY <1>2, Zenon DEF Stands, Converts
  <2> QED BY <1>3, <1>6, <2>1, <2>2, PairTurn, Zenon
<1>7. CASE p = <<37, 122>>
  <2>1. 122 \in Nat \ {35} /\ 122 \notin TakesArgument /\ <<37, 122>> \notin Conversions
    BY DEF TakesArgument, Conversions
  <2>2. PieceText(<<37, 122>>, v) = Conversion(122, FALSE, 0)
    BY <1>2, Zenon DEF Stands, Converts
  <2> QED BY <1>3, <1>7, <2>1, <2>2, PairTurn, Zenon
<1>8. CASE p = <<37, 100>>
  <2>1. 100 \in Nat \ {35} /\ 100 \in TakesArgument /\ <<37, 100>> \in Conversions
    BY DEF TakesArgument, Conversions
  <2>2. PieceText(<<37, 100>>, v) = Conversion(100, FALSE, v)
    BY <1>2, Zenon DEF Stands, Converts
  <2> QED BY <1>3, <1>8, <2>1, <2>2, PairTurn, Zenon
<1>9. CASE p = <<37, 117>>
  <2>1. 117 \in Nat \ {35} /\ 117 \in TakesArgument /\ <<37, 117>> \in Conversions
    BY DEF TakesArgument, Conversions
  <2>2. PieceText(<<37, 117>>, v) = Conversion(117, FALSE, v)
    BY <1>2, Zenon DEF Stands, Converts, SameText
  <2> QED BY <1>3, <1>9, <2>1, <2>2, PairTurn, Zenon
<1>10. CASE p = <<37, 120>>
  <2>1. 120 \in Nat \ {35} /\ 120 \in TakesArgument /\ <<37, 120>> \in Conversions
    BY DEF TakesArgument, Conversions
  <2>2. PieceText(<<37, 120>>, v) = Conversion(120, FALSE, v)
    BY <1>2, Zenon DEF Stands, Converts, SameText
  <2> QED BY <1>3, <1>10, <2>1, <2>2, PairTurn, Zenon
<1>11. CASE p = <<37, 99>>
  <2>1. 99 \in Nat \ {35} /\ 99 \in TakesArgument /\ <<37, 99>> \in Conversions
    BY DEF TakesArgument, Conversions
  <2>2. PieceText(<<37, 99>>, v) = Conversion(99, FALSE, v)
    BY <1>2, Zenon DEF Stands, Converts
  <2> QED BY <1>3, <1>11, <2>1, <2>2, PairTurn, Zenon
<1>12. CASE p = <<37, 115>>
  <2>1. 115 \in Nat \ {35} /\ 115 \in TakesArgument /\ <<37, 115>> \in Conversions
    BY DEF TakesArgument, Conversions
  <2>2. PieceText(<<37, 115>>, v) = Conversion(115, FALSE, v)
    BY <1>2, Zenon DEF Stands, Converts, SameText
  <2> QED BY <1>3, <1>12, <2>1, <2>2, PairTurn, Zenon
<1>13. \/ p = <<97>> \/ p = <<37, 35, 120>> \/ p = <<37, 37>> \/ p = <<37, 122>> \/ p = <<37, 100>>
       \/ p = <<37, 117>> \/ p = <<37, 120>> \/ p = <<37, 99>> \/ p = <<37, 115>>
  BY Zenon DEF Pieces, Conversions
<1> QED BY <1>4, <1>5, <1>6, <1>7, <1>8, <1>9, <1>10, <1>11, <1>12, <1>13, Zenon

(* A piece has characters, and a text.                                     *)
LEMMA PiecesAre ==
  ASSUME NEW p \in Pieces PROVE p \in Seq(Nat) /\ Len(p) >= 1 /\ \A v \in Int : PieceText(p, v) \in Seq(Nat)
<1> DEFINE Good(x) == x \in Seq(Nat) /\ Len(x) >= 1
<1>1. Good(<<97>>) /\ Good(<<37, 35, 120>>)
  OBVIOUS
<1>2. ASSUME NEW x \in Nat PROVE Good(<<37, x>>)
  OBVIOUS
<1> HIDE DEF Good
<1>3. Good(<<37, 37>>) /\ Good(<<37, 122>>) /\ Good(<<37, 100>>) /\ Good(<<37, 117>>)
      /\ Good(<<37, 120>>) /\ Good(<<37, 99>>) /\ Good(<<37, 115>>)
  BY <1>2
<1>4. \/ p = <<97>> \/ p = <<37, 35, 120>> \/ p = <<37, 37>> \/ p = <<37, 122>> \/ p = <<37, 100>>
      \/ p = <<37, 117>> \/ p = <<37, 120>> \/ p = <<37, 99>> \/ p = <<37, 115>>
  BY Zenon DEF Pieces, Conversions
<1>5. Good(p)
  <2>1. CASE p = <<97>>
    BY <1>1, <2>1, Zenon
  <2>2. CASE p = <<37, 35, 120>>
    BY <1>1, <2>2, Zenon
  <2>3. CASE p = <<37, 37>>
    BY <1>3, <2>3, Zenon
  <2>4. CASE p = <<37, 122>>
    BY <1>3, <2>4, Zenon
  <2>5. CASE p = <<37, 100>>
    BY <1>3, <2>5, Zenon
  <2>6. CASE p = <<37, 117>>
    BY <1>3, <2>6, Zenon
  <2>7. CASE p = <<37, 120>>
    BY <1>3, <2>7, Zenon
  <2>8. CASE p = <<37, 99>>
    BY <1>3, <2>8, Zenon
  <2>9. CASE p = <<37, 115>>
    BY <1>3, <2>9, Zenon
  <2> QED BY <1>4, <2>1, <2>2, <2>3, <2>4, <2>5, <2>6, <2>7, <2>8, <2>9, Zenon
<1>6. ASSUME NEW v \in Int PROVE PieceText(p, v) \in Seq(Nat)
  <2>1. Stands(v) /\ SameText(v)
    BY PiecesStand, TextsAgree
  <2>2. <<97>> \in Seq(Nat) /\ <<37>> \in Seq(Nat) /\ <<>> \in Seq(Nat)
    OBVIOUS
  <2>3. CASE p = <<97>> \/ p = <<37, 37>> \/ p = <<37, 122>>
    BY <2>1, <2>2, <2>3, Zenon DEF Stands
  <2>4. CASE p = <<37, 100>>
    BY <2>1, <2>4, Zenon DEF Stands, SameText
  <2>5. CASE p = <<37, 117>>
    <3>1. PieceText(<<37, 117>>, v) = Text(itoa(Unsigned(v), 10))
      BY <2>1, Zenon DEF Stands
    <3>2. Text(itoa(Unsigned(v), 10)) \in Seq(Nat)
      BY <2>1, Zenon DEF SameText
    <3> QED BY <2>5, <3>1, <3>2, Zenon
  <2>6. CASE p = <<37, 120>>
    BY <2>1, <2>6, Zenon DEF Stands, SameText
  <2>7. CASE p = <<37, 35, 120>>
    BY <2>1, <2>7, Zenon DEF Stands, SameText
  <2>8. CASE p = <<37, 99>>
    BY <2>1, <2>8, Zenon DEF Stands, SameText
  <2>9. CASE p = <<37, 115>>
    BY <2>1, <2>9, Zenon DEF Stands, SameText
  <2> QED BY <1>4, <2>3, <2>4, <2>5, <2>6, <2>7, <2>8, <2>9, Zenon
<1> QED BY <1>5, <1>6, Zenon DEF Good

(* The arguments that the first k pieces take.                             *)
Count(ps, k) == Cardinality(Used(ps, k))
LEMMA UsedIs ==
  ASSUME NEW m \in Nat, NEW ps
  PROVE  /\ Count(ps, 0) = 0 /\ \A k \in 0 .. m : Count(ps, k) \in Nat /\ Count(ps, k) <= k
         /\ \A k \in 1 .. m : Count(ps, k) = Count(ps, k - 1) + Eats(ps[k])
<1>1. Used(ps, 0) = {}
  BY DEF Used
<1>2. Count(ps, 0) = 0
  BY <1>1, FS_EmptySet DEF Count
<1>3. ASSUME NEW k \in 0 .. m PROVE IsFiniteSet(Used(ps, k)) /\ Count(ps, k) \in Nat /\ Count(ps, k) <= k
  <2>1. IsFiniteSet(1 .. k) /\ Cardinality(1 .. k) = k
    <3>1. 1 \in Int /\ k \in Int /\ k >= 0
      OBVIOUS
    <3>2. IsFiniteSet(1 .. k) /\ Cardinality(1 .. k) = IF 1 > k THEN 0 ELSE k - 1 + 1
      BY <3>1, FS_Interval
    <3> QED BY <3>1, <3>2
  <2>2. Used(ps, k) \in SUBSET (1 .. k)
    BY DEF Used
  <2>3. IsFiniteSet(Used(ps, k)) /\ Cardinality(Used(ps, k)) <= Cardinality(1 .. k)
    BY <2>1, <2>2, FS_Subset
  <2>4. Cardinality(Used(ps, k)) \in Nat
    BY <2>3, FS_CardinalityType
  <2> QED BY <2>1, <2>3, <2>4 DEF Count
<1>4. ASSUME NEW k \in 1 .. m PROVE Count(ps, k) = Count(ps, k - 1) + Eats(ps[k])
  <2> DEFINE U == Used(ps, k - 1)
  <2>1. k - 1 \in 0 .. m /\ k \notin 1 .. k - 1 /\ \A i : i \in 1 .. k <=> (i \in 1 .. k - 1 \/ i = k)
    OBVIOUS
  <2>2. IsFiniteSet(U) /\ Count(ps, k - 1) \in Nat
    BY <1>3, <2>1
  <2>3. k \notin U
    BY <2>1, Zenon DEF Used
  <2>4. CASE ps[k] \in Conversions
    <3>1. Used(ps, k) = U \cup {k}
      BY <2>1, <2>4, Zenon DEF Used
    <3> HIDE DEF U
    <3>2. Cardinality(U \cup {k}) = Cardinality(U) + 1
      BY <2>2, <2>3, FS_AddElement
    <3> QED BY <2>4, <3>1, <3>2, Zenon DEF Count, Eats, U
  <2>5. CASE ps[k] \notin Conversions
    <3>1. Used(ps, k) = U
      BY <2>1, <2>5, Zenon DEF Used
    <3>2. Count(ps, k) = Count(ps, k - 1) /\ Eats(ps[k]) = 0
      BY <2>5, <3>1, Zenon DEF Count, Eats
    <3> QED BY <2>2, <3>2
  <2> QED BY <2>4, <2>5
<1> QED BY <1>2, <1>3, <1>4

(* printf, from a solution of its equation.                                *)
Shown(q, f, args) == IF q.at = Len(f) THEN q ELSE PrintTurn(f, args, q)
PrintRun(G, f, args, L) ==
  /\ L \in Nat /\ Len(f) = L /\ G = [k \in 0 .. L |-> G[k]]
  /\ G[0] = State(0, 0, <<>>) /\ \A k \in 1 .. L : G[k] = Shown(G[k - 1], f, args)
LEMMA PrintfIs ==
  ASSUME NEW f, NEW args, NEW L, NEW G, PrintRun(G, f, args, L)
  PROVE  printf(f, args) = G[L].out
<1>0. /\ L \in Nat /\ Len(f) = L /\ G = [k \in 0 .. L |-> G[k]]
      /\ G[0] = State(0, 0, <<>>) /\ \A k \in 1 .. L : G[k] = Shown(G[k - 1], f, args)
  BY Zenon DEF PrintRun
<1> DEFINE g == CHOOSE g : g = [k \in 0 .. L |-> IF k = 0 THEN State(0, 0, <<>>) ELSE Shown(g[k - 1], f, args)]
<1>1. printf(f, args) = g[L].out
  BY <1>0, Zenon DEF printf, State, Shown
<1>2. G = [k \in 0 .. L |-> IF k = 0 THEN State(0, 0, <<>>) ELSE Shown(G[k - 1], f, args)]
  <2>1. \A k \in 0 .. L : k = 0 \/ k \in 1 .. L
    BY <1>0
  <2>2. \A k \in 0 .. L : G[k] = IF k = 0 THEN State(0, 0, <<>>) ELSE Shown(G[k - 1], f, args)
    BY <1>0, <2>1, Zenon
  <2> QED BY <1>0, <2>2, Zenon
<1>3. g = [k \in 0 .. L |-> IF k = 0 THEN State(0, 0, <<>>) ELSE Shown(g[k - 1], f, args)]
  BY <1>2, Zenon
<1> HIDE DEF g
<1>4. g[0] = G[0] /\ \A k \in 1 .. L : g[k - 1] = G[k - 1] => g[k] = G[k]
  <2>1. 0 \in 0 .. L /\ \A k \in 1 .. L : k \in 0 .. L /\ k # 0
    BY <1>0
  <2>2. \A k \in 0 .. L : g[k] = IF k = 0 THEN State(0, 0, <<>>) ELSE Shown(g[k - 1], f, args)
    BY <1>3, Zenon
  <2>3. g[0] = State(0, 0, <<>>)
    BY <2>1, <2>2, Zenon
  <2>4. \A k \in 1 .. L : g[k] = Shown(g[k - 1], f, args)
    BY <2>1, <2>2, Zenon
  <2> QED BY <1>0, <2>3, <2>4, Zenon
<1>5. g[L] = G[L]
  BY <1>0, <1>4, Agree
<1> QED BY <1>1, <1>5, Zenon

Formats(ps, args) == printf(Flat(ps), args) = Expected(ps, args)

(* printf prints a format of any number of pieces piece by piece: every    *)
(* conversion prints the next argument that is left, whatever it is, a     *)
(* flag belongs to its own conversion only, and an unknown conversion      *)
(* prints nothing and takes none (lib.c:91-200).                           *)
THEOREM FormatsPrinted ==
  ASSUME NEW m \in Nat, NEW ps \in [1 .. m -> Pieces], NEW args, \A i \in 1 .. m : args[i] \in Int
  PROVE  Formats(ps, args)
<1> DEFINE arg(k) == args[1 + Count(ps, k - 1)]
           texts == [k \in 1 .. m |-> PieceText(ps[k], arg(k))]
<1>1. Len(ps) = m
  OBVIOUS
<1>2. /\ \A k \in 1 .. m : ps[k] \in Pieces
      /\ \A k \in 1 .. m : ps[k] \in Seq(Nat) /\ Len(ps[k]) >= 1
  <2>1. \A k \in 1 .. m : ps[k] \in Pieces
    BY Zenon
  <2>2. ASSUME NEW k \in 1 .. m PROVE ps[k] \in Seq(Nat) /\ Len(ps[k]) >= 1
    BY <2>1, PiecesAre, Zenon
  <2> QED BY <2>1, <2>2, Zenon
<1>3. PICK h : Joined(h, ps, m) /\ Flat(ps) = h[m]
  BY <1>1, <1>2, FlatIs
<1>4. InPlace(h, ps, m)
  BY <1>2, <1>3, JoinedPlaces
<1>5. /\ Count(ps, 0) = 0 /\ \A k \in 0 .. m : Count(ps, k) \in Nat /\ Count(ps, k) <= k
      /\ \A k \in 1 .. m : Count(ps, k) = Count(ps, k - 1) + Eats(ps[k])
  BY UsedIs
<1>6. ASSUME NEW k \in 1 .. m PROVE arg(k) \in Int
  <2>1. k - 1 \in 0 .. m
    OBVIOUS
  <2>2. Count(ps, k - 1) \in Nat /\ Count(ps, k - 1) <= k - 1
    BY <1>5, <2>1, Zenon
  <2>3. 1 + Count(ps, k - 1) \in 1 .. m
    BY <2>2
  <2> QED BY <2>3, Zenon
<1>7. \A k \in 1 .. m : PieceText(ps[k], arg(k)) \in Seq(Nat)
  <2> SUFFICES ASSUME NEW k \in 1 .. m PROVE PieceText(ps[k], arg(k)) \in Seq(Nat)
    OBVIOUS
  <2>1. arg(k) \in Int /\ ps[k] \in Pieces
    BY <1>2, <1>6, Zenon
  <2> HIDE DEF arg
  <2> QED BY <2>1, PiecesAre, Zenon
<1>8. Expected(ps, args) = Flat(texts)
  BY <1>1, Zenon DEF Expected, Count
<1> HIDE DEF arg
<1>9. Len(texts) = m /\ \A k \in 1 .. m : texts[k] = PieceText(ps[k], arg(k)) /\ texts[k] \in Seq(Nat)
  <2>1. texts \in [1 .. m -> Seq(Nat)] /\ \A k \in 1 .. m : texts[k] = PieceText(ps[k], arg(k))
    BY <1>7, Zenon
  <2> HIDE DEF texts
  <2>2. Len(texts) = m
    BY <2>1
  <2> QED BY <2>1, <2>2, Zenon
<1> HIDE DEF texts
<1>10. PICK e : Joined(e, texts, m) /\ Flat(texts) = e[m]
  BY <1>9, FlatIs
<1>11. e[0] = <<>> /\ (\A k \in 0 .. m : e[k] \in Seq(Nat)) /\ \A k \in 1 .. m : e[k] = e[k - 1] \o texts[k]
  BY <1>10, Zenon DEF Joined, JoinedOf
<1> DEFINE f == h[m]
           L == Len(f)
           S(k) == State(Len(h[k]), Count(ps, k), e[k])
           mn(k) == IF k < m THEN k ELSE m
           G == [k \in 0 .. L |-> S(mn(k))]
<1>12. /\ m <= L /\ Len(h[0]) = 0 /\ L \in Nat
       /\ \A k \in 0 .. m : Len(h[k]) \in Nat
       /\ \A k \in 1 .. m : Len(h[k]) = Len(h[k - 1]) + Len(ps[k]) /\ Len(h[k]) <= L
       /\ \A k \in 1 .. m : \A i \in 1 .. Len(ps[k]) : f[Len(h[k - 1]) + i] = ps[k][i]
  <2>1. m \in 0 .. m
    OBVIOUS
  <2> QED BY <1>4, <2>1, Zenon DEF InPlace
<1> HIDE DEF f, L
<1>13. ASSUME NEW k \in 1 .. m PROVE S(k) = Shown(S(k - 1), f, args)
  <2> DEFINE p == ps[k]
             a == Len(h[k - 1])
             c == Count(ps, k - 1)
             o == e[k - 1]
             n == Len(p)
  <2>1. k - 1 \in 0 .. m
    OBVIOUS
  <2>2. a \in Nat /\ c \in Nat /\ o \in Seq(Nat) /\ p \in Pieces /\ n >= 1 /\ p \in Seq(Nat) /\ args[1 + c] \in Int
    BY <1>2, <1>5, <1>6, <1>11, <1>12, <2>1, Zenon DEF arg
  <2>3. /\ Len(h[k]) = a + n /\ a + n <= L /\ (\A i \in 1 .. n : f[a + i] = p[i])
        /\ Count(ps, k) = c + Eats(p) /\ e[k] = o \o PieceText(p, args[1 + c])
    <3>1. Len(h[k]) = a + n /\ Len(h[k]) <= L /\ \A i \in 1 .. n : f[a + i] = p[i]
      BY <1>12, Zenon
    <3>2. Count(ps, k) = c + Eats(p)
      BY <1>5, Zenon
    <3>3. e[k] = o \o PieceText(p, args[1 + c])
      BY <1>9, <1>11, Zenon DEF arg
    <3>4. a + n <= L
      BY <3>1, Zenon
    <3> QED BY <3>1, <3>2, <3>3, <3>4, Zenon
  <2>4. S(k) = State(a + n, c + Eats(p), o \o PieceText(p, args[1 + c])) /\ S(k - 1) = State(a, c, o)
    BY <2>3, Zenon
  <2> HIDE DEF a, c, o, p
  <2>5. n \in Nat
    BY <2>2
  <2> HIDE DEF n
  <2>6. a # L
    BY <1>12, <2>2, <2>3, <2>5
  <2>7. Has(f, a, p)
    BY <1>12, <2>3, Zenon DEF Has, L, n
  <2>8. TurnPrints(f, args, a, c, o, p)
    BY <2>2, <2>7, PieceTurn, Zenon
  <2>9. State(a, c, o).at = a
    BY DEF State
  <2>10. Shown(State(a, c, o), f, args) = PrintTurn(f, args, State(a, c, o))
    BY <2>6, <2>9, Zenon DEF Shown, L
  <2> HIDE DEF S
  <2> QED BY <2>4, <2>8, <2>10, Zenon DEF TurnPrints, n
<1>14. Shown(S(m), f, args) = S(m)
  <2>1. S(m).at = L
    BY DEF State, L, f
  <2> QED BY <2>1, Zenon DEF Shown, L
<1>15. S(0) = State(0, 0, <<>>)
  BY <1>5, <1>11, <1>12, Zenon
<1> HIDE DEF S
<1>16. mn(0) = 0
  OBVIOUS
<1>17. G = [k \in 0 .. L |-> G[k]] /\ \A k \in 0 .. L : G[k] = S(mn(k))
  BY Zenon
<1>18. \A k \in 1 .. L : /\ k \in 0 .. L /\ k - 1 \in 0 .. L
                         /\ (mn(k) = k /\ mn(k - 1) = k - 1 /\ k \in 1 .. m) \/ (mn(k) = m /\ mn(k - 1) = m)
  BY <1>12
<1>19. mn(L) = m /\ L \in 0 .. L /\ 0 \in 0 .. L
  BY <1>12
<1> HIDE DEF G, mn
<1>20. ASSUME NEW k \in 1 .. L PROVE G[k] = Shown(G[k - 1], f, args)
  <2>1. G[k] = S(mn(k)) /\ G[k - 1] = S(mn(k - 1))
    BY <1>17, <1>18, Zenon
  <2>2. CASE mn(k) = k /\ mn(k - 1) = k - 1 /\ k \in 1 .. m
    BY <1>13, <2>1, <2>2, Zenon
  <2>3. CASE mn(k) = m /\ mn(k - 1) = m
    BY <1>14, <2>1, <2>3, Zenon
  <2> QED BY <1>18, <2>2, <2>3, Zenon
<1>21. G[0] = State(0, 0, <<>>)
  BY <1>15, <1>16, <1>17, <1>19, Zenon
<1>22. printf(f, args) = G[L].out
  <2>1. Len(f) = L /\ L \in Nat /\ G = [k \in 0 .. L |-> G[k]]
    BY <1>12, <1>17, Zenon DEF L
  <2>2. PrintRun(G, f, args, L)
    BY <1>20, <1>21, <2>1, Zenon DEF PrintRun
  <2> QED BY <2>2, PrintfIs, Zenon
<1>23. G[L].out = e[m]
  <2>1. G[L] = S(m)
    BY <1>17, <1>19, Zenon
  <2>2. S(m).out = e[m]
    BY DEF S, State
  <2> QED BY <2>1, <2>2, Zenon
<1> QED BY <1>3, <1>8, <1>10, <1>22, <1>23, Zenon DEF Formats, f

(* Every number and every format is printed as PrintfRight says, for every *)
(* width of an int (lib.c:91-200, 334-367).                                *)
THEOREM PrintfAlways == input \in LibraryInputs => PrintfRight
<1> SUFFICES ASSUME input \in LibraryInputs PROVE PrintfRight
  OBVIOUS
<1>1. ASSUME input.kind = "number" PROVE input.v \in 0 .. Top - 1
  BY <1>1 DEF LibraryInputs, StringInputs, Areas, Commands
<1>2. ASSUME input.kind = "format" PROVE \E n \in 0 .. 3 : input.ps \in [1 .. n -> Pieces]
  BY <1>2 DEF LibraryInputs, StringInputs, Areas, Commands
<1>3. NumberRight
  <2> SUFFICES ASSUME input.kind = "number" PROVE NumberRight
    BY Zenon DEF NumberRight
  <2>1. Prints(input.v, IF input.v < Top \div 2 THEN input.v ELSE input.v - Top)
    BY <1>1, NumbersPrinted
  <2> QED BY <2>1, Zenon DEF NumberRight, Prints
<1>4. FormatRight
  <2> SUFFICES ASSUME input.kind = "format" PROVE FormatRight
    BY Zenon DEF FormatRight
  <2>1. PICK n \in 0 .. 3 : input.ps \in [1 .. n -> Pieces]
    BY <1>2
  <2>2. n \in Nat
    OBVIOUS
  <2>3. \A i \in 1 .. n : Arguments[i] \in Int
    <3>1. Arguments[1] \in Int /\ Arguments[2] \in Int /\ Arguments[3] \in Int
      BY DEF Arguments
    <3>2. \A i \in 1 .. n : i = 1 \/ i = 2 \/ i = 3
      OBVIOUS
    <3> QED BY <3>1, <3>2, Zenon
  <2>4. Formats(input.ps, Arguments)
    BY <2>1, <2>2, <2>3, FormatsPrinted, Zenon
  <2> QED BY <2>4, Zenon DEF FormatRight, Formats
<1> QED BY <1>3, <1>4, Zenon DEF PrintfRight
-----------------------------------------------------------------------------
(* grep.  Its buffer holds bytes.                                          *)
IsData(d) == d \in [1 .. GrepBuf + 1 -> 0 .. 255]
LEMMA DataIs ==
  ASSUME NEW d, IsData(d)
  PROVE  /\ d \in Seq(Nat) /\ Len(d) = GrepBuf + 1 /\ Buffer(d, GrepBuf + 1)
         /\ GrepBuf \in Nat /\ GrepBuf >= 1
<1>1. GrepBuf \in Nat /\ GrepBuf >= 1
  BY GrepAssumption
<1>2. d \in [1 .. GrepBuf + 1 -> 0 .. 255]
  BY DEF IsData
<1>3. \A x \in 0 .. 255 : x \in Nat
  OBVIOUS
<1>4. d \in [1 .. GrepBuf + 1 -> Nat]
  BY <1>2, <1>3, Zenon
<1>5. d \in Seq(Nat) /\ Len(d) = GrepBuf + 1
  BY <1>1, <1>4
<1>6. Buffer(d, GrepBuf + 1)
  BY <1>1, <1>2 DEF Buffer
<1> QED BY <1>1, <1>5, <1>6

(* The buffer after a read of c bytes at place p of the file behind l      *)
(* bytes that were kept.                                                   *)
Refilled(d, f, p, l, c) == SubSeq(d, 1, l) \o SubSeq(f, p + 1, p + c) \o SubSeq(d, l + c + 1, GrepBuf + 1)
RefilledRight(d, f, p, l, c) ==
  /\ IsData(Refilled(d, f, p, l, c))
  /\ \A i \in 1 .. GrepBuf + 1 :
       Refilled(d, f, p, l, c)[i] = IF l < i /\ i <= l + c THEN f[p + (i - l)] ELSE d[i]
LEMMA RefilledIs ==
  ASSUME NEW d, IsData(d), NEW f, NEW n, IsText(f, n), NEW p \in Nat, NEW l \in Nat, NEW c \in Nat,
         p + c <= n, l + c <= GrepBuf
  PROVE  RefilledRight(d, f, p, l, c)
<1>1. /\ d \in Seq(Nat) /\ Len(d) = GrepBuf + 1 /\ GrepBuf \in Nat
      /\ f \in Seq(Nat) /\ Len(f) = n /\ n \in Nat
  BY DataIs DEF IsText
<1> DEFINE x == SubSeq(d, 1, l)
           y == SubSeq(f, p + 1, p + c)
           z == SubSeq(d, l + c + 1, GrepBuf + 1)
           w == Refilled(d, f, p, l, c)
<1>2. x \in Seq(Nat) /\ Len(x) = l /\ \A i \in 1 .. l : x[i] = d[i]
  BY <1>1
<1>3. y \in Seq(Nat) /\ Len(y) = c /\ \A i \in 1 .. c : y[i] = f[p + i]
  BY <1>1
<1>4. z \in Seq(Nat) /\ Len(z) = GrepBuf + 1 - (l + c) /\ \A i \in 1 .. Len(z) : z[i] = d[l + c + i]
  BY <1>1
<1>5. w = x \o y \o z
  BY DEF Refilled
<1> HIDE DEF x, y, z, w
<1> DEFINE v == x \o y
<1>6. v \in Seq(Nat) /\ Len(v) = l + c /\ \A i \in 1 .. l + c : v[i] = IF i <= l THEN d[i] ELSE f[p + (i - l)]
  <2>1. Concat(x, y, v)
    BY <1>2, <1>3, ConcatIs
  <2>2. v \in Seq(Nat)
    BY <1>2, <1>3
  <2> HIDE DEF v
  <2>3. Len(v) = l + c /\ (\A i \in 1 .. l : v[i] = d[i]) /\ \A i \in 1 .. c : v[l + i] = f[p + i]
    BY <1>2, <1>3, <2>1 DEF Concat
  <2>4. \A i \in 1 .. l + c : ~(i <= l) => i - l \in 1 .. c /\ l + (i - l) = i
    OBVIOUS
  <2>5. \A i \in 1 .. l + c : i <= l => i \in 1 .. l
    OBVIOUS
  <2> QED BY <2>2, <2>3, <2>4, <2>5, Zenon
<1>7. w = v \o z
  BY <1>5
<1> HIDE DEF v
<1>71. Concat(v, z, w)
  BY <1>4, <1>6, <1>7, ConcatIs
<1>8. w \in Seq(Nat) /\ Len(w) = GrepBuf + 1
  <2>1. w \in Seq(Nat)
    BY <1>4, <1>6, <1>7
  <2> QED BY <1>1, <1>4, <1>6, <1>71, <2>1 DEF Concat
<1>9. \A i \in 1 .. l + c : w[i] = v[i]
  BY <1>6, <1>71 DEF Concat
<1>10. \A i \in l + c + 1 .. GrepBuf + 1 : w[i] = d[i]
  <2> TAKE i \in l + c + 1 .. GrepBuf + 1
  <2>1. w[i] = z[i - (l + c)] /\ i - (l + c) \in 1 .. Len(z)
    <3>1. i - (l + c) \in 1 .. Len(z) /\ (l + c) + (i - (l + c)) = i
      BY <1>1, <1>4
    <3> QED BY <1>6, <1>71, <3>1, Zenon DEF Concat
  <2>2. z[i - (l + c)] = d[l + c + (i - (l + c))] /\ l + c + (i - (l + c)) = i
    BY <1>1, <1>4, <2>1
  <2> QED BY <2>1, <2>2
<1>11. \A i \in 1 .. GrepBuf + 1 : w[i] = IF l < i /\ i <= l + c THEN f[p + (i - l)] ELSE d[i]
  BY <1>1, <1>6, <1>9, <1>10
<1>12. \A i \in 1 .. GrepBuf + 1 : w[i] \in 0 .. 255
  <2> TAKE i \in 1 .. GrepBuf + 1
  <2>1. d[i] \in 0 .. 255
    BY Zenon DEF IsData
  <2>2. CASE l < i /\ i <= l + c
    <3>1. p + (i - l) \in 1 .. n
      BY <1>1, <2>2
    <3>2. f[p + (i - l)] \in 1 .. 255
      BY <3>1, Zenon DEF IsText
    <3> QED BY <1>11, <2>2, <3>2
  <2>3. CASE ~(l < i /\ i <= l + c)
    BY <1>11, <2>1, <2>3
  <2> QED BY <2>2, <2>3
<1>13. IsData(w)
  <2>1. w = [i \in 1 .. GrepBuf + 1 |-> w[i]]
    BY <1>8
  <2> QED BY <1>12, <2>1, Zenon DEF IsData
<1> QED BY <1>11, <1>13, Zenon DEF RefilledRight, w

(* The buffer with a 0 at e.                                               *)
Cut(d, e) == [d EXCEPT ![e + 1] = NUL]
CutRight(d, e) ==
  /\ IsData(Cut(d, e)) /\ Cut(d, e)[e + 1] = 0
  /\ \A i \in 1 .. GrepBuf + 1 : i # e + 1 => Cut(d, e)[i] = d[i]
LEMMA CutIs ==
  ASSUME NEW d, IsData(d), NEW e \in 0 .. GrepBuf
  PROVE  CutRight(d, e)
<1>1. d \in [1 .. GrepBuf + 1 -> 0 .. 255] /\ GrepBuf \in Nat
  BY DataIs, Zenon DEF IsData
<1>2. e + 1 \in 1 .. GrepBuf + 1 /\ 0 \in 0 .. 255
  BY <1>1
<1> QED BY <1>1, <1>2 DEF CutRight, Cut, NUL, IsData

(* The line from start on ends at e.                                       *)
IsEnd(d, start, last, e) ==
  /\ e \in start .. last
  /\ e = last \/ d[e + 1] = NL
  /\ \A i \in start .. e - 1 : d[i + 1] # NL
LEMMA LineEnds ==
  ASSUME NEW d, NEW start \in Nat, NEW last \in Nat, start <= last
  PROVE  IsEnd(d, start, last, LineEnd(d, start, last))
<1> DEFINE S == {e \in start .. last : e = last \/ d[e + 1] = NL}
           P(e) == /\ e = last \/ Dec(d, e) = NL
                   /\ \A i \in start .. e - 1 : Dec(d, i) # NL
<1>1. S \in SUBSET Nat /\ last \in S
  OBVIOUS
<1>2. PICK e \in S : \A k \in S : e <= k
  <2> HIDE DEF S
  <2> QED BY <1>1, Least
<1>3. e \in start .. last /\ P(e)
  <2>1. \A i \in start .. e - 1 : ~(e <= i) /\ i \in start .. last
    OBVIOUS
  <2>2. \A i \in start .. e - 1 : d[i + 1] # NL
    BY <1>2, <2>1, Zenon
  <2> QED BY <1>2, <2>2, Zenon DEF Dec
<1> DEFINE x == CHOOSE e_1 \in start .. last : P(e_1)
<1>4. x \in start .. last /\ P(x)
  <2> HIDE DEF P
  <2> QED BY <1>3, Zenon
<1>5. LineEnd(d, start, last) = x
  BY Zenon DEF LineEnd
<1> QED BY <1>4, <1>5, Zenon DEF IsEnd, Dec

(* A string in the buffer, from a up to its 0 at e.                        *)
Closed(d, a, e) ==
  /\ IsData(d) /\ a \in Nat /\ e \in Nat /\ a <= e /\ e <= GrepBuf
  /\ d[e + 1] = 0 /\ \A i \in a + 1 .. e : d[i] # 0
FromRight(d, a) ==
  /\ From(d, a) \in Seq(Nat) /\ Len(From(d, a)) = GrepBuf + 1 - a
  /\ \A i \in 1 .. GrepBuf + 1 - a : From(d, a)[i] = d[a + i]
LEMMA FromIs ==
  ASSUME NEW d, IsData(d), NEW a \in Nat, a <= GrepBuf
  PROVE  FromRight(d, a)
<1>1. d \in Seq(Nat) /\ Len(d) = GrepBuf + 1 /\ GrepBuf \in Nat
  BY DataIs
<1> QED BY <1>1 DEF FromRight, From

LEMMA FromLength ==
  ASSUME NEW d, NEW a, NEW e, Closed(d, a, e)
  PROVE  strlen(From(d, a)) = e - a
<1>1. /\ IsData(d) /\ a \in Nat /\ e \in Nat /\ a <= e /\ e <= GrepBuf
      /\ d[e + 1] = 0 /\ \A i \in a + 1 .. e : d[i] # 0
  BY DEF Closed
<1>2. GrepBuf \in Nat
  BY <1>1, DataIs
<1> DEFINE s == From(d, a)
           N == e - a
           R == GrepBuf - a
           P(i) == s[i + 1] = 0 /\ \A j \in 0 .. i - 1 : s[j + 1] # 0
           x == CHOOSE i \in 0 .. R : P(i)
<1>3. Len(s) = R + 1 /\ N \in Nat /\ R \in Nat /\ N <= R /\ \A i \in 0 .. R : s[i + 1] = d[a + i + 1]
  <2>1. FromRight(d, a)
    BY <1>1, <1>2, FromIs, SMT
  <2> HIDE DEF s
  <2>2. Len(s) = GrepBuf + 1 - a /\ \A i \in 1 .. GrepBuf + 1 - a : s[i] = d[a + i]
    BY <2>1, Zenon DEF FromRight, s
  <2>3. \A i \in 0 .. R : i + 1 \in 1 .. GrepBuf + 1 - a /\ a + (i + 1) = a + i + 1
    BY <1>1, <1>2
  <2> QED BY <1>1, <1>2, <2>2, <2>3
<1> HIDE DEF s
<1>4. strlen(s) = x
  <2>1. Len(s) - 1 = R
    BY <1>3
  <2> HIDE DEF R
  <2> QED BY <2>1, Zenon DEF strlen, Dec, NUL
<1>5. N \in 0 .. R /\ P(N)
  <2>1. a + N + 1 = e + 1 /\ N \in 0 .. R
    BY <1>1, <1>3
  <2>2. \A j \in 0 .. N - 1 : j \in 0 .. R /\ a + j + 1 \in a + 1 .. e
    BY <1>1, <1>2, <1>3
  <2> QED BY <1>1, <1>3, <2>1, <2>2
<1>6. x \in 0 .. R /\ P(x)
  <2> HIDE DEF P
  <2> QED BY <1>5, Zenon
<1> HIDE DEF x
<1>7. x = N
  <2> HIDE DEF N, R
  <2> QED BY <1>3, <1>5, <1>6
<1> QED BY <1>4, <1>7 DEF s

(* ece391_strcpy moves the string to the front of its own buffer.          *)
Front(d, a) == strcpy(d, From(d, a))
FrontRight(d, a, e) ==
  /\ IsData(Front(d, a))
  /\ \A x \in 1 .. GrepBuf + 1 : Front(d, a)[x] = IF x <= (e - a) + 1 THEN d[a + x] ELSE d[x]
LEMMA FrontIs ==
  ASSUME NEW d, NEW a, NEW e, Closed(d, a, e)
  PROVE  FrontRight(d, a, e)
<1>1. /\ IsData(d) /\ a \in Nat /\ e \in Nat /\ a <= e /\ e <= GrepBuf /\ d[e + 1] = 0
  BY DEF Closed
<1>2. GrepBuf \in Nat /\ Buffer(d, GrepBuf + 1)
  BY <1>1, DataIs
<1> DEFINE s == From(d, a)
           N == e - a
           L == GrepBuf + 1
<1>3. L \in Nat /\ N \in Nat /\ N <= L /\ N + 1 <= L /\ N + 1 \in Nat /\ 0 \in Nat /\ 0 < N + 1 /\ (N + 1) - 1 = N
  BY <1>1, <1>2
<1>4. s[N + 1] = 0 /\ \A x \in 1 .. N + 1 : s[x] = d[a + x]
  <2>1. FromRight(d, a)
    BY <1>1, <1>2, FromIs, SMT
  <2>2. \A x \in 1 .. N + 1 : x \in 1 .. GrepBuf + 1 - a
    BY <1>1, <1>2
  <2>3. N + 1 \in 1 .. N + 1 /\ a + (N + 1) = e + 1
    BY <1>1
  <2> HIDE DEF N
  <2> QED BY <1>1, <2>1, <2>2, <2>3, Zenon DEF FromRight
<1>5. strlen(s) = N
  BY FromLength, Zenon
<1> HIDE DEF s, N, L
<1>6. Buffer(d, L)
  BY <1>2 DEF L
<1>7. CopyLoop(d, s, N) = Taken(d, L, s, 0, N)
  BY <1>3, <1>6, CopyLoopIs
<1>8. Takes(d, L, s, 0, N + 1)
  BY <1>3, TakeTurn, Zenon
<1>9. strcpy(d, s) = Taken(d, L, s, 0, N + 1)
  <2>1. strcpy(d, s) = [CopyLoop(d, s, N) EXCEPT ![N + 1] = 0]
    BY <1>5, Zenon DEF strcpy, NUL
  <2>2. Taken(d, L, s, 0, N + 1) = [Taken(d, L, s, 0, N) EXCEPT ![N + 1] = 0]
    BY <1>3, <1>4, <1>8, Zenon DEF Takes
  <2> QED BY <1>7, <2>1, <2>2, Zenon
<1>10. \A x \in 1 .. L : (0 < x /\ x <= N + 1) <=> x <= N + 1
  BY <1>3
<1>11. \A x \in 1 .. L : x <= N + 1 => x \in 1 .. N + 1
  BY <1>3
<1> DEFINE r == [x \in 1 .. L |-> IF x <= N + 1 THEN d[a + x] ELSE d[x]]
<1>12. strcpy(d, s) = r
  <2>1. strcpy(d, s) = [x \in 1 .. L |-> IF x <= N + 1 THEN s[x] ELSE d[x]]
    BY <1>9, <1>10, Zenon DEF Taken
  <2>2. \A x \in 1 .. L : (IF x <= N + 1 THEN s[x] ELSE d[x]) = (IF x <= N + 1 THEN d[a + x] ELSE d[x])
    BY <1>4, <1>11, Zenon
  <2> QED BY <2>1, <2>2, Zenon
<1>13. Front(d, a) = r
  BY <1>12, Zenon DEF Front, s
<1>14. \A x \in 1 .. L : r[x] \in 0 .. 255
  <2> TAKE x \in 1 .. L
  <2>1. d \in [1 .. L -> 0 .. 255]
    BY <1>1, Zenon DEF IsData, L
  <2>2. x <= N + 1 => a + x \in 1 .. L
    BY <1>1, <1>2 DEF L, N
  <2> QED BY <2>1, <2>2, Zenon
<1>15. r \in [1 .. L -> 0 .. 255]
  BY <1>14, Zenon
<1> QED BY <1>13, <1>15, Zenon DEF FrontRight, IsData, L, N

(* What is printed of the line: the part of the file it was read from.     *)
LEMMA SameLine ==
  ASSUME NEW d, IsData(d), NEW f, NEW n, IsText(f, n), NEW a \in Nat, NEW e \in Nat, NEW b \in Nat,
         a <= e, e <= GrepBuf, b + e <= n, \A i \in a + 1 .. e : d[i] = f[b + i]
  PROVE  SubSeq(d, a + 1, e) = SubSeq(f, b + a + 1, b + e)
<1>1. /\ d \in Seq(Nat) /\ Len(d) = GrepBuf + 1 /\ GrepBuf \in Nat
      /\ f \in Seq(Nat) /\ Len(f) = n /\ n \in Nat
  BY DataIs DEF IsText
<1> DEFINE x == SubSeq(d, a + 1, e)
           y == SubSeq(f, b + a + 1, b + e)
           N == e - a
<1>2. N \in Nat /\ x \in Seq(Nat) /\ Len(x) = N /\ \A i \in 1 .. N : x[i] = d[a + i]
  BY <1>1
<1>3. y \in Seq(Nat) /\ Len(y) = N /\ \A i \in 1 .. N : y[i] = f[b + a + i]
  BY <1>1
<1>4. \A i \in 1 .. N : a + i \in a + 1 .. e /\ b + (a + i) = b + a + i
  BY <1>1
<1> HIDE DEF x, y, N
<1>5. \A i \in 1 .. N : x[i] = y[i]
  BY <1>2, <1>3, <1>4, Zenon
<1>6. x = [i \in 1 .. N |-> x[i]] /\ y = [i \in 1 .. N |-> y[i]]
  BY <1>2, <1>3
<1>7. x = y
  BY <1>5, <1>6, Zenon
<1> QED BY <1>7 DEF x, y

(* The text t of m characters is at c in x.                                *)
At(x, c, t, m) == \A j \in 1 .. m : x[c + j] = t[j]
Matched(d, c, t, m) == ece391_strncmp(From(d, c), CString(t), m) = 0
LEMMA Compared ==
  ASSUME NEW d, NEW a, NEW e, Closed(d, a, e), NEW t, NEW m \in Nat \ {0}, IsText(t, m), NEW c \in a .. e - 1
  PROVE  Matched(d, c, t, m) <=> c + m <= e /\ At(d, c, t, m)
<1>1. /\ IsData(d) /\ a \in Nat /\ e \in Nat /\ a <= e /\ e <= GrepBuf
      /\ d[e + 1] = 0 /\ \A i \in a + 1 .. e : d[i] # 0
  BY DEF Closed
<1>2. GrepBuf \in Nat /\ c \in Nat /\ c <= GrepBuf /\ e <= GrepBuf
  BY <1>1, DataIs, SMT
<1> DEFINE u == From(d, c)
           s == CString(t)
           R == GrepBuf - c
           w == e - c
           Halts(i) == (u[i + 1] # s[i + 1] \/ u[i + 1] = 0) \/ i + 1 = m
           P(i) == Halts(i) /\ \A j \in 0 .. i - 1 : ~Halts(j)
           x == CHOOSE i \in 0 .. R : P(i)
<1>3. Holds(s, t, m)
  BY CStringHolds, Zenon
<1>4. m \in Nat /\ m # 0 /\ s[m + 1] = 0 /\ \A j \in 0 .. m - 1 : s[j + 1] = t[j + 1] /\ s[j + 1] # 0 /\ s[j + 1] \in Nat
  <2>1. s[m + 1] = 0 /\ \A j \in 0 .. m - 1 : s[j + 1] = t[j + 1] /\ s[j + 1] \in 1 .. 255
    BY <1>3, Zenon DEF Holds
  <2>2. \A y \in 1 .. 255 : y # 0 /\ y \in Nat
    OBVIOUS
  <2> QED BY <2>1, <2>2, Zenon
<1>5. Len(u) - 1 = R /\ R \in Nat /\ w \in 0 .. R /\ u[w + 1] = 0 /\ (\A i \in 0 .. R : u[i + 1] = d[c + i + 1] /\ u[i + 1] \in Nat)
  <2>1. FromRight(d, c)
    BY <1>1, <1>2, FromIs, Zenon
  <2> HIDE DEF u
  <2>2. u \in Seq(Nat) /\ Len(u) = GrepBuf + 1 - c /\ \A i \in 1 .. GrepBuf + 1 - c : u[i] = d[c + i]
    BY <2>1, Zenon DEF FromRight, u
  <2>3. \A i \in 0 .. R : i + 1 \in 1 .. GrepBuf + 1 - c /\ c + (i + 1) = c + i + 1
    BY <1>1, <1>2
  <2>4. R \in Nat /\ w \in 0 .. R /\ c + w + 1 = e + 1 /\ Len(u) - 1 = R
    BY <1>1, <1>2, <2>2
  <2>5. \A i \in 0 .. R : u[i + 1] = d[c + i + 1] /\ u[i + 1] \in Nat
    BY <2>2, <2>3
  <2> QED BY <1>1, <2>4, <2>5
<1> HIDE DEF u, s, w, R
<1>6. ece391_strncmp(u, s, m) = u[x + 1] - s[x + 1]
  BY <1>4, <1>5, Zenon DEF ece391_strncmp, ece391_from, Parts, Dec, NUL
<1>7. \E i \in 0 .. R : P(i)
  <2> DEFINE S == {i \in 0 .. R : Halts(i)}
  <2>1. S \in SUBSET Nat /\ w \in S
    BY <1>5
  <2>2. PICK i \in S : \A k \in S : i <= k
    <3> HIDE DEF S
    <3> QED BY <2>1, Least
  <2>3. i \in 0 .. R /\ Halts(i)
    OBVIOUS
  <2>4. \A j \in 0 .. i - 1 : j \in 0 .. R /\ ~(i <= j)
    BY <1>5, <2>3
  <2>5. \A j \in 0 .. i - 1 : ~Halts(j)
    BY <2>2, <2>4, Zenon
  <2> QED BY <2>3, <2>5, Zenon
<1>8. x \in 0 .. R /\ P(x)
  <2> HIDE DEF P
  <2> QED BY <1>7, Zenon
<1> HIDE DEF x
<1>9. x <= m - 1
  <2>1. SUFFICES ASSUME ~(x <= m - 1) PROVE FALSE
    OBVIOUS
  <2>2. m - 1 \in 0 .. x - 1 /\ (m - 1) + 1 = m
    BY <1>4, <1>8, <2>1
  <2> QED BY <1>8, <2>2
<1>10. x \in 0 .. m - 1 /\ s[x + 1] \in Nat /\ u[x + 1] \in Nat
  BY <1>4, <1>5, <1>8, <1>9
<1>11. ASSUME u[x + 1] = s[x + 1] PROVE x + 1 = m
  <2>1. u[x + 1] # 0
    BY <1>4, <1>10, <1>11
  <2> QED BY <1>8, <1>11, <2>1
<1>12. ASSUME u[x + 1] = s[x + 1] PROVE c + m <= e /\ At(d, c, t, m)
  <2>1. x + 1 = m /\ m - 1 \in 0 .. R
    BY <1>8, <1>11, <1>12
  <2>2. \A j \in 0 .. m - 1 : j \in 0 .. R /\ (j = x \/ j \in 0 .. x - 1)
    BY <1>4, <1>5, <1>8, <2>1
  <2>3. \A j \in 0 .. m - 1 : u[j + 1] = s[j + 1]
    BY <1>8, <1>12, <2>2, Zenon
  <2>4. \A j \in 1 .. m : j - 1 \in 0 .. m - 1 /\ (j - 1) + 1 = j /\ c + (j - 1) + 1 = c + j
    BY <1>2, <1>4
  <2>5. \A j \in 0 .. m - 1 : d[c + j + 1] = t[j + 1]
    BY <1>4, <1>5, <2>2, <2>3, Zenon
  <2>6. At(d, c, t, m)
    BY <2>4, <2>5 DEF At
  <2>7. c + m <= e
    <3> SUFFICES ASSUME ~(c + m <= e) PROVE FALSE
      OBVIOUS
    <3>1. w \in 0 .. m - 1
      BY <1>1, <1>2, <1>4 DEF w
    <3> QED BY <1>4, <1>5, <2>3, <3>1
  <2> QED BY <2>6, <2>7
<1>13. ASSUME c + m <= e, At(d, c, t, m) PROVE u[x + 1] = s[x + 1]
  <2>1. x + 1 \in 1 .. m /\ c + x + 1 = c + (x + 1)
    BY <1>2, <1>4, <1>10
  <2>2. d[c + (x + 1)] = t[x + 1]
    BY <1>13, <2>1, Zenon DEF At
  <2> QED BY <1>4, <1>5, <1>8, <1>10, <2>1, <2>2
<1>14. (u[x + 1] - s[x + 1] = 0) <=> u[x + 1] = s[x + 1]
  BY <1>10
<1> QED BY <1>6, <1>12, <1>13, <1>14, Zenon DEF Matched, u, s

Hits(x, t, m, a, e) == \E c \in a .. e - m : At(x, c, t, m)
LEMMA Searches ==
  ASSUME NEW d, NEW a, NEW e, Closed(d, a, e), NEW t, NEW m \in Nat \ {0}, IsText(t, m)
  PROVE  SearchesIn(CString(t), d, a, e) <=> Hits(d, t, m, a, e)
<1>1. a \in Nat /\ e \in Nat
  BY DEF Closed
<1> DEFINE s == CString(t)
<1>2. Holds(s, t, m)
  BY CStringHolds, Zenon
<1>3. strlen(s) = m
  BY <1>2, StrlenIs, Zenon
<1>4. \A c \in a .. e - 1 : Matched(d, c, t, m) <=> c + m <= e /\ At(d, c, t, m)
  BY Compared
<1>5. s[1] = t[1]
  <2>1. 0 \in 0 .. m - 1 /\ 0 + 1 = 1
    OBVIOUS
  <2>2. s[0 + 1] = t[0 + 1]
    BY <1>2, <2>1, Zenon DEF Holds
  <2> QED BY <2>1, <2>2
<1>6. \A c \in a .. e - 1 : At(d, c, t, m) => s[1] = d[c + 1]
  <2>1. 1 \in 1 .. m
    OBVIOUS
  <2> QED BY <1>5, <2>1, Zenon DEF At
<1>7. \A c : c \in a .. e - m <=> c \in a .. e - 1 /\ c + m <= e
  BY <1>1
<1>8. SearchesIn(s, d, a, e) <=> \E c \in a .. e - 1 : s[1] = d[c + 1] /\ Matched(d, c, t, m)
  <2>1. 0 + 1 = 1
    OBVIOUS
  <2> QED BY <1>3, <2>1, SMT DEF SearchesIn, Dec, Matched
<1> HIDE DEF s
<1>9. SearchesIn(s, d, a, e) <=> \E c \in a .. e - 1 : c + m <= e /\ At(d, c, t, m)
  BY <1>4, <1>6, <1>8, Zenon
<1> QED BY <1>7, <1>9, Zenon DEF Hits, s

(* Line a .. b of the file of n bytes: behind a, up to a newline behind b. *)
IsLine(f, n, a, b) ==
  /\ a \in Nat /\ b \in Nat /\ a <= b /\ b <= n
  /\ a = 0 \/ f[a] = NL
  /\ b = n \/ f[b + 1] = NL
  /\ \A i \in a + 1 .. b : f[i] # NL
Begins(f, b, e) == (b = 0 \/ f[b] = NL) /\ \A i \in b + 1 .. e - 1 : f[i] # NL
LEMMA LineAtIs ==
  ASSUME NEW f, NEW e \in Nat \ {0}
  PROVE  \E b \in 0 .. e - 1 : Begins(f, b, e) /\ LineAt(f, e) = SubSeq(f, b + 1, e - 1)
<1> DEFINE S == {k \in 0 .. e - 1 : (e - 1) - k = 0 \/ f[(e - 1) - k] = NL}
           x == CHOOSE b \in 0 .. e - 1 : Begins(f, b, e)
<1>1. S \in SUBSET Nat /\ e - 1 \in S
  OBVIOUS
<1>2. PICK k \in S : \A j \in S : k <= j
  <2> HIDE DEF S
  <2> QED BY <1>1, Least
<1> DEFINE y == (e - 1) - k
<1>3. y \in 0 .. e - 1 /\ (y = 0 \/ f[y] = NL)
  OBVIOUS
<1>4. ASSUME NEW i \in y + 1 .. e - 1 PROVE f[i] # NL
  <2>1. (e - 1) - i \in 0 .. e - 1 /\ ~(k <= (e - 1) - i) /\ (e - 1) - ((e - 1) - i) = i
    OBVIOUS
  <2> QED BY <1>2, <2>1
<1>5. Begins(f, y, e)
  BY <1>3, <1>4 DEF Begins
<1>6. x \in 0 .. e - 1 /\ Begins(f, x, e)
  <2> HIDE DEF y
  <2> QED BY <1>3, <1>5, Zenon
<1>7. LineAt(f, e) = SubSeq(f, x + 1, e - 1)
  BY Zenon DEF LineAt, Begins
<1> QED BY <1>6, <1>7, Zenon

LEMMA LineHas ==
  ASSUME NEW f, NEW n, IsText(f, n), NEW t, NEW m \in Nat \ {0}, IsText(t, m), NEW a \in Nat, NEW b \in Nat,
         a <= b, b <= n
  PROVE  Contains(SubSeq(f, a + 1, b), t) <=> Hits(f, t, m, a, b)
<1>1. f \in Seq(Nat) /\ Len(f) = n /\ n \in Nat /\ Len(t) = m
  BY DEF IsText
<1> DEFINE l == SubSeq(f, a + 1, b)
<1>2. Len(l) = b - a /\ \A i \in 1 .. b - a : l[i] = f[a + i]
  BY <1>1
<1> HIDE DEF l
<1>3. ASSUME NEW i \in 0 .. (b - a) - m PROVE (\A j \in 1 .. m : l[i + j] = t[j]) <=> At(f, a + i, t, m)
  <2>1. \A j \in 1 .. m : i + j \in 1 .. b - a /\ a + (i + j) = (a + i) + j
    OBVIOUS
  <2> QED BY <1>2, <2>1, Zenon DEF At
<1>4. Contains(l, t) <=> \E i \in 0 .. (b - a) - m : At(f, a + i, t, m)
  BY <1>1, <1>2, <1>3, Zenon DEF Contains
<1>5. \A i \in 0 .. (b - a) - m : a + i \in a .. b - m
  OBVIOUS
<1>6. \A c \in a .. b - m : c - a \in 0 .. (b - a) - m /\ a + (c - a) = c
  OBVIOUS
<1>7. (\E i \in 0 .. (b - a) - m : At(f, a + i, t, m)) <=> \E c \in a .. b - m : At(f, c, t, m)
  BY <1>5, <1>6, Zenon
<1> QED BY <1>4, <1>7, Zenon DEF Hits, l

(* What is found up to each place of the file.                             *)
FoundAt(f, t, e) ==
  IF (e = Len(f) + 1 \/ f[e] = NL) /\ Contains(LineAt(f, e), t) THEN <<LineAt(f, e)>> ELSE <<>>
Finds(h, f, t, n) == JoinedOf(h, [e \in 1 .. n + 1 |-> FoundAt(f, t, e)], n + 1, Seq(Nat))
LEMMA FindsIs ==
  ASSUME NEW f, NEW n, IsText(f, n), NEW t
  PROVE  \E h : Finds(h, f, t, n) /\ Found(f, t) = h[n + 1]
<1>1. f \in Seq(Nat) /\ Len(f) = n /\ n \in Nat
  BY DEF IsText
<1> DEFINE V == Seq(Nat)
           s == [e \in 1 .. n + 1 |-> FoundAt(f, t, e)]
<1>2. ASSUME NEW e \in 1 .. n + 1 PROVE FoundAt(f, t, e) \in Seq(V)
  <2>1. PICK b \in 0 .. e - 1 : LineAt(f, e) = SubSeq(f, b + 1, e - 1)
    <3>1. e \in Nat \ {0}
      BY <1>1
    <3> QED BY <3>1, LineAtIs, Zenon
  <2>2. SubSeq(f, b + 1, e - 1) \in Seq(Nat)
    BY <1>1
  <2>3. LineAt(f, e) \in V
    BY <2>1, <2>2
  <2> HIDE DEF V
  <2>4. <<LineAt(f, e)>> \in Seq(V) /\ <<>> \in Seq(V)
    BY <2>3
  <2> QED BY <2>4, Zenon DEF FoundAt
<1> HIDE DEF V
<1>3. s \in [1 .. n + 1 -> Seq(V)] /\ n + 1 \in Nat
  BY <1>1, <1>2
<1>4. \A k \in 1 .. n + 1 : s[k] \in Seq(V)
  BY <1>3, Zenon
<1>5. Found(f, t) = Flat(s)
  BY <1>1, Zenon DEF Found, FoundAt
<1> HIDE DEF s
<1>6. Len(s) = n + 1
  BY <1>3
<1>7. PICK h : JoinedOf(h, s, n + 1, V) /\ Flat(s) = h[n + 1]
  BY <1>3, <1>4, <1>6, FlatsAre
<1> QED BY <1>5, <1>7, Zenon DEF Finds, V, s

More(h, f, t, m, a, b) == IF Hits(f, t, m, a, b) THEN Append(h[a], SubSeq(f, a + 1, b)) ELSE h[a]
LEMMA LineFound ==
  ASSUME NEW f, NEW n, IsText(f, n), NEW t, NEW m \in Nat \ {0}, IsText(t, m), NEW h, Finds(h, f, t, n),
         NEW a, NEW b, IsLine(f, n, a, b)
  PROVE  h[b + 1] = More(h, f, t, m, a, b)
<1>1. f \in Seq(Nat) /\ Len(f) = n /\ n \in Nat
  BY DEF IsText
<1>2. /\ a \in Nat /\ b \in Nat /\ a <= b /\ b <= n
      /\ a = 0 \/ f[a] = NL
      /\ b = n \/ f[b + 1] = NL
      /\ \A i \in a + 1 .. b : f[i] # NL
  BY DEF IsLine
<1>3. h \in [0 .. n + 1 -> Seq(Seq(Nat))] /\ \A k \in 1 .. n + 1 : h[k] = h[k - 1] \o FoundAt(f, t, k)
  BY Zenon DEF Finds, JoinedOf
<1>4. \A k \in a + 1 .. b : h[k] = h[k - 1]
  <2> TAKE k \in a + 1 .. b
  <2>1. k \in 1 .. n + 1 /\ k # n + 1 /\ k - 1 \in 0 .. n + 1
    BY <1>1, <1>2
  <2>2. FoundAt(f, t, k) = <<>>
    BY <1>1, <1>2, <2>1, Zenon DEF FoundAt
  <2>3. h[k - 1] \in Seq(Seq(Nat))
    BY <1>3, <2>1, Zenon
  <2>4. h[k - 1] \o <<>> = h[k - 1]
    <3> DEFINE V == Seq(Nat)
               u == h[k - 1]
    <3>1. u \in Seq(V)
      BY <2>3
    <3> HIDE DEF V, u
    <3>2. u \o <<>> = u
      BY <3>1
    <3> QED BY <3>2 DEF u
  <2> QED BY <1>3, <2>1, <2>2, <2>4, Zenon
<1>5. h[b] = h[a]
  <2> DEFINE g == [k \in a .. b |-> h[a]]
  <2>1. \A k \in a .. b : g[k] = h[a]
    BY Zenon
  <2>2. h[a] = g[a] /\ b \in a .. b
    BY <1>2
  <2>3. \A k \in a + 1 .. b : k \in a .. b /\ k - 1 \in a .. b
    BY <1>2
  <2> HIDE DEF g
  <2>4. \A k \in a + 1 .. b : h[k - 1] = g[k - 1] => h[k] = g[k]
    BY <1>4, <2>1, <2>3, Zenon
  <2>5. h[b] = g[b]
    BY <1>2, <2>2, <2>4, AgreeFrom
  <2> QED BY <2>1, <2>2, <2>5, Zenon
<1>6. LineAt(f, b + 1) = SubSeq(f, a + 1, b)
  <2>1. b + 1 \in Nat \ {0} /\ (b + 1) - 1 = b
    BY <1>2
  <2>2. PICK x \in 0 .. (b + 1) - 1 : Begins(f, x, b + 1) /\ LineAt(f, b + 1) = SubSeq(f, x + 1, (b + 1) - 1)
    BY <2>1, LineAtIs, Zenon
  <2>3. x \in 0 .. b /\ (x = 0 \/ f[x] = NL) /\ (\A i \in x + 1 .. b : f[i] # NL) /\ LineAt(f, b + 1) = SubSeq(f, x + 1, b)
    BY <2>1, <2>2 DEF Begins
  <2>4. x = a
    BY <1>2, <2>3
  <2> QED BY <2>3, <2>4
<1>7. b + 1 \in 1 .. n + 1 /\ (b + 1) - 1 = b /\ (b = n => b + 1 = n + 1) /\ a \in 0 .. n + 1
  BY <1>1, <1>2
<1>8. Contains(LineAt(f, b + 1), t) <=> Hits(f, t, m, a, b)
  BY <1>2, <1>6, LineHas
<1>9. FoundAt(f, t, b + 1) = IF Hits(f, t, m, a, b) THEN <<SubSeq(f, a + 1, b)>> ELSE <<>>
  BY <1>1, <1>2, <1>6, <1>7, <1>8, Zenon DEF FoundAt
<1>10. h[b + 1] = h[a] \o FoundAt(f, t, b + 1)
  BY <1>3, <1>5, <1>7, Zenon
<1>11. h[a] \in Seq(Seq(Nat)) /\ SubSeq(f, a + 1, b) \in Seq(Nat)
  <2>1. SubSeq(f, a + 1, b) \in Seq(Nat)
    BY <1>1, <1>2
  <2> QED BY <1>3, <1>7, <2>1, Zenon
<1> DEFINE V == Seq(Nat)
           u == h[a]
           l == SubSeq(f, a + 1, b)
<1>12. u \in Seq(V) /\ l \in V
  BY <1>11
<1> HIDE DEF V, u, l
<1>13. u \o <<>> = u /\ u \o <<l>> = Append(u, l)
  BY <1>12
<1> QED BY <1>9, <1>10, <1>13, Zenon DEF More, u, l

(* What the buffer holds is found in it where it is found in the file.     *)
LEMMA HitsThere ==
  ASSUME NEW d, NEW f, NEW t, NEW m \in Nat \ {0}, NEW a \in Nat, NEW e \in Nat, NEW b \in Nat,
         \A i \in a + 1 .. e : d[i] = f[b + i]
  PROVE  Hits(d, t, m, a, e) <=> Hits(f, t, m, b + a, b + e)
<1>1. ASSUME NEW c \in a .. e - m PROVE At(d, c, t, m) <=> At(f, b + c, t, m)
  <2>1. \A j \in 1 .. m : c + j \in a + 1 .. e /\ b + (c + j) = (b + c) + j
    OBVIOUS
  <2> QED BY <2>1, Zenon DEF At
<1>2. \A c \in a .. e - m : b + c \in b + a .. (b + e) - m
  OBVIOUS
<1>3. \A c \in b + a .. (b + e) - m : c - b \in a .. e - m /\ b + (c - b) = c
  OBVIOUS
<1>4. Hits(d, t, m, a, e) => Hits(f, t, m, b + a, b + e)
  BY <1>1, <1>2, Zenon DEF Hits
<1>5. ASSUME NEW c \in b + a .. (b + e) - m, At(f, c, t, m) PROVE Hits(d, t, m, a, e)
  <2>1. At(d, c - b, t, m) /\ c - b \in a .. e - m
    BY <1>1, <1>3, <1>5
  <2> QED BY <2>1, Zenon DEF Hits
<1> QED BY <1>4, <1>5, Zenon DEF Hits

(* The states of do_one_file.                                              *)
GState(pos, d, last, cnt, start, out, done) ==
  [pos |-> pos, data |-> d, last |-> last, cnt |-> cnt, start |-> start, out |-> out, done |-> done]
GStates ==
  [pos : Nat, data : [1 .. GrepBuf + 1 -> 0 .. 255], last : Nat, cnt : Nat, start : Nat,
   out : Seq(Seq(Nat)), done : BOOLEAN]

(* pos bytes of n are read, the last of them are in d, from start on as    *)
(* they were read; nobody will take the byte behind the buffer for a       *)
(* newline.                                                                *)
Held(f, n, pos, d, last, start) ==
  /\ pos \in Nat /\ last \in Nat /\ start \in Nat
  /\ pos <= n /\ last <= pos /\ last <= GrepBuf /\ start <= last
  /\ IsData(d) /\ (d[GrepBuf + 1] # NL \/ n <= GrepBuf)
  /\ \A i \in start + 1 .. last : d[i] = f[(pos - last) + i]

(* p is where a line starts and out what was found in those before; or the *)
(* line of p, as long as the buffer, has been searched without its newline.*)
LineStart(f, h, p, out) == (p = 0 \/ f[p] = NL) /\ out = h[p]
LineDone(f, n, h, p, out) == (p = n \/ f[p + 1] = NL) /\ out = h[p + 1]

(* Before a line is searched.                                              *)
Ready(f, n, h, pos, d, last, cnt, start, out) ==
  /\ Held(f, n, pos, d, last, start)
  /\ cnt \in Nat
  /\ pos < n => last = GrepBuf
  /\ cnt # 0 => start < last
  /\ cnt = 0 => start = 0 /\ pos = n /\ \A i \in 1 .. last : d[i] # NL
  /\ \/ LineStart(f, h, (pos - last) + start, out)
     \/ start = 0 /\ LineDone(f, n, h, pos - last, out)

(* Between two turns.                                                      *)
GInv(f, n, h, q) ==
  /\ q \in GStates
  /\ q.done => q.out = h[n + 1]
  /\ ~q.done => /\ Held(f, n, q.pos, q.data, q.last, q.start)
                /\ q.start # 0 => Ready(f, n, h, q.pos, q.data, q.last, q.cnt, q.start, q.out)
                /\ q.start = 0 => /\ q.last < GrepBuf /\ \A i \in 1 .. q.last : q.data[i] # NL
                                  /\ \/ LineStart(f, h, q.pos - q.last, q.out)
                                     \/ q.last = 0 /\ LineDone(f, n, h, q.pos, q.out)

(* How many turns there are left, at most.                                 *)
Ahead(n, p, start) == 2 * (n - p) + (IF start = 0 THEN 1 ELSE 2)

(* A read brings the buffer up to its size or the file to its end.         *)
ReadsOn(f, n, h, q, pos, last, out) ==
  \E p2, w, l2, c :
    /\ Read(f, q) = GState(p2, w, l2, c, 0, out, FALSE)
    /\ Ready(f, n, h, p2, w, l2, c, 0, out)
    /\ p2 - l2 = pos - last
LEMMA ReadGives ==
  ASSUME NEW f, NEW n, IsText(f, n), NEW h, NEW pos, NEW d, NEW last, NEW cnt, NEW out,
         Held(f, n, pos, d, last, 0), last < GrepBuf, \A i \in 1 .. last : d[i] # NL,
         LineStart(f, h, pos - last, out) \/ (last = 0 /\ LineDone(f, n, h, pos, out))
  PROVE  ReadsOn(f, n, h, GState(pos, d, last, cnt, 0, out, FALSE), pos, last, out)
<1>1. /\ pos \in Nat /\ last \in Nat /\ pos <= n /\ last <= pos /\ last <= GrepBuf
      /\ IsData(d) /\ (d[GrepBuf + 1] # NL \/ n <= GrepBuf)
      /\ \A i \in 1 .. last : d[i] = f[(pos - last) + i]
  <2>1. 0 + 1 = 1
    OBVIOUS
  <2> QED BY <2>1 DEF Held
<1>2. n \in Nat /\ Len(f) = n /\ GrepBuf \in Nat
  BY <1>1, DataIs DEF IsText
<1> DEFINE c == IF n - pos < GrepBuf - last THEN n - pos ELSE GrepBuf - last
           p2 == pos + c
           l2 == last + c
           w == Refilled(d, f, pos, last, c)
           q == GState(pos, d, last, cnt, 0, out, FALSE)
<1>3. /\ c \in Nat /\ pos + c <= n /\ last + c <= GrepBuf
      /\ (pos + c < n => last + c = GrepBuf) /\ (c = 0 => pos = n)
  BY <1>1, <1>2
<1>4. Read(f, q) = GState(p2, w, l2, c, 0, out, FALSE)
  <2>1. q.pos = pos /\ q.data = d /\ q.last = last /\ q.out = out
    BY DEF GState
  <2> HIDE DEF q
  <2> QED BY <1>2, <2>1, Zenon DEF Read, GState, Refilled
<1> HIDE DEF c, q
<1>5. IsData(w) /\ \A i \in 1 .. GrepBuf + 1 : w[i] = IF last < i /\ i <= last + c THEN f[pos + (i - last)] ELSE d[i]
  <2>1. RefilledRight(d, f, pos, last, c)
    BY <1>1, <1>3, RefilledIs, Zenon
  <2> QED BY <2>1, Zenon DEF RefilledRight
<1> HIDE DEF w
<1>6. p2 \in Nat /\ l2 \in Nat /\ p2 <= n /\ l2 <= p2 /\ l2 <= GrepBuf /\ 0 <= l2 /\ 0 \in Nat
  BY <1>1, <1>3
<1>7. w[GrepBuf + 1] = d[GrepBuf + 1]
  <2>1. GrepBuf + 1 \in 1 .. GrepBuf + 1 /\ ~(GrepBuf + 1 <= last + c)
    BY <1>1, <1>2, <1>3
  <2> QED BY <1>5, <2>1, Zenon
<1>8. p2 - l2 = pos - last /\ (p2 - l2) + 0 = pos - last
  BY <1>1, <1>3
<1>9. ASSUME NEW i \in 0 + 1 .. l2 PROVE w[i] = f[(p2 - l2) + i]
  <2>1. i \in 1 .. GrepBuf + 1 /\ i <= last + c
    BY <1>2, <1>6
  <2>2. CASE last < i
    <3>1. pos + (i - last) = (p2 - l2) + i
      BY <1>1, <1>8, <2>1
    <3> QED BY <1>5, <2>1, <2>2, <3>1, Zenon
  <2>3. CASE ~(last < i)
    <3>1. i \in 1 .. last
      BY <1>1, <2>1, <2>3
    <3> QED BY <1>1, <1>5, <1>8, <2>1, <2>3, <3>1, Zenon
  <2> QED BY <2>2, <2>3
<1>10. Held(f, n, p2, w, l2, 0)
  BY <1>1, <1>5, <1>6, <1>7, <1>9, Zenon DEF Held
<1>11. c # 0 => 0 < l2
  BY <1>1, <1>3
<1>12. c = 0 => p2 = n /\ \A i \in 1 .. l2 : w[i] # NL
  <2> SUFFICES ASSUME c = 0 PROVE p2 = n /\ \A i \in 1 .. l2 : w[i] # NL
    OBVIOUS
  <2>1. p2 = n /\ l2 = last
    BY <1>1, <1>3
  <2>2. \A i \in 1 .. last : i \in 1 .. GrepBuf + 1 /\ ~(last < i)
    BY <1>1, <1>2
  <2> HIDE DEF p2, l2
  <2> QED BY <1>5, <2>1, <2>2, Zenon
<1>13. \/ LineStart(f, h, (p2 - l2) + 0, out)
       \/ LineDone(f, n, h, p2 - l2, out)
  <2>1. last = 0 => pos - last = pos
    BY <1>1
  <2> QED BY <1>8, <2>1
<1>14. Ready(f, n, h, p2, w, l2, c, 0, out)
  BY <1>3, <1>10, <1>11, <1>12, <1>13 DEF Ready
<1> QED BY <1>4, <1>8, <1>14, Zenon DEF ReadsOn, q

(* The line from start to e of the buffer is from a to b of the file.      *)
Lies(f, pos, last, start, e) ==
  LET a == (pos - last) + start
      b == (pos - last) + e
  IN  /\ a \in Nat /\ b \in Nat /\ a <= b /\ b <= pos
      /\ \A i \in a + 1 .. b : f[i] # NL
      /\ e < last => f[b + 1] = NL /\ b + 1 <= pos
      /\ e = last => b = pos
LEMMA LineLies ==
  ASSUME NEW f, NEW n \in Nat, NEW pos, NEW d, NEW last, NEW start, NEW e,
         Held(f, n, pos, d, last, start), IsEnd(d, start, last, e)
  PROVE  Lies(f, pos, last, start, e)
<1>1. /\ pos \in Nat /\ last \in Nat /\ start \in Nat /\ pos <= n /\ last <= pos /\ start <= last
      /\ \A i \in start + 1 .. last : d[i] = f[(pos - last) + i]
  BY DEF Held
<1>2. e \in start .. last /\ (e = last \/ d[e + 1] = NL) /\ \A i \in start .. e - 1 : d[i + 1] # NL
  BY DEF IsEnd
<1> DEFINE s == pos - last
           a == s + start
           b == s + e
<1>3. s \in Nat /\ a \in Nat /\ b \in Nat /\ a <= b /\ b <= pos /\ e \in Nat
  BY <1>1, <1>2
<1>4. ASSUME NEW i \in a + 1 .. b PROVE f[i] # NL
  <2>1. (i - s) - 1 \in start .. e - 1 /\ ((i - s) - 1) + 1 = i - s /\ i - s \in start + 1 .. last /\ s + (i - s) = i
    BY <1>1, <1>2, <1>3
  <2> QED BY <1>1, <1>2, <2>1
<1>5. e < last => f[b + 1] = NL /\ b + 1 <= pos
  <2>1. e < last => e + 1 \in start + 1 .. last /\ s + (e + 1) = b + 1 /\ b + 1 <= pos /\ e # last
    BY <1>1, <1>2, <1>3
  <2> QED BY <1>1, <1>2, <2>1
<1>6. e = last => b = pos
  BY <1>1
<1> QED BY <1>3, <1>4, <1>5, <1>6 DEF Lies

(* The buffer with its line cut, and what the search gives.                *)
Cutting(f, n, t, m, pos, d, last, start, e) ==
  LET cut == Cut(d, e)
      a   == (pos - last) + start
      b   == (pos - last) + e
  IN  /\ Closed(cut, start, e)
      /\ SearchesIn(CString(t), cut, start, e) <=> Hits(f, t, m, a, b)
      /\ SubSeq(cut, start + 1, start + strlen(From(cut, start))) = SubSeq(f, a + 1, b)
LEMMA CutSearched ==
  ASSUME NEW f, NEW n, IsText(f, n), NEW t, NEW m \in Nat \ {0}, IsText(t, m),
         NEW pos, NEW d, NEW last, NEW start, NEW e,
         Held(f, n, pos, d, last, start), e \in start .. last
  PROVE  Cutting(f, n, t, m, pos, d, last, start, e)
<1>1. /\ pos \in Nat /\ last \in Nat /\ start \in Nat
      /\ pos <= n /\ last <= pos /\ last <= GrepBuf /\ start <= last /\ IsData(d)
      /\ \A i \in start + 1 .. last : d[i] = f[(pos - last) + i]
  BY DEF Held
<1>2. n \in Nat /\ GrepBuf \in Nat /\ \A i \in 1 .. n : f[i] \in 1 .. 255
  BY <1>1, DataIs DEF IsText
<1> DEFINE s == pos - last
           a == s + start
           b == s + e
           cut == Cut(d, e)
<1>3. /\ s \in Nat /\ e \in Nat /\ start <= e /\ e <= last /\ e \in 0 .. GrepBuf /\ e <= GrepBuf
      /\ b <= n /\ start + (e - start) = e
  BY <1>1, <1>2
<1>4. IsData(cut) /\ cut[e + 1] = 0 /\ \A i \in 1 .. GrepBuf + 1 : i # e + 1 => cut[i] = d[i]
  <2>1. CutRight(d, e)
    BY <1>1, <1>3, CutIs
  <2> QED BY <2>1, Zenon DEF CutRight
<1> HIDE DEF cut
<1>5. \A i \in start + 1 .. e : cut[i] = f[s + i]
  <2>1. \A i \in start + 1 .. e : i \in 1 .. GrepBuf + 1 /\ i # e + 1 /\ i \in start + 1 .. last
    BY <1>1, <1>2, <1>3
  <2> QED BY <1>1, <1>4, <2>1, Zenon
<1>6. \A i \in start + 1 .. e : cut[i] # 0
  <2> TAKE i \in start + 1 .. e
  <2>1. s + i \in 1 .. n
    BY <1>1, <1>2, <1>3
  <2>2. f[s + i] \in 1 .. 255
    BY <1>2, <2>1, Zenon
  <2> QED BY <1>5, <2>2
<1>7. Closed(cut, start, e)
  BY <1>1, <1>3, <1>4, <1>6, Zenon DEF Closed
<1>8. SearchesIn(CString(t), cut, start, e) <=> Hits(cut, t, m, start, e)
  BY <1>7, Searches, Zenon
<1>9. Hits(cut, t, m, start, e) <=> Hits(f, t, m, a, b)
  <2> HIDE DEF s
  <2> QED BY <1>1, <1>3, <1>5, HitsThere, Zenon
<1>10. strlen(From(cut, start)) = e - start
  BY <1>7, FromLength, Zenon
<1>11. SubSeq(cut, start + 1, start + strlen(From(cut, start))) = SubSeq(cut, start + 1, e)
  BY <1>3, <1>10
<1>12. SubSeq(cut, start + 1, e) = SubSeq(f, a + 1, b)
  <2> HIDE DEF s
  <2>1. SubSeq(cut, start + 1, e) = SubSeq(f, s + start + 1, s + e)
    BY <1>1, <1>3, <1>4, <1>5, SameLine
  <2> QED BY <2>1
<1> QED BY <1>7, <1>8, <1>9, <1>11, <1>12, Zenon DEF Cutting, cut, s, a, b

(* One line is searched: what is found up to its end.                      *)
LEMMA LineSearched ==
  ASSUME NEW f, NEW n, IsText(f, n), NEW t, NEW m \in Nat \ {0}, IsText(t, m), NEW h, Finds(h, f, t, n),
         NEW a \in Nat, NEW b \in Nat, a <= b, b <= n, \A i \in a + 1 .. b : f[i] # NL, b = n \/ f[b + 1] = NL,
         NEW out, LineStart(f, h, a, out) \/ LineDone(f, n, h, a, out)
  PROVE  (IF Hits(f, t, m, a, b) THEN Append(out, SubSeq(f, a + 1, b)) ELSE out) = h[b + 1]
<1>0. n \in Nat
  BY DEF IsText
<1>1. CASE LineStart(f, h, a, out)
  <2>1. IsLine(f, n, a, b)
    BY <1>1 DEF IsLine, LineStart
  <2>2. h[b + 1] = More(h, f, t, m, a, b)
    BY <2>1, LineFound
  <2> QED BY <1>1, <2>2, Zenon DEF More, LineStart
<1>2. CASE LineDone(f, n, h, a, out)
  <2>1. a = b
    BY <1>0, <1>2 DEF LineDone
  <2>2. ~Hits(f, t, m, a, b)
    <3>1. \A c : c \notin a .. b - m
      BY <2>1
    <3> QED BY <3>1, Zenon DEF Hits
  <2> QED BY <1>2, <2>1, <2>2, Zenon DEF LineDone
<1> QED BY <1>1, <1>2

(* The next state: the invariant holds, and there are fewer turns left.    *)
Goes(f, n, h, q, p, start) ==
  /\ GInv(f, n, h, q)
  /\ ~q.done => Ahead(n, (q.pos - q.last) + q.start, q.start) < Ahead(n, p, start)
LEMMA FoundTyped ==
  ASSUME NEW f, NEW n, IsText(f, n), NEW t, NEW h, Finds(h, f, t, n)
  PROVE  \A k \in 0 .. n + 1 : h[k] \in Seq(Seq(Nat))
BY Zenon DEF Finds, JoinedOf

Fields(q, pos, d, last, cnt, start, out, done) ==
  /\ q \in GStates /\ q.pos = pos /\ q.data = d /\ q.last = last /\ q.cnt = cnt /\ q.start = start
  /\ q.out = out /\ q.done = done
LEMMA GStateIs ==
  ASSUME NEW pos \in Nat, NEW d, IsData(d), NEW last \in Nat, NEW cnt \in Nat, NEW start \in Nat,
         NEW out \in Seq(Seq(Nat)), NEW done \in BOOLEAN, NEW q, q = GState(pos, d, last, cnt, start, out, done)
  PROVE  Fields(q, pos, d, last, cnt, start, out, done)
<1> DEFINE V == Seq(Seq(Nat))
<1>1. out \in V
  OBVIOUS
<1> HIDE DEF V
<1>2. GStates = [pos : Nat, data : [1 .. GrepBuf + 1 -> 0 .. 255], last : Nat, cnt : Nat, start : Nat,
                 out : V, done : BOOLEAN]
  BY DEF GStates, V
<1> QED BY <1>1, <1>2 DEF GState, IsData, Fields

(* The rest of a line is kept: it is at the front of the buffer.           *)
LEMMA Keeps ==
  ASSUME NEW f, NEW n, IsText(f, n), NEW t, NEW h, Finds(h, f, t, n),
         NEW pos, NEW d, NEW last, NEW cnt, NEW start, NEW out, Ready(f, n, h, pos, d, last, cnt, start, out),
         start # 0, NEW cut, cut = Cut(d, last), Closed(cut, start, last), Lies(f, pos, last, start, last),
         NEW q, q = GState(pos, strcpy(cut, From(cut, start)), last - start, cnt, 0, out, FALSE)
  PROVE  Goes(f, n, h, q, (pos - last) + start, start)
<1>1. /\ pos \in Nat /\ last \in Nat /\ start \in Nat
      /\ pos <= n /\ last <= pos /\ last <= GrepBuf /\ start <= last
      /\ IsData(d) /\ (d[GrepBuf + 1] # NL \/ n <= GrepBuf)
      /\ \A i \in start + 1 .. last : d[i] = f[(pos - last) + i]
  BY Zenon DEF Ready, Held
<1>2. cnt \in Nat /\ LineStart(f, h, (pos - last) + start, out)
  BY DEF Ready
<1>3. n \in Nat /\ GrepBuf \in Nat /\ GrepBuf >= 1
  BY <1>1, DataIs DEF IsText
<1> DEFINE p == (pos - last) + start
           l2 == last - start
           w == Front(cut, start)
<1>4. p \in Nat /\ p <= n /\ l2 \in Nat /\ l2 <= pos /\ l2 < GrepBuf /\ pos - l2 = p /\ p \in 0 .. n + 1 /\ 0 \in Nat /\ 0 <= l2
      /\ l2 <= GrepBuf
  BY <1>1, <1>3
<1>5. IsData(w) /\ \A x \in 1 .. GrepBuf + 1 : w[x] = IF x <= l2 + 1 THEN cut[start + x] ELSE cut[x]
  <2>1. FrontRight(cut, start, last)
    BY FrontIs, Zenon
  <2> QED BY <2>1, Zenon DEF FrontRight
<1>6. \A i \in 1 .. GrepBuf + 1 : i # last + 1 => cut[i] = d[i]
  <2>1. last \in 0 .. GrepBuf
    BY <1>1, <1>3
  <2>2. CutRight(d, last)
    BY <1>1, <2>1, CutIs
  <2> QED BY <2>2, Zenon DEF CutRight
<1>7. cut[last + 1] = 0
  BY Zenon DEF Closed
<1> HIDE DEF w
<1>8. w[GrepBuf + 1] # NL \/ n <= GrepBuf
  <2>1. GrepBuf + 1 \in 1 .. GrepBuf + 1 /\ ~(GrepBuf + 1 <= l2 + 1)
    BY <1>1, <1>3, <1>4
  <2>2. w[GrepBuf + 1] = cut[GrepBuf + 1]
    BY <1>5, <2>1, Zenon
  <2>3. CASE GrepBuf + 1 = last + 1
    BY <1>7, <2>2, <2>3 DEF NL
  <2>4. CASE GrepBuf + 1 # last + 1
    BY <1>1, <1>6, <2>1, <2>2, <2>4, Zenon
  <2> QED BY <2>3, <2>4
<1>9. ASSUME NEW i \in 0 + 1 .. l2 PROVE w[i] = f[p + i]
  <2>1. i \in 1 .. GrepBuf + 1 /\ i <= l2 + 1 /\ start + i \in 1 .. GrepBuf + 1 /\ start + i # last + 1
        /\ start + i \in start + 1 .. last /\ (pos - last) + (start + i) = p + i
    BY <1>1, <1>3, <1>4
  <2>2. w[i] = cut[start + i]
    BY <1>5, <2>1, Zenon
  <2>3. cut[start + i] = d[start + i]
    BY <1>6, <2>1, Zenon
  <2>4. d[start + i] = f[(pos - last) + (start + i)]
    BY <1>1, <2>1, Zenon
  <2> QED BY <2>1, <2>2, <2>3, <2>4
<1>10. Held(f, n, pos, w, l2, 0)
  <2>1. \A i \in 0 + 1 .. l2 : w[i] = f[(pos - l2) + i]
    BY <1>4, <1>9
  <2> HIDE DEF l2, p
  <2> QED BY <1>1, <1>4, <1>5, <1>8, <2>1, Zenon DEF Held
<1>11. \A i \in 1 .. l2 : w[i] # NL
  <2> TAKE i \in 1 .. l2
  <2>1. i \in 0 + 1 .. l2 /\ p + i \in p + 1 .. (pos - last) + last
    BY <1>1, <1>4
  <2>2. f[p + i] # NL
    BY <2>1, Zenon DEF Lies
  <2> QED BY <1>9, <2>1, <2>2, Zenon
<1>12. out \in Seq(Seq(Nat))
  BY <1>2, <1>4, FoundTyped, Zenon DEF LineStart
<1>13. q = GState(pos, w, l2, cnt, 0, out, FALSE)
  BY DEF w, Front
<1> HIDE DEF p, l2
<1>14. /\ q \in GStates /\ q.pos = pos /\ q.data = w /\ q.last = l2 /\ q.cnt = cnt /\ q.start = 0
       /\ q.out = out /\ q.done = FALSE
  <2>1. FALSE \in BOOLEAN
    OBVIOUS
  <2>2. Fields(q, pos, w, l2, cnt, 0, out, FALSE)
    BY <1>1, <1>2, <1>4, <1>5, <1>12, <1>13, <2>1, GStateIs
  <2> QED BY <2>2, Zenon DEF Fields
<1>15. LineStart(f, h, pos - l2, out)
  BY <1>2, <1>4 DEF p
<1>16. GInv(f, n, h, q)
  BY <1>4, <1>10, <1>11, <1>14, <1>15, Zenon DEF GInv
<1>17. (q.pos - q.last) + q.start = p
  <2>1. (pos - l2) + 0 = p
    BY <1>4
  <2> QED BY <1>14, <2>1, Zenon
<1>18. Ahead(n, p, 0) < Ahead(n, p, start)
  BY <1>3, <1>4 DEF Ahead
<1> QED BY <1>14, <1>16, <1>17, <1>18, Zenon DEF Goes, p

(* A line has been searched.                                               *)
LEMMA LineEnded ==
  ASSUME NEW f, NEW n, IsText(f, n), ShortLines(f), NEW h, NEW pos, NEW d, NEW last, NEW cnt, NEW start, NEW out,
         Ready(f, n, h, pos, d, last, cnt, start, out), NEW e, IsEnd(d, start, last, e),
         ~(d[e + 1] # NL /\ cnt # 0 /\ start # 0), e = last
  PROVE  (pos = n \/ f[pos + 1] = NL) /\ e + 1 >= last
<1>1. /\ pos \in Nat /\ last \in Nat /\ start \in Nat
      /\ pos <= n /\ last <= pos /\ last <= GrepBuf /\ start <= last
      /\ IsData(d) /\ (d[GrepBuf + 1] # NL \/ n <= GrepBuf)
      /\ \A i \in start + 1 .. last : d[i] = f[(pos - last) + i]
  BY Zenon DEF Ready, Held
<1>2. (pos < n => last = GrepBuf) /\ (cnt = 0 => pos = n)
  BY DEF Ready
<1>3. n \in Nat /\ GrepBuf \in Nat /\ GrepBuf >= 1 /\ Len(f) = n
  BY <1>1, DataIs DEF IsText
<1>4. ASSUME pos < n PROVE f[pos + 1] = NL
  <2>1. last = GrepBuf /\ cnt # 0 /\ ~(n <= GrepBuf)
    BY <1>1, <1>2, <1>3, <1>4
  <2>2. start = 0
    BY <1>1, <2>1
  <2>3. Lies(f, pos, last, start, last)
    BY <1>3, LineLies DEF Ready
  <2> DEFINE b == pos - last
  <2>4. \A i \in b + 1 .. pos : f[i] # NL
    BY <1>1, <2>2, <2>3 DEF Lies
  <2>5. b \in 0 .. (Len(f) - GrepBuf) - 1 /\ b \in 0 .. Len(f) - GrepBuf - 1
    BY <1>1, <1>3, <1>4, <2>1
  <2>6. PICK i \in 1 .. GrepBuf + 1 : f[b + i] = NL
    BY <2>5, Zenon DEF ShortLines
  <2>7. ~(b + i \in b + 1 .. pos)
    BY <2>4, <2>6
  <2>8. b + i = pos + 1
    BY <1>1, <1>3, <2>1, <2>7
  <2> QED BY <2>6, <2>8
<1> QED BY <1>1, <1>3, <1>4

(* Nothing is kept in the buffer: the next turn starts with a read.        *)
LEMMA EmptyGoes ==
  ASSUME NEW f, NEW n \in Nat, NEW h, NEW pos \in Nat, pos <= n, NEW w, IsData(w), w[GrepBuf + 1] # NL \/ n <= GrepBuf,
         NEW cnt \in Nat, NEW out \in Seq(Seq(Nat)), LineStart(f, h, pos, out) \/ LineDone(f, n, h, pos, out),
         NEW q, q = GState(pos, w, 0, cnt, 0, out, FALSE), NEW a \in Nat, a < pos, NEW start \in Nat
  PROVE  Goes(f, n, h, q, a, start)
<1>1. GrepBuf \in Nat /\ GrepBuf >= 1 /\ 0 \in Nat /\ FALSE \in BOOLEAN
  BY DataIs
<1>2. Fields(q, pos, w, 0, cnt, 0, out, FALSE)
  BY <1>1, GStateIs
<1>3. /\ q \in GStates /\ q.pos = pos /\ q.data = w /\ q.last = 0 /\ q.cnt = cnt /\ q.start = 0
      /\ q.out = out /\ q.done = FALSE
  BY <1>2, Zenon DEF Fields
<1>4. pos - 0 = pos /\ (pos - 0) + 0 = pos /\ 0 <= pos /\ 0 <= GrepBuf /\ 0 <= 0 /\ 0 < GrepBuf
  BY <1>1
<1>5. \A i : i \notin 0 + 1 .. 0 /\ i \notin 1 .. 0
  OBVIOUS
<1>6. Held(f, n, pos, w, 0, 0)
  BY <1>1, <1>4, <1>5, Zenon DEF Held
<1>7. GInv(f, n, h, q)
  BY <1>3, <1>4, <1>5, <1>6, Zenon DEF GInv
<1>8. Ahead(n, pos, 0) < Ahead(n, a, start)
  BY DEF Ahead
<1> QED BY <1>3, <1>4, <1>7, <1>8, Zenon DEF Goes

SearchedState(pos, cut, last, cnt, e, out) ==
  GState(pos, cut, IF e + 1 >= last THEN 0 ELSE last, cnt, IF e + 1 >= last THEN 0 ELSE e + 1, out,
         e + 1 >= last /\ cnt = 0)
LEMMA SearchGoes ==
  ASSUME NEW f, NEW n, IsText(f, n), ShortLines(f), NEW t, NEW h, Finds(h, f, t, n),
         NEW pos, NEW d, NEW last, NEW cnt, NEW start, NEW out, Ready(f, n, h, pos, d, last, cnt, start, out),
         NEW e, IsEnd(d, start, last, e), ~(d[e + 1] # NL /\ cnt # 0 /\ start # 0), NEW o2,
         \/ e < last /\ o2 = h[((pos - last) + e) + 1]
         \/ e = last /\ o2 = h[pos + 1],
         NEW q, q = SearchedState(pos, Cut(d, e), last, cnt, e, o2)
  PROVE  Goes(f, n, h, q, (pos - last) + start, start)
<1>1. /\ pos \in Nat /\ last \in Nat /\ start \in Nat
      /\ pos <= n /\ last <= pos /\ last <= GrepBuf /\ start <= last
      /\ IsData(d) /\ (d[GrepBuf + 1] # NL \/ n <= GrepBuf)
      /\ \A i \in start + 1 .. last : d[i] = f[(pos - last) + i]
  BY Zenon DEF Ready, Held
<1>2. /\ cnt \in Nat /\ (pos < n => last = GrepBuf) /\ (cnt # 0 => start < last)
      /\ cnt = 0 => start = 0 /\ pos = n /\ \A i \in 1 .. last : d[i] # NL
  BY DEF Ready
<1>3. n \in Nat /\ GrepBuf \in Nat /\ GrepBuf >= 1
  BY <1>1, DataIs DEF IsText
<1>4. e \in start .. last /\ (e = last \/ d[e + 1] = NL)
  BY DEF IsEnd
<1>5. Lies(f, pos, last, start, e)
  BY <1>3, LineLies DEF Ready
<1> DEFINE a == (pos - last) + start
           b == (pos - last) + e
           w == Cut(d, e)
<1>6. a \in Nat /\ b \in Nat /\ a <= b /\ b <= pos /\ e \in Nat /\ e <= last /\ e <= GrepBuf
  BY <1>1, <1>3, <1>4
<1>7. (e < last => f[b + 1] = NL /\ b + 1 <= pos) /\ (e = last => b = pos)
  BY <1>5, Zenon DEF Lies
<1>8. IsData(w) /\ w[e + 1] = 0 /\ \A i \in 1 .. GrepBuf + 1 : i # e + 1 => w[i] = d[i]
  <2>1. e \in 0 .. GrepBuf
    BY <1>3, <1>6
  <2>2. CutRight(d, e)
    BY <1>1, <2>1, CutIs
  <2> QED BY <2>2, Zenon DEF CutRight
<1> HIDE DEF w
<1>9. w[GrepBuf + 1] # NL \/ n <= GrepBuf
  <2>1. GrepBuf + 1 \in 1 .. GrepBuf + 1
    BY <1>3
  <2>2. CASE e + 1 = GrepBuf + 1
    BY <1>8, <2>2 DEF NL
  <2>3. CASE e + 1 # GrepBuf + 1
    BY <1>1, <1>8, <2>1, <2>3, Zenon
  <2> QED BY <2>2, <2>3
<1>10. q = SearchedState(pos, w, last, cnt, e, o2)
  BY DEF w
<1>11. CASE e < last
  <2>1. o2 = h[b + 1] /\ f[b + 1] = NL /\ b + 1 <= pos /\ b + 1 \in Nat /\ b + 1 # 0 /\ b + 1 \in 0 .. n + 1 /\ e # last
    BY <1>1, <1>3, <1>6, <1>7, <1>11
  <2>2. LineStart(f, h, b + 1, o2)
    BY <2>1, Zenon DEF LineStart
  <2>3. o2 \in Seq(Seq(Nat))
    BY <2>1, FoundTyped, Zenon
  <2>4. cnt # 0
    <3>1. e + 1 \in 1 .. last
      BY <1>1, <1>6, <1>11
    <3> QED BY <1>2, <1>4, <2>1, <3>1, Zenon
  <2>5. CASE e + 1 >= last
    <3>1. b + 1 = pos
      BY <1>1, <1>6, <1>11, <2>5
    <3>2. q = GState(pos, w, 0, cnt, 0, o2, FALSE)
      BY <1>10, <2>4, <2>5 DEF SearchedState
    <3>3. a < pos
      BY <1>6, <3>1
    <3>4. LineStart(f, h, pos, o2)
      BY <2>2, <3>1
    <3> QED BY <1>1, <1>2, <1>3, <1>6, <1>8, <1>9, <2>3, <3>2, <3>3, <3>4, EmptyGoes
  <2>6. CASE ~(e + 1 >= last)
    <3>1. q = GState(pos, w, last, cnt, e + 1, o2, FALSE)
      BY <1>10, <2>6 DEF SearchedState
    <3>2. e + 1 \in Nat /\ e + 1 < last /\ e + 1 <= last /\ e + 1 # 0 /\ (pos - last) + (e + 1) = b + 1 /\ FALSE \in BOOLEAN
      BY <1>1, <1>6, <2>6
    <3>3. Fields(q, pos, w, last, cnt, e + 1, o2, FALSE)
      BY <1>1, <1>2, <1>8, <2>3, <3>1, <3>2, GStateIs
    <3>4. /\ q \in GStates /\ q.pos = pos /\ q.data = w /\ q.last = last /\ q.cnt = cnt /\ q.start = e + 1
          /\ q.out = o2 /\ q.done = FALSE
      BY <3>3, Zenon DEF Fields
    <3>5. \A i \in (e + 1) + 1 .. last : w[i] = f[(pos - last) + i]
      <4>1. \A i \in (e + 1) + 1 .. last : i \in start + 1 .. last /\ i \in 1 .. GrepBuf + 1 /\ i # e + 1
        BY <1>1, <1>3, <1>4, <1>6
      <4> QED BY <1>1, <1>8, <4>1, Zenon
    <3>6. Held(f, n, pos, w, last, e + 1)
      BY <1>1, <1>8, <1>9, <3>2, <3>5, Zenon DEF Held
    <3>7. Ready(f, n, h, pos, w, last, cnt, e + 1, o2)
      BY <1>2, <2>2, <2>4, <3>2, <3>6, Zenon DEF Ready
    <3>8. GInv(f, n, h, q)
      BY <3>2, <3>4, <3>6, <3>7, Zenon DEF GInv
    <3>9. Ahead(n, b + 1, e + 1) < Ahead(n, a, start)
      BY <1>1, <1>3, <1>6, <3>2 DEF Ahead
    <3>10. (q.pos - q.last) + q.start = b + 1 /\ q.start = e + 1
      BY <3>2, <3>4, Zenon
    <3> QED BY <3>8, <3>9, <3>10, Zenon DEF Goes, a
  <2> QED BY <2>5, <2>6
<1>12. CASE e = last
  <2>1. (pos = n \/ f[pos + 1] = NL) /\ e + 1 >= last
    BY <1>12, LineEnded
  <2>2. ~(e < last) /\ b = pos /\ pos + 1 \in 0 .. n + 1
    BY <1>1, <1>3, <1>7, <1>12
  <2>3. o2 = h[pos + 1]
    BY <2>2
  <2>4. o2 \in Seq(Seq(Nat)) /\ LineDone(f, n, h, pos, o2)
    BY <2>1, <2>2, <2>3, FoundTyped, Zenon DEF LineDone
  <2>5. CASE cnt = 0
    <3>1. q = GState(pos, w, 0, cnt, 0, o2, TRUE)
      BY <1>10, <2>1, <2>5 DEF SearchedState
    <3>2. 0 \in Nat /\ TRUE \in BOOLEAN
      OBVIOUS
    <3>3. Fields(q, pos, w, 0, cnt, 0, o2, TRUE)
      BY <1>1, <1>2, <1>8, <2>4, <3>1, <3>2, GStateIs
    <3>4. q \in GStates /\ q.out = o2 /\ q.done = TRUE
      BY <3>3, Zenon DEF Fields
    <3>5. o2 = h[n + 1]
      BY <1>2, <2>3, <2>5
    <3>6. GInv(f, n, h, q)
      BY <3>4, <3>5, Zenon DEF GInv
    <3> QED BY <3>4, <3>6, Zenon DEF Goes
  <2>6. CASE cnt # 0
    <3>1. q = GState(pos, w, 0, cnt, 0, o2, FALSE)
      BY <1>10, <2>1, <2>6 DEF SearchedState
    <3>2. a < pos
      BY <1>1, <1>2, <2>6
    <3> QED BY <1>1, <1>2, <1>3, <1>6, <1>8, <1>9, <2>4, <3>1, <3>2, EmptyGoes
  <2> QED BY <2>5, <2>6
<1> QED BY <1>4, <1>6, <1>11, <1>12

LEMMA LineGoes ==
  ASSUME NEW f, NEW n, IsText(f, n), ShortLines(f), NEW t, NEW m \in Nat \ {0}, IsText(t, m), NEW h, Finds(h, f, t, n),
         NEW pos, NEW d, NEW last, NEW cnt, NEW start, NEW out, Ready(f, n, h, pos, d, last, cnt, start, out)
  PROVE  Goes(f, n, h, Line(CString(t), GState(pos, d, last, cnt, start, out, FALSE)), (pos - last) + start, start)
<1>1. /\ pos \in Nat /\ last \in Nat /\ start \in Nat
      /\ pos <= n /\ last <= pos /\ start <= last
      /\ Held(f, n, pos, d, last, start)
  BY Zenon DEF Ready, Held
<1>2. n \in Nat
  BY DEF IsText
<1> DEFINE s == CString(t)
           r == GState(pos, d, last, cnt, start, out, FALSE)
           e == LineEnd(d, start, last)
           cut == Cut(d, e)
           a == (pos - last) + start
           b == (pos - last) + e
           text == SubSeq(cut, start + 1, start + strlen(From(cut, start)))
           o2 == IF SearchesIn(s, cut, start, e) THEN Append(out, text) ELSE out
           keep == d[e + 1] # NL /\ cnt # 0 /\ start # 0
           q == Line(s, r)
<1>3. r.pos = pos /\ r.data = d /\ r.last = last /\ r.cnt = cnt /\ r.start = start /\ r.out = out
  BY DEF GState
<1> HIDE DEF r
<1>4. /\ keep => q = GState(pos, strcpy(cut, From(cut, start)), last - start, cnt, 0, out, FALSE)
      /\ ~keep => q = SearchedState(pos, cut, last, cnt, e, o2)
  BY <1>3, Zenon DEF Line, GState, SearchedState, Cut, Dec, Kept
<1> HIDE DEF s, q
<1>5. IsEnd(d, start, last, e)
  BY <1>1, LineEnds
<1> HIDE DEF e
<1>6. e \in start .. last /\ (e = last \/ d[e + 1] = NL)
  BY <1>5, Zenon DEF IsEnd
<1>7. Lies(f, pos, last, start, e)
  BY <1>1, <1>2, <1>5, LineLies
<1>8. Cutting(f, n, t, m, pos, d, last, start, e)
  BY <1>1, <1>6, CutSearched
<1>9. /\ Closed(cut, start, e)
      /\ SearchesIn(s, cut, start, e) <=> Hits(f, t, m, a, b)
      /\ text = SubSeq(f, a + 1, b)
  BY <1>8, Zenon DEF Cutting, s
<1>10. CASE keep
  <2>1. e = last
    BY <1>6, <1>10, Zenon
  <2>2. cut = Cut(d, last) /\ Closed(cut, start, last) /\ Lies(f, pos, last, start, last) /\ start # 0
    BY <1>7, <1>9, <1>10, <2>1
  <2>3. q = GState(pos, strcpy(cut, From(cut, start)), last - start, cnt, 0, out, FALSE)
    BY <1>4, <1>10
  <2> HIDE DEF cut
  <2>4. Goes(f, n, h, q, (pos - last) + start, start)
    BY <2>2, <2>3, Keeps
  <2> QED BY <2>4 DEF q, r, s
<1>11. CASE ~keep
  <2>1. a \in Nat /\ b \in Nat /\ a <= b /\ b <= pos /\ b <= n /\ \A i \in a + 1 .. b : f[i] # NL
    <3>1. a \in Nat /\ b \in Nat /\ a <= b /\ b <= pos /\ \A i \in a + 1 .. b : f[i] # NL
      BY <1>7, Zenon DEF Lies
    <3> QED BY <1>1, <1>2, <3>1
  <2>2. (e < last => f[b + 1] = NL) /\ (e = last => b = pos)
    BY <1>7, Zenon DEF Lies
  <2>3. b = n \/ f[b + 1] = NL
    <3>1. CASE e = last
      <4>1. pos = n \/ f[pos + 1] = NL
        BY <1>5, <1>11, <3>1, LineEnded
      <4> QED BY <2>2, <3>1, <4>1
    <3>2. CASE e # last
      BY <1>1, <1>6, <2>2, <3>2
    <3> QED BY <3>1, <3>2
  <2>4. LineStart(f, h, a, out) \/ LineDone(f, n, h, a, out)
    <3>1. start = 0 => pos - last = a
      BY <1>1
    <3> QED BY <3>1 DEF Ready
  <2>5. (IF Hits(f, t, m, a, b) THEN Append(out, SubSeq(f, a + 1, b)) ELSE out) = h[b + 1]
    <3> HIDE DEF a, b
    <3> QED BY <2>1, <2>3, <2>4, LineSearched
  <2>6. o2 = h[b + 1]
    BY <1>9, <2>5, Zenon
  <2> HIDE DEF o2
  <2>7. \/ e < last /\ o2 = h[((pos - last) + e) + 1]
        \/ e = last /\ o2 = h[pos + 1]
    BY <1>1, <1>6, <2>2, <2>6
  <2>8. q = SearchedState(pos, Cut(d, e), last, cnt, e, o2)
    BY <1>4, <1>11
  <2>9. Goes(f, n, h, q, (pos - last) + start, start)
    BY <1>5, <1>11, <2>7, <2>8, SearchGoes
  <2> QED BY <2>9 DEF q, r, s
<1> QED BY <1>10, <1>11

(* A turn keeps the invariant and is one less of those left.               *)
TurnsOn(f, n, h, q, r) ==
  /\ GInv(f, n, h, r)
  /\ q.done => r = q
  /\ ~q.done /\ ~r.done =>
       Ahead(n, (r.pos - r.last) + r.start, r.start) < Ahead(n, (q.pos - q.last) + q.start, q.start)
LEMMA TurnGoes ==
  ASSUME NEW f, NEW n, IsText(f, n), ShortLines(f), NEW t, NEW m \in Nat \ {0}, IsText(t, m), NEW h, Finds(h, f, t, n),
         NEW q, GInv(f, n, h, q)
  PROVE  TurnsOn(f, n, h, q, GrepTurn(CString(t), f, q))
<1> DEFINE s == CString(t)
           r == GrepTurn(s, f, q)
<1>1. CASE q.done
  BY <1>1, Zenon DEF TurnsOn, GrepTurn
<1>2. CASE ~q.done
  <2>1. q \in GStates
    BY Zenon DEF GInv
  <2>2. q.done = FALSE
    <3>1. q.done \in BOOLEAN
      BY <2>1 DEF GStates
    <3> QED BY <1>2, <3>1, Zenon
  <2> DEFINE pos == q.pos
             d == q.data
             last == q.last
             cnt == q.cnt
             start == q.start
             out == q.out
  <2>3. q = GState(pos, d, last, cnt, start, out, FALSE)
    BY <2>1, <2>2 DEF GStates, GState
  <2> HIDE DEF pos, d, last, cnt, start, out
  <2>4. CASE start = 0
    <3>1. /\ Held(f, n, pos, d, last, 0) /\ last < GrepBuf /\ \A i \in 1 .. last : d[i] # NL
          /\ LineStart(f, h, pos - last, out) \/ (last = 0 /\ LineDone(f, n, h, pos, out))
      BY <1>2, <2>4, Zenon DEF GInv, pos, d, last, start, out
    <3>2. ReadsOn(f, n, h, GState(pos, d, last, cnt, 0, out, FALSE), pos, last, out)
      BY <3>1, ReadGives
    <3>3. PICK p2, w, l2, c : /\ Read(f, q) = GState(p2, w, l2, c, 0, out, FALSE)
                              /\ Ready(f, n, h, p2, w, l2, c, 0, out)
                              /\ p2 - l2 = pos - last
      BY <2>3, <2>4, <3>2, Zenon DEF ReadsOn
    <3>4. r = Line(s, GState(p2, w, l2, c, 0, out, FALSE))
      BY <1>2, <2>4, <3>3, Zenon DEF GrepTurn, start
    <3>5. Goes(f, n, h, r, (p2 - l2) + 0, 0)
      <4>1. Goes(f, n, h, Line(s, GState(p2, w, l2, c, 0, out, FALSE)), (p2 - l2) + 0, 0)
        BY <3>3, LineGoes
      <4> QED BY <3>4, <4>1
    <3>6. (p2 - l2) + 0 = (pos - last) + 0
      BY <3>3
    <3> HIDE DEF r
    <3> QED BY <1>2, <2>4, <3>5, <3>6, Zenon DEF Goes, TurnsOn, pos, last, start, r
  <2>5. CASE start # 0
    <3>1. Ready(f, n, h, pos, d, last, cnt, start, out)
      BY <1>2, <2>5, Zenon DEF GInv, pos, d, last, cnt, start, out
    <3>2. r = Line(s, GState(pos, d, last, cnt, start, out, FALSE))
      BY <1>2, <2>3, <2>5, Zenon DEF GrepTurn, start
    <3>3. Goes(f, n, h, r, (pos - last) + start, start)
      <4>1. Goes(f, n, h, Line(s, GState(pos, d, last, cnt, start, out, FALSE)), (pos - last) + start, start)
        BY <3>1, LineGoes
      <4> QED BY <3>2, <4>1
    <3> HIDE DEF r
    <3> QED BY <1>2, <3>3, Zenon DEF Goes, TurnsOn, pos, last, start, r
  <2> QED BY <2>4, <2>5
<1> QED BY <1>1, <1>2

GStart(g) == GState(0, [i \in 1 .. GrepBuf + 1 |-> g], 0, 0, 0, <<>>, FALSE)
LEMMA GrepStarts ==
  ASSUME NEW f, NEW n, IsText(f, n), NEW t, NEW h, Finds(h, f, t, n), NEW g \in 0 .. 255, g # NL \/ n <= GrepBuf
  PROVE  GInv(f, n, h, GStart(g)) /\ Fields(GStart(g), 0, [i \in 1 .. GrepBuf + 1 |-> g], 0, 0, 0, <<>>, FALSE)
<1> DEFINE d == [i \in 1 .. GrepBuf + 1 |-> g]
           q == GStart(g)
<1>1. n \in Nat /\ GrepBuf \in Nat /\ GrepBuf >= 1
  BY GrepAssumption DEF IsText
<1>2. IsData(d) /\ d[GrepBuf + 1] = g
  BY <1>1 DEF IsData
<1> HIDE DEF d
<1>3. <<>> \in Seq(Seq(Nat)) /\ 0 \in Nat /\ FALSE \in BOOLEAN
  OBVIOUS
<1>4. q = GState(0, d, 0, 0, 0, <<>>, FALSE)
  BY DEF GStart, d
<1> HIDE DEF q
<1>5. Fields(q, 0, d, 0, 0, 0, <<>>, FALSE)
  BY <1>2, <1>3, <1>4, GStateIs
<1>6. /\ q \in GStates /\ q.pos = 0 /\ q.data = d /\ q.last = 0 /\ q.cnt = 0 /\ q.start = 0
      /\ q.out = <<>> /\ q.done = FALSE
  BY <1>5, Zenon DEF Fields
<1>7. 0 - 0 = 0 /\ 0 <= n /\ 0 <= 0 /\ 0 <= GrepBuf /\ 0 < GrepBuf /\ \A i : i \notin 0 + 1 .. 0 /\ i \notin 1 .. 0
  BY <1>1
<1>8. Held(f, n, 0, d, 0, 0)
  BY <1>2, <1>3, <1>7, Zenon DEF Held
<1>9. LineStart(f, h, 0, <<>>)
  BY Zenon DEF LineStart, Finds, JoinedOf
<1>10. GInv(f, n, h, q)
  BY <1>6, <1>7, <1>8, <1>9, Zenon DEF GInv
<1> QED BY <1>5, <1>10 DEF q, d

(* The turns, and that the last of them ends the file.                     *)
GRun(G, s, f, g, N) ==
  /\ N \in Nat /\ N = 2 * Len(f) + 1 /\ G = [k \in 0 .. N |-> G[k]]
  /\ G[0] = GStart(g) /\ \A k \in 1 .. N : G[k] = GrepTurn(s, f, G[k - 1])
LEMMA FileIs ==
  ASSUME NEW s, NEW f, NEW g, NEW N, NEW G, GRun(G, s, f, g, N)
  PROVE  do_one_file(s, f, g) = G[N].out
<1>0. /\ N \in Nat /\ N = 2 * Len(f) + 1 /\ G = [k \in 0 .. N |-> G[k]]
      /\ G[0] = GStart(g) /\ \A k \in 1 .. N : G[k] = GrepTurn(s, f, G[k - 1])
  BY Zenon DEF GRun
<1> DEFINE H == CHOOSE H : H = [k \in 0 .. N |-> IF k = 0 THEN GStart(g) ELSE GrepTurn(s, f, H[k - 1])]
<1>1. do_one_file(s, f, g) = H[N].out
  BY <1>0, Zenon DEF do_one_file, GStart, GState
<1>2. G = [k \in 0 .. N |-> IF k = 0 THEN GStart(g) ELSE GrepTurn(s, f, G[k - 1])]
  <2>1. \A k \in 0 .. N : k = 0 \/ k \in 1 .. N
    BY <1>0
  <2>2. \A k \in 0 .. N : G[k] = IF k = 0 THEN GStart(g) ELSE GrepTurn(s, f, G[k - 1])
    BY <1>0, <2>1, Zenon
  <2> QED BY <1>0, <2>2, Zenon
<1>3. H = [k \in 0 .. N |-> IF k = 0 THEN GStart(g) ELSE GrepTurn(s, f, H[k - 1])]
  BY <1>2, Zenon
<1> HIDE DEF H
<1>4. H[0] = G[0] /\ \A k \in 1 .. N : H[k - 1] = G[k - 1] => H[k] = G[k]
  <2>1. 0 \in 0 .. N /\ \A k \in 1 .. N : k \in 0 .. N /\ k # 0
    BY <1>0
  <2>2. \A k \in 0 .. N : H[k] = IF k = 0 THEN GStart(g) ELSE GrepTurn(s, f, H[k - 1])
    BY <1>3, Zenon
  <2>3. H[0] = GStart(g)
    BY <2>1, <2>2, Zenon
  <2>4. \A k \in 1 .. N : H[k] = GrepTurn(s, f, H[k - 1])
    BY <2>1, <2>2, Zenon
  <2> QED BY <1>0, <2>3, <2>4, Zenon
<1>5. H[N] = G[N]
  BY <1>0, <1>4, Agree
<1> QED BY <1>1, <1>5, Zenon

Searching(f, t, g) == do_one_file(CString(t), f, g) = Found(f, t)

(* grep's search of a file prints just the lines with the text, whole and  *)
(* in order, wherever the reads cut them: for every size of the buffer,    *)
(* every file of any length whose lines fit the buffer, and every text;    *)
(* unless the byte behind the buffer happens to be a newline and the file  *)
(* does not fit the buffer (ece391grep.c:9-66).                            *)
THEOREM GrepFinds ==
  ASSUME NEW f, NEW n, IsText(f, n), ShortLines(f), NEW t, NEW m \in Nat \ {0}, IsText(t, m),
         NEW g \in 0 .. 255, g # NL \/ n <= GrepBuf
  PROVE  Searching(f, t, g)
<1> DEFINE s == CString(t)
           N == 2 * n + 1
<1>1. n \in Nat /\ Len(f) = n /\ N \in Nat
  BY DEF IsText
<1>2. PICK h : Finds(h, f, t, n) /\ Found(f, t) = h[n + 1]
  BY FindsIs, Zenon
<1> DEFINE X == {q \in GStates : GInv(f, n, h, q)}
           F == [k \in 1 .. N |-> [x \in X |-> GrepTurn(s, f, x)]]
<1>3. GStart(g) \in X
  <2>1. GInv(f, n, h, GStart(g))
    BY <1>2, GrepStarts
  <2> QED BY <2>1, Zenon DEF GInv
<1>4. \A x \in X : TurnsOn(f, n, h, x, GrepTurn(s, f, x))
  BY <1>2, TurnGoes
<1>5. \A x \in X : GrepTurn(s, f, x) \in X
  BY <1>4, Zenon DEF TurnsOn, GInv
<1>6. \A k \in 1 .. N : \A x \in X : F[k][x] = GrepTurn(s, f, x)
  BY Zenon
<1>7. \A x \in X : GInv(f, n, h, x)
  BY Zenon
<1> HIDE DEF X, F, s
<1>8. \A k \in 1 .. N : \A x \in X : F[k][x] \in X
  BY <1>5, <1>6, Zenon
<1>9. PICK G : Iterate(G, X, GStart(g), F, N)
  <2> HIDE DEF N
  <2> QED BY <1>1, <1>3, <1>8, Iterates
<1> HIDE DEF N
<1>10. \A k \in 1 .. N : k \in 0 .. N /\ k - 1 \in 0 .. N
  BY <1>1
<1>11. G \in [0 .. N -> X] /\ G[0] = GStart(g) /\ \A k \in 1 .. N : G[k] = GrepTurn(s, f, G[k - 1])
  BY <1>6, <1>9, <1>10, Zenon DEF Iterate
<1>12. do_one_file(s, f, g) = G[N].out
  <2>1. G = [k \in 0 .. N |-> G[k]] /\ N = 2 * Len(f) + 1
    BY <1>1, <1>11 DEF N
  <2>2. GRun(G, s, f, g, N)
    BY <1>1, <1>11, <2>1, Zenon DEF GRun
  <2> QED BY <2>2, FileIs
<1> DEFINE A(q) == Ahead(n, (q.pos - q.last) + q.start, q.start)
           S == {k \in 0 .. N : G[k].done \/ A(G[k]) <= N - k}
<1>13. \A k \in 0 .. N : GInv(f, n, h, G[k])
  BY <1>7, <1>11, Zenon
<1>14. ASSUME NEW k \in 0 .. N, ~G[k].done PROVE A(G[k]) \in Nat /\ A(G[k]) >= 1
  <2> DEFINE q == G[k]
  <2>1. Held(f, n, q.pos, q.data, q.last, q.start)
    BY <1>13, <1>14, Zenon DEF GInv
  <2> HIDE DEF q
  <2>2. q.pos \in Nat /\ q.last \in Nat /\ q.start \in Nat /\ q.pos <= n /\ q.last <= q.pos /\ q.start <= q.last
    BY <2>1 DEF Held
  <2>3. A(q) \in Nat /\ A(q) >= 1
    BY <1>1, <2>2 DEF Ahead
  <2> QED BY <2>3 DEF q
<1>15. 0 \in S
  <2> DEFINE q == GStart(g)
  <2>1. q.pos = 0 /\ q.last = 0 /\ q.start = 0
    BY <1>2, GrepStarts, Zenon DEF Fields
  <2> HIDE DEF q
  <2>2. A(q) = 2 * n + 1
    BY <1>1, <2>1 DEF Ahead
  <2>3. 0 \in 0 .. N /\ A(G[0]) <= N - 0
    BY <1>1, <1>11, <2>2 DEF q, N
  <2> HIDE DEF A
  <2> QED BY <2>3, Zenon
<1>16. ASSUME NEW k \in 1 .. N, k - 1 \in S PROVE k \in S
  <2>1. TurnsOn(f, n, h, G[k - 1], G[k])
    BY <1>4, <1>10, <1>11, Zenon
  <2>2. CASE G[k - 1].done
    BY <1>10, <2>1, <2>2, Zenon DEF TurnsOn
  <2>3. CASE ~G[k - 1].done
    <3>1. CASE G[k].done
      BY <1>10, <3>1, Zenon
    <3>2. CASE ~G[k].done
      <4>1. A(G[k]) < A(G[k - 1])
        BY <2>1, <2>3, <3>2, Zenon DEF TurnsOn
      <4>2. A(G[k]) \in Nat /\ A(G[k - 1]) \in Nat
        BY <1>10, <1>14, <2>3, <3>2, Zenon
      <4>3. A(G[k - 1]) <= N - (k - 1)
        BY <1>16, <2>3, Zenon
      <4> HIDE DEF A
      <4>4. A(G[k]) <= N - k
        BY <1>1, <4>1, <4>2, <4>3
      <4> QED BY <1>10, <4>4, Zenon
    <3> QED BY <3>1, <3>2
  <2> QED BY <2>2, <2>3
<1>17. N \in S
  <2>1. N \in 0 .. N
    BY <1>1
  <2> HIDE DEF S
  <2> QED BY <1>1, <1>15, <1>16, <2>1, UpTo
<1>18. G[N].done
  <2>1. SUFFICES ASSUME ~G[N].done PROVE FALSE
    BY <2>1
  <2>2. N \in 0 .. N /\ N - N = 0
    BY <1>1
  <2>3. A(G[N]) \in Nat /\ A(G[N]) >= 1 /\ A(G[N]) <= 0
    BY <1>14, <1>17, <2>1, <2>2, Zenon
  <2> HIDE DEF A
  <2> QED BY <2>3
<1>19. G[N].out = h[n + 1]
  <2>1. N \in 0 .. N
    BY <1>1
  <2> QED BY <1>13, <1>18, <2>1, Zenon DEF GInv
<1> QED BY <1>2, <1>12, <1>19, Zenon DEF Searching, s

(* In a file without bytes nothing is found.                               *)
LEMMA NothingFound ==
  ASSUME NEW t, NEW m \in Nat \ {0}, IsText(t, m)
  PROVE  IsText(<<>>, 0) /\ ShortLines(<<>>) /\ Found(<<>>, t) = <<>>
<1>1. IsText(<<>>, 0)
  <2>1. <<>> \in Seq(Nat) /\ Len(<<>>) = 0 /\ 0 \in Nat
    OBVIOUS
  <2>2. <<>> \in [1 .. 0 -> 1 .. 255]
    OBVIOUS
  <2> QED BY <2>1, <2>2, Zenon DEF IsText
<1>2. ShortLines(<<>>)
  <2>1. \A b : b \notin 0 .. Len(<<>>) - GrepBuf - 1
    BY GrepAssumption
  <2> QED BY <2>1, Zenon DEF ShortLines
<1>3. PICK h : Finds(h, <<>>, t, 0) /\ Found(<<>>, t) = h[0 + 1]
  BY <1>1, FindsIs, Zenon
<1>4. IsLine(<<>>, 0, 0, 0)
  BY DEF IsLine
<1>5. h[0 + 1] = More(h, <<>>, t, m, 0, 0)
  BY <1>1, <1>3, <1>4, LineFound
<1>6. ~Hits(<<>>, t, m, 0, 0)
  <2>1. \A c : c \notin 0 .. 0 - m
    OBVIOUS
  <2> QED BY <2>1, Zenon DEF Hits
<1>7. h[0] = <<>>
  BY <1>3, Zenon DEF Finds, JoinedOf
<1> QED BY <1>1, <1>2, <1>3, <1>5, <1>6, <1>7, Zenon DEF More

(* grep prints the lines with the text of the files of the directory, with *)
(* the name of the file, and ends at a failure, whatever is tried          *)
(* (ece391grep.c:9-97).                                                    *)
THEOREM GrepAlways == input \in GrepInputs => GrepRight
<1> SUFFICES ASSUME input \in GrepInputs PROVE GrepRight
  OBVIOUS
<1> DEFINE file == input.file
           t == input.t
           g == input.g
           n == Len(file)
           m == Len(t)
           s == CString(t)
           right == Found(file, t)
           fails == input.fails
           e1 == [name |-> <<Dot>>, file |-> <<97>>, fails |-> "none"]
           e2 == [name |-> <<100>>, file |-> <<>>, fails |-> fails]
           e3 == [name |-> <<99>>, file |-> file, fails |-> "none"]
           dir == <<e1, e2, e3>>
           want == [i \in 1 .. Len(right) |-> <<<<99>>, right[i]>>]
<1>1. file \in Contents /\ t \in {<<>>, <<97>>, <<97, 98>>} /\ g \in {NL, 7} /\ fails \in Failures
  BY DEF GrepInputs
<1>2. IsText(file, n)
  <2> DEFINE x == file
  <2>1. PICK k \in 0 .. MaxFile : x \in [1 .. k -> {97, 98, NL}]
    BY <1>1, Zenon DEF Contents
  <2>2. k \in Nat
    BY GrepAssumption
  <2>3. \A c \in {97, 98, NL} : c \in 1 .. 255 /\ c \in Nat
    BY DEF NL
  <2> HIDE DEF x
  <2>4. x \in [1 .. k -> 1 .. 255] /\ x \in [1 .. k -> Nat]
    BY <2>1, <2>3, Zenon
  <2>5. x \in Seq(Nat) /\ Len(x) = k
    BY <2>2, <2>4
  <2>6. IsText(x, Len(x))
    BY <2>2, <2>4, <2>5, Zenon DEF IsText
  <2> QED BY <2>6 DEF x
<1>3. IsText(t, m)
  <2> DEFINE x == t
  <2>1. \/ x = <<>> \/ x = <<97>> \/ x = <<97, 98>>
    BY <1>1
  <2> HIDE DEF x
  <2>2. x \in Seq(Nat) /\ Len(x) \in Nat /\ x \in [1 .. Len(x) -> 1 .. 255]
    <3>1. x \in Seq(Nat) /\ Len(x) \in Nat /\ \A i \in 1 .. Len(x) : x[i] \in 1 .. 255
      <4> DEFINE Fine(y) == y \in Seq(Nat) /\ Len(y) \in Nat /\ \A i \in 1 .. Len(y) : y[i] \in 1 .. 255
      <4>1. Fine(<<>>)
        OBVIOUS
      <4>2. Fine(<<97>>)
        OBVIOUS
      <4>3. Fine(<<97, 98>>)
        OBVIOUS
      <4>4. Fine(x)
        <5> HIDE DEF Fine
        <5> QED BY <2>1, <4>1, <4>2, <4>3, Zenon
      <4> QED BY <4>4, Zenon
    <3>2. x = [i \in 1 .. Len(x) |-> x[i]]
      BY <3>1
    <3> QED BY <3>1, <3>2, Zenon
  <2>3. IsText(x, Len(x))
    BY <2>2, Zenon DEF IsText
  <2> QED BY <2>3 DEF x
<1>4. strlen(s) = m
  BY <1>3, CStringHolds, StrlenIs, Zenon
<1>5. m \in Nat /\ (m = 0 <=> t = <<>>)
  <2> DEFINE x == t
  <2>1. \/ x = <<>> \/ x = <<97>> \/ x = <<97, 98>>
    BY <1>1
  <2> HIDE DEF x
  <2>2. Len(x) \in Nat /\ (Len(x) = 0 <=> x = <<>>)
    BY <2>1
  <2> QED BY <2>2 DEF x
<1>6. g \in 0 .. 255
  BY <1>1 DEF NL
<1> SUFFICES ASSUME ShortLines(file), g # NL \/ n <= GrepBuf
             PROVE  grep(s, fails # "directory", dir, g) =
                      IF t = <<>> THEN [exit |-> 3, out |-> <<>>]
                      ELSE IF fails = "none" THEN [exit |-> 0, out |-> want]
                      ELSE [exit |-> IF fails = "directory" THEN 2 ELSE 3, out |-> <<>>]
  BY Zenon DEF GrepRight
<1> HIDE DEF file, t, g, n, s, right, fails
<1>7. CASE t = <<>>
  <2>1. strlen(s) = 0
    BY <1>4, <1>5, <1>7, Zenon
  <2> QED BY <1>7, <2>1, Zenon DEF grep
<1>8. CASE t # <<>>
  <2>1. m \in Nat \ {0} /\ strlen(s) # 0
    BY <1>4, <1>5, <1>8
  <2> HIDE DEF m
  <2>2. do_one_file(s, file, g) = right
    <3>1. Searching(file, t, g)
      BY <1>2, <1>3, <1>6, <2>1, GrepFinds
    <3> QED BY <3>1 DEF Searching, s, right
  <2>3. do_one_file(s, <<>>, g) = <<>>
    <3>1. IsText(<<>>, 0) /\ ShortLines(<<>>) /\ Found(<<>>, t) = <<>>
      BY <1>3, <2>1, NothingFound
    <3>2. 0 <= GrepBuf
      BY GrepAssumption
    <3>3. Searching(<<>>, t, g)
      BY <1>3, <1>6, <2>1, <3>1, <3>2, GrepFinds
    <3> QED BY <3>1, <3>3, Zenon DEF Searching, s
  <2>4. right \in Seq(Seq(Nat))
    <3>1. PICK h : Finds(h, file, t, n) /\ right = h[n + 1]
      BY <1>2, FindsIs, Zenon DEF right
    <3>2. n + 1 \in 0 .. n + 1
      BY <1>2 DEF IsText
    <3> QED BY <1>2, <3>1, <3>2, FoundTyped
  <2>5. CASE fails = "directory"
    <3>1. fails # "none"
      BY <2>5
    <3> QED BY <1>8, <2>1, <2>5, <3>1, Zenon DEF grep
  <2>6. CASE fails # "directory"
    <3> DEFINE last == IF fails = "none" THEN want ELSE <<>>
               V == {want[i] : i \in 1 .. Len(right)}
               E == [k \in 1 .. Len(dir) |-> IF Left(dir, k) THEN <<>> ELSE Each(s, dir[k], g)]
    <3>1. want \in Seq(V)
      <4>1. Len(right) \in Nat
        BY <2>4
      <4> DEFINE L == Len(right)
      <4>2. want \in [1 .. L -> V]
        BY Zenon
      <4> HIDE DEF want, L, V
      <4> QED BY <4>1, <4>2 DEF L
    <3>2. Len(dir) = 3 /\ dir[1] = e1 /\ dir[2] = e2 /\ dir[3] = e3
      OBVIOUS
    <3>3. /\ e1.name[1] = Dot /\ e2.name[1] # Dot /\ e3.name[1] # Dot
          /\ e3.name = <<99>> /\ e3.file = file /\ e2.file = <<>>
          /\ e1.fails = "none" /\ e2.fails = fails /\ e3.fails = "none"
      BY DEF Dot
    <3> HIDE DEF e1, e2, e3, dir
    <3>4. ~Fails(e1) /\ ~Fails(e3) /\ (Fails(e2) <=> fails # "none")
      BY <3>3 DEF Fails
    <3>5. /\ ~Left(dir, 1) /\ ~Left(dir, 2) /\ (Left(dir, 3) <=> fails # "none")
          /\ Left(dir, Len(dir) + 1) <=> fails # "none"
      <4>1. /\ \A j : j \notin 1 .. 1 - 1
            /\ \A j : j \in 1 .. 2 - 1 <=> j = 1
            /\ \A j : j \in 1 .. 3 - 1 <=> j = 1 \/ j = 2
            /\ \A j : j \in 1 .. (3 + 1) - 1 <=> j = 1 \/ j = 2 \/ j = 3
        OBVIOUS
      <4>2. ~Left(dir, 1) /\ ~Left(dir, 2)
        BY <3>2, <3>4, <4>1, Zenon DEF Left
      <4>3. Left(dir, 3) <=> fails # "none"
        BY <3>2, <3>4, <4>1, Zenon DEF Left
      <4>4. Left(dir, 3 + 1) <=> fails # "none"
        BY <3>2, <3>4, <4>1, Zenon DEF Left
      <4> QED BY <3>2, <4>2, <4>3, <4>4, Zenon
    <3>6. Each(s, e1, g) = <<>>
      BY <3>3, Zenon DEF Each
    <3>7. Each(s, e3, g) = want
      <4>1. e3.fails \notin {"entry", "open", "read"}
        BY <3>3
      <4> QED BY <2>2, <3>3, <4>1, Zenon DEF Each
    <3>8. Each(s, e2, g) = <<>>
      <4> DEFINE y == [i \in 1 .. Len(<<>>) |-> <<e2.name, <<>>[i]>>]
      <4>1. Each(s, e2, g) = <<>> \/ Each(s, e2, g) = y
        BY <2>3, <3>3, Zenon DEF Each
      <4>2. y = <<>>
        OBVIOUS
      <4> QED BY <4>1, <4>2
    <3> HIDE DEF want, V
    <3>9. E = [k \in 1 .. 3 |-> IF Left(dir, k) THEN <<>> ELSE Each(s, dir[k], g)]
      BY <3>2
    <3>10. 1 \in 1 .. 3 /\ 2 \in 1 .. 3 /\ 3 \in 1 .. 3 /\ 3 \in Nat /\ \A k \in 1 .. 3 : k = 1 \/ k = 2 \/ k = 3
      OBVIOUS
    <3>11. /\ E[1] = IF Left(dir, 1) THEN <<>> ELSE Each(s, dir[1], g)
           /\ E[2] = IF Left(dir, 2) THEN <<>> ELSE Each(s, dir[2], g)
           /\ E[3] = IF Left(dir, 3) THEN <<>> ELSE Each(s, dir[3], g)
      BY <3>9, <3>10, Zenon
    <3> HIDE DEF E
    <3>12. E[1] = <<>> /\ E[2] = <<>> /\ E[3] = last
      BY <3>2, <3>5, <3>6, <3>7, <3>8, <3>11, Zenon
    <3>13. <<>> \in Seq(V)
      OBVIOUS
    <3>14. last \in Seq(V)
      BY <3>1, <3>13, Zenon
    <3> HIDE DEF last
    <3>15. \A k \in 1 .. 3 : E[k] \in Seq(V)
      BY <3>10, <3>12, <3>13, <3>14, Zenon
    <3>16. Len(E) = 3
      <4> DEFINE D == 1 .. 3
      <4>1. E = [k \in D |-> E[k]]
        BY <3>9, Zenon DEF E
      <4>2. E \in [1 .. 3 -> Seq(V)]
        BY <3>15, <4>1, Zenon
      <4> QED BY <4>2
    <3>17. grep(s, fails # "directory", dir, g) =
             [exit |-> IF Left(dir, Len(dir) + 1) THEN 3 ELSE 0, out |-> Flat(E)]
      BY <2>1, <2>6, Zenon DEF grep, E
    <3>18. PICK h : JoinedOf(h, E, 3, V) /\ Flat(E) = h[3]
      BY <3>10, <3>15, <3>16, FlatsAre
    <3>19. h[0] = <<>> /\ h[1] = h[0] \o E[1] /\ h[2] = h[1] \o E[2] /\ h[3] = h[2] \o E[3]
      <4>1. \A k \in 1 .. 3 : h[k] = h[k - 1] \o E[k]
        BY <3>18, Zenon DEF JoinedOf
      <4>2. h[1] = h[1 - 1] \o E[1] /\ h[2] = h[2 - 1] \o E[2] /\ h[3] = h[3 - 1] \o E[3]
        BY <3>10, <4>1, Zenon
      <4>3. 1 - 1 = 0 /\ 2 - 1 = 1 /\ 3 - 1 = 2
        OBVIOUS
      <4>4. h[0] = <<>>
        BY <3>18, Zenon DEF JoinedOf
      <4> QED BY <4>2, <4>3, <4>4
    <3>20. \A x \in Seq(V) : <<>> \o x = x
      OBVIOUS
    <3>21. h[3] = last
      BY <3>12, <3>13, <3>14, <3>19, <3>20, Zenon
    <3>22. CASE fails = "none"
      <4>1. last = want
        BY <3>22 DEF last
      <4> QED BY <1>8, <3>5, <3>17, <3>18, <3>21, <3>22, <4>1, Zenon
    <3>23. CASE fails # "none"
      <4>1. last = <<>>
        BY <3>23 DEF last
      <4> QED BY <1>8, <2>6, <3>5, <3>17, <3>18, <3>21, <3>23, <4>1, Zenon
    <3> QED BY <3>22, <3>23
  <2> QED BY <2>5, <2>6
<1> QED BY <1>7, <1>8
=============================================================================
