---------------------------- MODULE BlinkProofs -----------------------------
(***************************************************************************)
(* What is proved of the list of blinks, for every number of structures,   *)
(* width of a word, screen and set of lengths.                             *)
(*                                                                         *)
(* The invariant names the structures of the list in their order, as a     *)
(* function p on 1..n: After, which follows the pointers, is then shown to *)
(* run along p.                                                            *)
(***************************************************************************)
EXTENDS Blink, FiniteSetTheorems, SequenceTheorems, WellFoundedInduction, TLAPS

(* From hd, over NEXT, through p[1] to p[n] and to NULL: no structure      *)
(* twice, and just those with a location.                                  *)
Path(p, n, h, hd) ==
  /\ n \in Nat /\ p \in [1 .. n -> Slots]
  /\ \A i, j \in 1 .. n : p[i] = p[j] => i = j
  /\ hd = IF n = 0 THEN 0 ELSE p[1]
  /\ \A i \in 1 .. n : h[p[i]].next = IF i = n THEN 0 ELSE p[i + 1]
  /\ \A s \in Slots : h[s].loc # 0 <=> \E i \in 1 .. n : p[i] = s

IsBlink(r) == DOMAIN r = {"loc", "chars", "lens", "countdown", "status", "next"}
              /\ r = [f \in DOMAIN r |-> r[f]]

PathInv ==
  /\ DOMAIN heap = Slots /\ heap = [s \in Slots |-> heap[s]]
  /\ \A s \in Slots : IsBlink(heap[s])
  /\ \E n, p : Path(p, n, heap, head)
-----------------------------------------------------------------------------
(* A set of numbers has a least element, and if it is bounded a greatest.  *)
LEMMA Least ==
  ASSUME NEW T \in SUBSET Nat, T # {}
  PROVE  \E i \in T : \A j \in T : i <= j
<1> DEFINE R == OpToRel(<, Nat)
<1>1. IsWellFoundedOn(R, Nat)
  BY NatLessThanWellFounded
<1>2. \A x, y \in Nat : <<y, x>> \notin R => x <= y
  BY SMT DEF OpToRel
<1> HIDE DEF R
<1>3. \E x \in T : \A y \in T : ~(<<y, x>> \in R)
  BY <1>1, WFMin, Zenon
<1> QED
  BY <1>2, <1>3

LEMMA Greatest ==
  ASSUME NEW T, T # {}, NEW b \in Nat, T \subseteq 0 .. b
  PROVE  \E i \in T : \A j \in T : j <= i
<1> DEFINE U == {b - i : i \in T}
<1>1. U \in SUBSET Nat /\ U # {}
  <2>1. \A i \in T : b - i \in Nat
    OBVIOUS
  <2>2. PICK i : i \in T
    OBVIOUS
  <2>3. b - i \in U
    BY <2>2
  <2> QED
    BY <2>1, <2>3
<1>2. PICK u \in U : \A v \in U : u <= v
  BY <1>1, Least
<1>3. PICK i \in T : u = b - i
  BY <1>2
<1>4. ASSUME NEW j \in T PROVE j <= i
  <2>1. b - i <= b - j
    BY <1>2, <1>3
  <2> QED
    BY <2>1
<1> QED
  BY <1>4

(* A path is not longer than the array.                                    *)
LEMMA PathBound ==
  ASSUME NEW n, NEW p, NEW h, NEW hd, Path(p, n, h, hd)
  PROVE  n <= NSlots
<1>1. p \in Injection(1 .. n, Slots)
  BY DEF Path, Injection, IsInjective
<1>2. IsFiniteSet(Slots) /\ Cardinality(Slots) = NSlots
  BY BlinkAssumption, FS_Interval DEF Slots
<1>3. Cardinality(1 .. n) = n
  BY FS_Interval DEF Path
<1>4. Cardinality(1 .. n) <= Cardinality(Slots)
  BY <1>1, <1>2, FS_Injection
<1> QED
  BY <1>2, <1>3, <1>4

(* After runs along the path.                                              *)
LEMMA AfterPath ==
  ASSUME NEW n, NEW p, Path(p, n, heap, head)
  PROVE  \A k \in 0 .. NSlots : After[k] = IF k < n THEN p[k + 1] ELSE 0
<1> DEFINE f == [k \in 0 .. NSlots |-> IF k < n THEN p[k + 1] ELSE 0]
           S(g, k) == IF k = 0 THEN head ELSE IF g[k - 1] = 0 THEN 0 ELSE heap[g[k - 1]].next
<1>0. n \in Nat /\ NSlots \in Nat /\ n <= NSlots /\ 0 \notin Slots
  <2>1. n <= NSlots
    BY PathBound
  <2> QED
    BY <2>1, BlinkAssumption DEF Path, Slots
<1>1. \A k \in 0 .. NSlots : f[k] = S(f, k)
  <2> SUFFICES ASSUME NEW k \in 0 .. NSlots PROVE f[k] = S(f, k)
    OBVIOUS
  <2>1. CASE k = 0
    BY <1>0, <2>1 DEF Path
  <2>2. CASE k > 0 /\ k - 1 < n
    <3>1. k \in 1 .. n /\ k - 1 \in 0 .. NSlots
      BY <1>0, <2>2
    <3>2. f[k - 1] = p[k] /\ p[k] \in Slots
      BY <1>0, <2>2, <3>1 DEF Path
    <3>3. heap[p[k]].next = IF k = n THEN 0 ELSE p[k + 1]
      BY <3>1 DEF Path
    <3>4. f[k] = IF k < n THEN p[k + 1] ELSE 0
      OBVIOUS
    <3> HIDE DEF f
    <3> QED
      BY <1>0, <2>2, <3>1, <3>2, <3>3, <3>4
  <2>3. CASE k > 0 /\ ~(k - 1 < n)
    <3>1. f[k - 1] = 0 /\ f[k] = 0
      BY <1>0, <2>3
    <3> HIDE DEF f
    <3> QED
      BY <2>3, <3>1
  <2> QED
    BY <2>1, <2>2, <2>3
<1>2. f = [k \in 0 .. NSlots |-> IF k = 0 THEN head ELSE
             IF f[k - 1] = 0 THEN 0 ELSE heap[f[k - 1]].next]
  <2>1. DOMAIN f = 0 .. NSlots /\ f = [k \in 0 .. NSlots |-> f[k]]
    OBVIOUS
  <2> HIDE DEF f
  <2> QED
    BY <1>1, <2>1
<1> HIDE DEF f
<1>3. After = [k \in 0 .. NSlots |-> IF k = 0 THEN head ELSE
             IF After[k - 1] = 0 THEN 0 ELSE heap[After[k - 1]].next]
  BY <1>2 DEF After
<1>4. \A k \in 0 .. NSlots : After[k] = S(After, k)
  BY <1>3
<1> DEFINE T == {k \in 0 .. NSlots : After[k] # f[k]}
<1>5. T = {}
  <2> SUFFICES ASSUME T # {} PROVE FALSE
    OBVIOUS
  <2>1. T \in SUBSET Nat
    OBVIOUS
  <2>2. PICK k \in T : \A j \in T : k <= j
    BY <2>1, Least
  <2>3. k \in 0 .. NSlots /\ After[k] # f[k]
    BY <2>2
  <2>4. CASE k = 0
    BY <1>1, <1>4, <2>3, <2>4
  <2>5. CASE k # 0
    <3>0. NSlots \in Nat
      BY <1>0
    <3>1. k - 1 \in 0 .. NSlots /\ ~(k <= k - 1)
      <4> HIDE DEF T
      <4> QED
        BY <2>3, <2>5, <3>0
    <3>2. After[k - 1] = f[k - 1]
      BY <2>2, <3>1
    <3> QED
      BY <1>1, <1>4, <2>3, <2>5, <3>2
  <2> QED
    BY <2>4, <2>5
<1>6. \A k \in 0 .. NSlots : f[k] = IF k < n THEN p[k + 1] ELSE 0
  BY DEF f
<1> QED
  BY <1>5, <1>6

LEMMA LinkedPath ==
  ASSUME NEW n, NEW p, Path(p, n, heap, head)
  PROVE  /\ Linked = 0 .. n - 1
         /\ \A k \in Linked : After[k] = p[k + 1] /\ k + 1 \in 1 .. n
         /\ \A i \in 1 .. n : i - 1 \in Linked /\ After[i - 1] = p[i]
         /\ InList = {p[i] : i \in 1 .. n}
         /\ \A s : s \in InList <=> \E i \in 1 .. n : p[i] = s
<1>0. n \in Nat /\ NSlots \in Nat /\ n <= NSlots /\ 0 \notin Slots /\ p \in [1 .. n -> Slots]
  <2>1. n <= NSlots
    BY PathBound
  <2> QED
    BY <2>1, BlinkAssumption DEF Path, Slots
<1>1. \A k \in 0 .. NSlots : After[k] = IF k < n THEN p[k + 1] ELSE 0
  BY AfterPath
<1>2. \A k \in 0 .. n - 1 : k + 1 \in 1 .. n /\ p[k + 1] \in Slots /\ After[k] = p[k + 1]
  BY <1>0, <1>1
<1>3. Linked = 0 .. n - 1
  <2>1. ASSUME NEW k \in 0 .. NSlots - 1 PROVE After[k] # 0 <=> k \in 0 .. n - 1
    BY <1>0, <1>1, <1>2
  <2> QED
    BY <1>0, <2>1 DEF Linked
<1>4. \A i \in 1 .. n : i - 1 \in Linked /\ After[i - 1] = p[i]
  <2> SUFFICES ASSUME NEW i \in 1 .. n PROVE i - 1 \in Linked /\ After[i - 1] = p[i]
    OBVIOUS
  <2>1. i - 1 \in 0 .. n - 1 /\ (i - 1) + 1 = i
    BY <1>0
  <2> QED
    BY <1>2, <1>3, <2>1
<1>5. \A s : s \in InList <=> \E i \in 1 .. n : p[i] = s
  <2>1. ASSUME NEW s \in InList PROVE \E i \in 1 .. n : p[i] = s
    <3>1. PICK k \in Linked : s = After[k]
      BY DEF InList
    <3> QED
      BY <1>2, <1>3, <3>1
  <2>2. ASSUME NEW i \in 1 .. n PROVE p[i] \in InList
    BY <1>4 DEF InList
  <2> QED
    BY <2>1, <2>2
<1> QED
  BY <1>2, <1>3, <1>4, <1>5

(* The list is sound when there is a path.                                 *)
LEMMA PathSound == PathInv => ListSound
<1> SUFFICES ASSUME PathInv PROVE ListSound
  OBVIOUS
<1>1. PICK n, p : Path(p, n, heap, head)
  BY DEF PathInv
<1>2. NSlots \in Nat /\ n \in Nat /\ n <= NSlots
  <2>1. n <= NSlots
    BY <1>1, PathBound
  <2> QED
    BY <1>1, <2>1, BlinkAssumption DEF Path
<1>3. After[NSlots] = 0
  BY <1>1, <1>2, AfterPath
<1>4. \A s : s \in InList <=> \E i \in 1 .. n : p[i] = s
  BY <1>1, LinkedPath
<1>5. \A s : s \in InList => s \in Slots
  BY <1>1, <1>4 DEF Path
<1>6. \A s \in Slots : s \in InList <=> heap[s].loc # 0
  BY <1>1, <1>4 DEF Path
<1> QED
  BY <1>3, <1>5, <1>6 DEF ListSound, FreeSlots
-----------------------------------------------------------------------------
(* What the operations do to a path.                                       *)
LEMMA PathSame ==
  ASSUME NEW n, NEW p, NEW h, NEW hd, Path(p, n, h, hd), NEW g,
         \A s \in Slots : g[s].loc = h[s].loc /\ g[s].next = h[s].next
  PROVE  Path(p, n, g, hd)
BY DEF Path

Longer(p, n, s) == [i \in 1 .. n + 1 |-> IF i = 1 THEN s ELSE p[i - 1]]

LEMMA PathAdd ==
  ASSUME NEW n, NEW p, NEW h, NEW hd, Path(p, n, h, hd),
         NEW s \in Slots, h[s].loc = 0, NEW g, g[s].loc # 0, g[s].next = hd,
         \A t \in Slots : t # s => g[t].loc = h[t].loc /\ g[t].next = h[t].next
  PROVE  Path(Longer(p, n, s), n + 1, g, s)
<1> DEFINE q == Longer(p, n, s)
<1>0. n \in Nat /\ p \in [1 .. n -> Slots]
  BY DEF Path
<1>1. /\ q[1] = s
      /\ \A i \in 1 .. n : i + 1 \in 1 .. n + 1 /\ q[i + 1] = p[i] /\ p[i] \in Slots /\ p[i] # s
      /\ \A i \in 1 .. n + 1 : i # 1 => i - 1 \in 1 .. n /\ q[i] = p[i - 1]
  <2>1. q[1] = s
    BY <1>0 DEF Longer
  <2>2. \A i \in 1 .. n + 1 : i # 1 => i - 1 \in 1 .. n /\ q[i] = p[i - 1]
    BY <1>0 DEF Longer
  <2>3. \A i \in 1 .. n : i + 1 \in 1 .. n + 1 /\ q[i + 1] = p[i]
    BY <1>0 DEF Longer
  <2>4. \A i \in 1 .. n : p[i] \in Slots /\ p[i] # s
    BY <1>0 DEF Path
  <2> QED
    BY <2>1, <2>2, <2>3, <2>4
<1>2. q \in [1 .. n + 1 -> Slots]
  BY <1>0 DEF Longer
<1> HIDE DEF q
<1>3. ASSUME NEW i \in 1 .. n + 1, NEW j \in 1 .. n + 1, q[i] = q[j] PROVE i = j
  <2>1. CASE i = 1 \/ j = 1
    BY <1>0, <1>1, <1>3, <2>1
  <2>2. CASE i # 1 /\ j # 1
    <3>1. i - 1 = j - 1
      BY <1>1, <1>3, <2>2 DEF Path
    <3> QED
      BY <1>0, <3>1
  <2> QED
    BY <2>1, <2>2
<1>4. ASSUME NEW i \in 1 .. n + 1
      PROVE  g[q[i]].next = IF i = n + 1 THEN 0 ELSE q[i + 1]
  <2>1. CASE i = 1
    <3>1. CASE n = 0
      BY <1>1, <2>1, <3>1 DEF Path
    <3>2. CASE n # 0
      <4>1. 1 \in 1 .. n /\ 1 # n + 1
        BY <1>0, <3>2
      <4>2. q[2] = p[1]
        BY <1>1, <4>1
      <4> QED
        BY <1>1, <2>1, <3>2, <4>1, <4>2 DEF Path
    <3> QED
      BY <3>1, <3>2
  <2>2. CASE i # 1
    <3>1. i - 1 \in 1 .. n /\ q[i] = p[i - 1]
      BY <1>1, <2>2
    <3>2. g[q[i]].next = IF i - 1 = n THEN 0 ELSE p[(i - 1) + 1]
      BY <1>1, <3>1 DEF Path
    <3>3. (i - 1) + 1 = i /\ (i - 1 = n <=> i = n + 1)
      BY <1>0
    <3>4. i # n + 1 => i \in 1 .. n
      BY <1>0
    <3> QED
      BY <1>1, <3>2, <3>3, <3>4
  <2> QED
    BY <2>1, <2>2
<1>5. ASSUME NEW t \in Slots
      PROVE  g[t].loc # 0 <=> \E i \in 1 .. n + 1 : q[i] = t
  <2>1. CASE t = s
    <3>1. 1 \in 1 .. n + 1
      BY <1>0
    <3> QED
      BY <1>1, <2>1, <3>1
  <2>2. CASE t # s
    <3>1. g[t].loc # 0 <=> \E i \in 1 .. n : p[i] = t
      BY <2>2 DEF Path
    <3>2. (\E i \in 1 .. n : p[i] = t) <=> \E i \in 1 .. n + 1 : q[i] = t
      BY <1>1, <2>2
    <3> QED
      BY <3>1, <3>2
  <2> QED
    BY <2>1, <2>2
<1>6. n + 1 \in Nat /\ n + 1 # 0
  BY <1>0
<1> QED
  BY <1>1, <1>2, <1>3, <1>4, <1>5, <1>6 DEF Path, q

Shorter(p, n, m) == [i \in 1 .. n - 1 |-> IF i < m THEN p[i] ELSE p[i + 1]]

LEMMA PathRemove ==
  ASSUME NEW n, NEW p, NEW h, NEW hd, Path(p, n, h, hd), NEW m \in 1 .. n,
         NEW g, g[p[m]].loc = 0,
         \A t \in Slots : t # p[m] =>
           /\ g[t].loc = h[t].loc
           /\ h[t].loc # 0 =>
                g[t].next = IF h[t].next = p[m] THEN h[p[m]].next ELSE h[t].next
  PROVE  Path(Shorter(p, n, m), n - 1, g, IF hd = p[m] THEN h[p[m]].next ELSE hd)
<1> DEFINE q == Shorter(p, n, m)
<1>0. n \in Nat /\ p \in [1 .. n -> Slots] /\ n - 1 \in Nat /\ m \in Int /\ 0 \notin Slots
  BY DEF Path, Slots
<1>1. \A i \in 1 .. n - 1 : /\ i \in 1 .. n /\ i + 1 \in 1 .. n
                            /\ q[i] = IF i < m THEN p[i] ELSE p[i + 1]
  BY <1>0 DEF Shorter
<1>2. q \in [1 .. n - 1 -> Slots]
  BY <1>0 DEF Shorter
<1> HIDE DEF q
<1>3. \A i, j \in 1 .. n : p[i] = p[j] => i = j
  BY DEF Path
<1>4. ASSUME NEW i \in 1 .. n - 1, NEW j \in 1 .. n - 1, q[i] = q[j] PROVE i = j
  BY <1>0, <1>1, <1>3, <1>4
<1>5. \A i \in 1 .. n : h[p[i]].next = IF i = n THEN 0 ELSE p[i + 1]
  BY DEF Path
<1>6. ASSUME NEW i \in 1 .. n, i # m
      PROVE  /\ p[i] # p[m] /\ p[i] \in Slots /\ h[p[i]].loc # 0
             /\ g[p[i]].next = IF h[p[i]].next = p[m] THEN h[p[m]].next ELSE h[p[i]].next
  <2>1. p[i] # p[m] /\ p[i] \in Slots
    BY <1>0, <1>3, <1>6
  <2>2. h[p[i]].loc # 0
    BY <2>1 DEF Path
  <2> QED
    BY <2>1, <2>2
<1>7. ASSUME NEW i \in 1 .. n - 1
      PROVE  g[q[i]].next = IF i = n - 1 THEN 0 ELSE q[i + 1]
  <2>0. i \in 1 .. n /\ i + 1 \in 1 .. n /\ (i # n - 1 => i + 1 \in 1 .. n - 1)
    BY <1>0
  <2>1. CASE i < m - 1
    <3>1. /\ q[i] = p[i] /\ i # m /\ i # n /\ i + 1 # m
          /\ (i # n - 1 => q[i + 1] = p[i + 1]) /\ i # n - 1
      BY <1>0, <1>1, <2>0, <2>1
    <3>2. h[p[i]].next = p[i + 1] /\ p[i + 1] # p[m]
      BY <1>3, <1>5, <2>0, <3>1
    <3> QED
      BY <1>6, <2>0, <3>1, <3>2
  <2>2. CASE i = m - 1
    <3>1. q[i] = p[i] /\ i # m /\ i # n /\ i + 1 = m
      BY <1>0, <1>1, <2>0, <2>2
    <3>2. h[p[i]].next = p[m]
      BY <1>5, <2>0, <3>1
    <3>3. g[p[i]].next = h[p[m]].next
      BY <1>6, <2>0, <3>1, <3>2
    <3>4. h[p[m]].next = IF m = n THEN 0 ELSE p[m + 1]
      BY <1>5
    <3>5. m = n <=> i = n - 1
      BY <1>0, <2>2
    <3>6. i # n - 1 => q[i + 1] = p[m + 1]
      BY <1>0, <1>1, <2>0, <3>1
    <3> QED
      BY <3>1, <3>3, <3>4, <3>5, <3>6
  <2>3. CASE i >= m
    <3>1. /\ q[i] = p[i + 1] /\ i + 1 # m
          /\ (i # n - 1 => q[i + 1] = p[(i + 1) + 1])
      BY <1>0, <1>1, <2>0, <2>3
    <3>2. h[p[i + 1]].next = IF i + 1 = n THEN 0 ELSE p[(i + 1) + 1]
      BY <1>5, <2>0
    <3>3. h[p[i + 1]].next # p[m]
      <4>1. CASE i + 1 = n
        BY <1>0, <3>2, <4>1
      <4>2. CASE i + 1 # n
        <5>1. (i + 1) + 1 \in 1 .. n /\ (i + 1) + 1 # m
          BY <1>0, <2>0, <2>3, <4>2
        <5> QED
          BY <1>3, <3>2, <4>2, <5>1
      <4> QED
        BY <4>1, <4>2
    <3>4. i + 1 = n <=> i = n - 1
      BY <1>0
    <3> QED
      BY <1>6, <2>0, <3>1, <3>2, <3>3, <3>4
  <2> QED
    BY <1>0, <2>1, <2>2, <2>3
<1>8. (IF hd = p[m] THEN h[p[m]].next ELSE hd) = IF n - 1 = 0 THEN 0 ELSE q[1]
  <2>1. hd = p[1] /\ 1 \in 1 .. n
    BY <1>0 DEF Path
  <2>2. CASE m = 1
    <3>1. h[p[m]].next = IF n = 1 THEN 0 ELSE p[2]
      BY <1>5, <2>2
    <3>2. n # 1 => q[1] = p[2]
      BY <1>0, <1>1, <2>2
    <3> QED
      BY <1>0, <2>1, <2>2, <3>1, <3>2
  <2>3. CASE m # 1
    <3>1. n # 1 /\ 1 \in 1 .. n - 1 /\ 1 < m
      BY <1>0, <2>3
    <3>2. q[1] = p[1] /\ p[1] # p[m]
      BY <1>1, <1>3, <2>1, <2>3, <3>1
    <3> QED
      BY <1>0, <2>1, <3>1, <3>2
  <2> QED
    BY <2>2, <2>3
<1>9. ASSUME NEW t \in Slots
      PROVE  g[t].loc # 0 <=> \E i \in 1 .. n - 1 : q[i] = t
  <2>1. CASE t = p[m]
    <3>1. ASSUME NEW i \in 1 .. n - 1 PROVE q[i] # p[m]
      BY <1>0, <1>1, <1>3
    <3> QED
      BY <2>1, <3>1
  <2>2. CASE t # p[m]
    <3>1. g[t].loc # 0 <=> \E i \in 1 .. n : p[i] = t
      BY <2>2 DEF Path
    <3>2. ASSUME NEW i \in 1 .. n, p[i] = t PROVE \E j \in 1 .. n - 1 : q[j] = t
      <4>1. i # m
        BY <2>2, <3>2
      <4>2. CASE i < m
        <5>1. i \in 1 .. n - 1 /\ q[i] = p[i]
          BY <1>0, <1>1, <4>2
        <5> QED
          BY <3>2, <5>1
      <4>3. CASE i > m
        <5>1. i - 1 \in 1 .. n - 1 /\ ~(i - 1 < m) /\ (i - 1) + 1 = i
          BY <1>0, <4>3
        <5>2. q[i - 1] = p[i]
          BY <1>1, <5>1
        <5> QED
          BY <3>2, <5>1, <5>2
      <4> QED
        BY <1>0, <4>1, <4>2, <4>3
    <3>3. ASSUME NEW j \in 1 .. n - 1, q[j] = t PROVE \E i \in 1 .. n : p[i] = t
      BY <1>1, <3>3
    <3> QED
      BY <3>1, <3>2, <3>3
  <2> QED
    BY <2>1, <2>2
<1> QED
  BY <1>0, <1>2, <1>4, <1>7, <1>8, <1>9 DEF Path, q

(* mp1_find_helper finds the first on the path with that location.         *)
LEMMA FindFacts ==
  ASSUME NEW n, NEW p, Path(p, n, heap, head), NEW loc
  PROVE  \/ mp1_find_helper(loc) = 0 /\ \A i \in 1 .. n : heap[p[i]].loc # loc
         \/ \E m \in 1 .. n : /\ mp1_find_helper(loc) = p[m] /\ heap[p[m]].loc = loc
                              /\ \A i \in 1 .. n : heap[p[i]].loc = loc => m <= i
<1> DEFINE M == Matches(loc)
<1>0. n \in Nat
  BY DEF Path
<1>1. /\ Linked = 0 .. n - 1
      /\ \A k \in Linked : After[k] = p[k + 1] /\ k + 1 \in 1 .. n
      /\ \A i \in 1 .. n : i - 1 \in Linked /\ After[i - 1] = p[i]
  BY LinkedPath
<1>2. CASE M = {}
  <2>1. mp1_find_helper(loc) = 0
    BY <1>2 DEF mp1_find_helper
  <2>2. \A i \in 1 .. n : heap[p[i]].loc # loc
    BY <1>1, <1>2 DEF Matches
  <2> QED
    BY <2>1, <2>2
<1>3. CASE M # {}
  <2> DEFINE k == CHOOSE k \in M : \A j \in M : k <= j
  <2>1. M \in SUBSET Nat
    BY <1>0, <1>1 DEF Matches
  <2>2. \E i \in M : \A j \in M : i <= j
    BY <1>3, <2>1, Least
  <2>3. k \in M /\ \A j \in M : k <= j
    BY <2>2
  <2>4. mp1_find_helper(loc) = After[k]
    BY <1>3 DEF mp1_find_helper
  <2> HIDE DEF k
  <2>5. k \in Linked /\ heap[After[k]].loc = loc
    BY <2>3 DEF Matches
  <2>6. After[k] = p[k + 1] /\ k + 1 \in 1 .. n
    BY <1>1, <2>5
  <2>7. ASSUME NEW i \in 1 .. n, heap[p[i]].loc = loc PROVE k + 1 <= i
    <3>1. i - 1 \in M
      BY <1>1, <2>7 DEF Matches
    <3>2. k <= i - 1 /\ k \in Int
      BY <2>3, <2>1, <3>1
    <3> QED
      BY <3>2
  <2> QED
    BY <2>4, <2>5, <2>6, <2>7
<1> QED
  BY <1>2, <1>3

(* mp1_malloc hands out a free structure.                                  *)
LEMMA MallocFacts ==
  mp1_malloc # 0 => mp1_malloc \in Slots /\ heap[mp1_malloc].loc = 0
<1> SUFFICES ASSUME mp1_malloc # 0 PROVE mp1_malloc \in FreeSlots
  BY DEF FreeSlots
<1>1. FreeSlots # {} /\ FreeSlots \in SUBSET Nat
  BY BlinkAssumption DEF mp1_malloc, FreeSlots, Slots
<1>2. \E s \in FreeSlots : \A t \in FreeSlots : s <= t
  BY <1>1, Least
<1> QED
  BY <1>1, <1>2 DEF mp1_malloc

LEMMA PathInvInit == Init => PathInv
<1> SUFFICES ASSUME Init PROVE PathInv
  OBVIOUS
<1> DEFINE p == [i \in 1 .. 0 |-> 1]
<1>1. heap = [s \in Slots |-> Zero]
  BY DEF Init
<1>2. IsBlink(Zero) /\ Zero.loc = 0
  BY DEF Zero, IsBlink
<1>3. Path(p, 0, heap, head)
  <2>1. 1 .. 0 = {} /\ 0 \in Nat
    OBVIOUS
  <2>2. p \in [1 .. 0 -> Slots]
    BY <2>1
  <2>3. \A s \in Slots : heap[s].loc = 0
    BY <1>1, <1>2
  <2>4. head = 0
    BY DEF Init
  <2> HIDE DEF p
  <2> QED
    BY <2>1, <2>2, <2>3, <2>4 DEF Path
<1> HIDE DEF p
<1>4. \E n, q : Path(q, n, heap, head)
  BY <1>3
<1>5. \A s \in Slots : heap[s] = Zero
  BY <1>1
<1>6. DOMAIN heap = Slots /\ heap = [s \in Slots |-> heap[s]]
  BY <1>1
<1> QED
  BY <1>2, <1>4, <1>5, <1>6 DEF PathInv
-----------------------------------------------------------------------------
LEMMA PathInvAdd ==
  ASSUME PathInv, NEW l \in Asked, NEW c \in Chars, NEW k \in Lens, mp1_ioctl_add(l, c, k)
  PROVE  PathInv'
<1>1. CASE l >= NLoc \/ mp1_malloc = 0
  <2>1. UNCHANGED <<heap, head>>
    BY <1>1 DEF mp1_ioctl_add, Fail
  <2> QED
    BY <2>1 DEF PathInv
<1>2. CASE ~(l >= NLoc \/ mp1_malloc = 0)
  <2> DEFINE s == mp1_malloc
             r == [loc |-> l, chars |-> c, lens |-> k, countdown |-> k[1],
                   status |-> 1, next |-> head]
  <2>1. heap' = [heap EXCEPT ![s] = r] /\ head' = s
    BY <1>2 DEF mp1_ioctl_add
  <2>2. s \in Slots /\ heap[s].loc = 0
    BY <1>2, MallocFacts
  <2>3. IsBlink(r) /\ r.loc # 0 /\ r.next = head
    BY BlinkAssumption DEF IsBlink
  <2> HIDE DEF s, r
  <2>4. /\ DOMAIN heap' = Slots /\ heap' = [t \in Slots |-> heap'[t]]
        /\ heap'[s] = r /\ \A t \in Slots : t # s => heap'[t] = heap[t]
    BY <2>1, <2>2 DEF PathInv
  <2>5. \A t \in Slots : IsBlink(heap'[t])
    BY <2>3, <2>4 DEF PathInv
  <2>6. PICK n, p : Path(p, n, heap, head)
    BY DEF PathInv
  <2>7. Path(Longer(p, n, s), n + 1, heap', s)
    BY <2>2, <2>3, <2>4, <2>6, PathAdd
  <2> QED
    BY <2>1, <2>4, <2>5, <2>7 DEF PathInv
<1> QED
  BY <1>1, <1>2

LEMMA PathInvRemove ==
  ASSUME PathInv, NEW l \in Asked, mp1_ioctl_remove(l)
  PROVE  PathInv'
<1> DEFINE x == mp1_find_helper(l)
<1>1. CASE x = 0
  <2>1. UNCHANGED <<heap, head>>
    BY <1>1 DEF mp1_ioctl_remove, Fail
  <2> QED
    BY <2>1 DEF PathInv
<1>2. CASE x # 0
  <2>1. PICK n, p : Path(p, n, heap, head)
    BY DEF PathInv
  <2>2. PICK m \in 1 .. n : x = p[m]
    BY <1>2, <2>1, FindFacts
  <2>3. /\ heap' = [Unlinked(heap, x) EXCEPT ![x] = Zero]
        /\ head' = IF head = x THEN heap[x].next ELSE head
    BY <1>2 DEF mp1_ioctl_remove
  <2> HIDE DEF x
  <2>4. x \in Slots
    BY <2>1, <2>2 DEF Path
  <2>5. IsBlink(Zero) /\ Zero.loc = 0
    BY DEF Zero, IsBlink
  <2>6. /\ DOMAIN heap' = Slots /\ heap' = [t \in Slots |-> heap'[t]]
        /\ heap'[x] = Zero
        /\ \A t \in Slots : t # x =>
             heap'[t] = IF t \in InList /\ heap[t].next = x
                        THEN [heap[t] EXCEPT !.next = heap[x].next] ELSE heap[t]
    BY <2>3, <2>4 DEF Unlinked
  <2>7. \A t \in Slots : heap[t].loc # 0 => t \in InList
    BY <2>1, LinkedPath DEF Path
  <2>8. ASSUME NEW t \in Slots, t # x
        PROVE  /\ IsBlink(heap'[t]) /\ heap'[t].loc = heap[t].loc
               /\ heap[t].loc # 0 => heap'[t].next =
                    IF heap[t].next = x THEN heap[x].next ELSE heap[t].next
    <3>1. IsBlink(heap[t])
      BY DEF PathInv
    <3> DEFINE r == [heap[t] EXCEPT !.next = heap[x].next]
    <3>2. IsBlink(r) /\ r.loc = heap[t].loc /\ r.next = heap[x].next
      BY <3>1 DEF IsBlink
    <3>3. heap'[t] = IF t \in InList /\ heap[t].next = x THEN r ELSE heap[t]
      BY <2>6, <2>8
    <3> HIDE DEF r
    <3> QED
      BY <2>7, <3>1, <3>2, <3>3
  <2>9. Path(Shorter(p, n, m), n - 1, heap', IF head = x THEN heap[x].next ELSE head)
    BY <2>1, <2>2, <2>5, <2>6, <2>8, PathRemove
  <2>10. \A t \in Slots : IsBlink(heap'[t])
    BY <2>5, <2>6, <2>8
  <2> QED
    BY <2>3, <2>6, <2>9, <2>10 DEF PathInv
<1> QED
  BY <1>1, <1>2

(* A step that leaves the locations and the links alone.                   *)
LEMMA PathInvKeep ==
  ASSUME PathInv, head' = head, DOMAIN heap' = Slots, heap' = [t \in Slots |-> heap'[t]],
         \A t \in Slots : IsBlink(heap'[t]) /\ heap'[t].loc = heap[t].loc
                           /\ heap'[t].next = heap[t].next
  PROVE  PathInv'
<1>1. PICK n, p : Path(p, n, heap, head)
  BY DEF PathInv
<1>2. Path(p, n, heap', head)
  BY <1>1, PathSame
<1> QED
  BY <1>2 DEF PathInv

LEMMA PathInvSync ==
  ASSUME PathInv, NEW l \in Asked, NEW d \in Asked, mp1_ioctl_sync(l, d)
  PROVE  PathInv'
<1> DEFINE a == mp1_find_helper(l)
           b == mp1_find_helper(d)
<1>1. CASE a = 0 \/ b = 0
  <2>1. UNCHANGED <<heap, head>>
    BY <1>1 DEF mp1_ioctl_sync, Fail
  <2> QED
    BY <2>1 DEF PathInv
<1>2. CASE ~(a = 0 \/ b = 0)
  <2> DEFINE r == [heap[b] EXCEPT !.lens = heap[a].lens, !.countdown = heap[a].countdown,
                                  !.status = heap[a].status]
  <2>1. heap' = [heap EXCEPT ![b] = r] /\ head' = head
    BY <1>2 DEF mp1_ioctl_sync
  <2>2. PICK n, p : Path(p, n, heap, head)
    BY DEF PathInv
  <2>3. b \in Slots
    <3>1. PICK m \in 1 .. n : b = p[m]
      BY <1>2, <2>2, FindFacts
    <3> HIDE DEF b
    <3> QED
      BY <2>2, <3>1 DEF Path
  <2>4. IsBlink(heap[b])
    BY <2>3 DEF PathInv
  <2>5. IsBlink(r) /\ r.loc = heap[b].loc /\ r.next = heap[b].next
    BY <2>4 DEF IsBlink
  <2> HIDE DEF r, a, b
  <2>6. /\ DOMAIN heap' = Slots /\ heap' = [t \in Slots |-> heap'[t]]
        /\ heap'[b] = r /\ \A t \in Slots : t # b => heap'[t] = heap[t]
    BY <2>1, <2>3 DEF PathInv
  <2>7. \A t \in Slots : IsBlink(heap'[t]) /\ heap'[t].loc = heap[t].loc
                           /\ heap'[t].next = heap[t].next
    BY <2>5, <2>6 DEF PathInv
  <2> QED
    BY <2>1, <2>6, <2>7, PathInvKeep
<1> QED
  BY <1>1, <1>2

LEMMA PathInvTasklet ==
  ASSUME PathInv, mp1_rtc_tasklet
  PROVE  PathInv'
<1>1. head' = head /\ heap' = [s \in Slots |-> IF s \in InList THEN Ticked(s) ELSE heap[s]]
  BY DEF mp1_rtc_tasklet
<1>2. ASSUME NEW s \in Slots
      PROVE  IsBlink(Ticked(s)) /\ Ticked(s).loc = heap[s].loc /\ Ticked(s).next = heap[s].next
  <2>1. IsBlink(heap[s])
    BY DEF PathInv
  <2> QED
    BY <2>1 DEF Ticked, IsBlink
<1>3. DOMAIN heap' = Slots /\ heap' = [t \in Slots |-> heap'[t]]
  BY <1>1
<1>4. \A s \in Slots : heap'[s] = IF s \in InList THEN Ticked(s) ELSE heap[s]
  BY <1>1
<1>5. \A s \in Slots : IsBlink(heap'[s]) /\ heap'[s].loc = heap[s].loc
                         /\ heap'[s].next = heap[s].next
  BY <1>2, <1>4 DEF PathInv
<1> QED
  BY <1>1, <1>3, <1>5, PathInvKeep

LEMMA PathInvStep == PathInv /\ [Next]_vars => PathInv'
<1> SUFFICES ASSUME PathInv, [Next]_vars PROVE PathInv'
  OBVIOUS
<1>1. ASSUME NEW l \in Asked, NEW c \in Chars, NEW k \in Lens, mp1_ioctl_add(l, c, k)
      PROVE  PathInv'
  BY <1>1, PathInvAdd
<1>2. ASSUME NEW l \in Asked, mp1_ioctl_remove(l) PROVE PathInv'
  BY <1>2, PathInvRemove
<1>3. ASSUME NEW l \in Asked, mp1_ioctl_find(l) PROVE PathInv'
  BY <1>3 DEF mp1_ioctl_find, PathInv
<1>4. ASSUME NEW l \in Asked, NEW d \in Asked, mp1_ioctl_sync(l, d) PROVE PathInv'
  BY <1>4, PathInvSync
<1>5. CASE mp1_rtc_tasklet
  BY <1>5, PathInvTasklet
<1>6. CASE UNCHANGED vars
  BY <1>6 DEF vars, PathInv
<1> QED
  BY <1>1, <1>2, <1>3, <1>4, <1>5, <1>6 DEF Next

(* Whatever fish asks for, the list ends and holds just the structures that *)
(* are not free: mp1_ioctl_add takes a free one, mp1_ioctl_remove passes it *)
(* by before it is cleared, the others leave the links (blink.S:43-379).    *)
THEOREM ListStaysSound == Spec => []ListSound
<1>1. Spec => []PathInv
  BY PathInvInit, PathInvStep, PTL DEF Spec
<1> QED
  BY <1>1, PathSound, PTL
-----------------------------------------------------------------------------
(* Types, with those of the words a rhythm counts in.                      *)
Records == [loc : {0} \cup Asked, chars : {<<"", "">>} \cup Chars,
            lens : {<<0, 0>>} \cup Lens, countdown : Words,
            status : {0, 1}, next : 0 .. NSlots]

LEMMA LensAreWords ==
  ASSUME NEW l \in {<<0, 0>>} \cup Lens
  PROVE  l[1] \in Words /\ l[2] \in Words
BY BlinkAssumption DEF Words

LEMMA TickedType ==
  ASSUME TypeOK, NEW s \in Slots
  PROVE  Ticked(s) \in Records
<1> DEFINE r == heap[s]
<1>1. r \in Records
  BY DEF TypeOK, Records
<1> HIDE DEF r
<1>b. r.countdown \in Words /\ r.status \in {0, 1} /\ r.lens \in {<<0, 0>>} \cup Lens
  BY <1>1 DEF Records
<1>2. r.lens[IF r.status = 1 THEN 2 ELSE 1] \in Words
  BY <1>b, LensAreWords
<1>3. Decremented(r.countdown) \in Words
  <2>1. 2 * SignBit \in Nat /\ 2 * SignBit > 0
    BY BlinkAssumption
  <2>2. r.countdown - 1 \in Int
    BY <1>b, <2>1 DEF Words
  <2> QED
    BY <2>1, <2>2 DEF Decremented, Words
<1>4. Toggled(r.status) \in {0, 1}
  BY <1>b DEF Toggled
<1>5. [r EXCEPT !.countdown = Decremented(@)] \in Records
  BY <1>1, <1>3 DEF Records
<1>6. [r EXCEPT !.countdown = r.lens[IF r.status = 1 THEN 2 ELSE 1],
                !.status = Toggled(@)] \in Records
  BY <1>1, <1>2, <1>4 DEF Records
<1> QED
  BY <1>5, <1>6 DEF Ticked, r

LEMMA ZeroType == Zero \in Records /\ NSlots \in Nat
<1>1. 0 \in Words /\ 0 \in 0 .. NSlots /\ NSlots \in Nat
  BY BlinkAssumption DEF Words
<1> QED
  BY <1>1 DEF Zero, Records

LEMMA TypesInit == Init => TypeOK
<1> SUFFICES ASSUME Init PROVE TypeOK
  OBVIOUS
<1>0. heap = [s \in Slots |-> Zero] /\ head = 0 /\ ret = 0
  BY DEF Init
<1>1. heap \in [Slots -> Records] /\ head \in 0 .. NSlots /\ ret \in {0, -1}
  <2>1. heap \in [Slots -> Records]
    BY <1>0, ZeroType
  <2>2. head \in 0 .. NSlots
    BY <1>0, ZeroType
  <2> QED
    BY <1>0, <2>1, <2>2
<1> QED
  BY <1>1 DEF TypeOK, Records

LEMMA TypesStep == TypeOK /\ PathInv /\ [Next]_vars => TypeOK'
<1> SUFFICES ASSUME TypeOK, PathInv, [Next]_vars PROVE TypeOK'
  OBVIOUS
<1>0. /\ heap \in [Slots -> Records] /\ head \in 0 .. NSlots /\ ret \in {0, -1}
      /\ Zero \in Records /\ NSlots \in Nat
  BY ZeroType DEF TypeOK, Records
<1>a. heap' \in [Slots -> Records] /\ head' \in 0 .. NSlots /\ ret' \in {0, -1} => TypeOK'
  BY DEF TypeOK, Records
<1>f. Fail => TypeOK'
  BY <1>0, <1>a DEF Fail
<1>p. PICK n, p : Path(p, n, heap, head)
  BY DEF PathInv
<1>q. \A l : mp1_find_helper(l) # 0 => mp1_find_helper(l) \in Slots
  <2> SUFFICES ASSUME NEW l, mp1_find_helper(l) # 0 PROVE mp1_find_helper(l) \in Slots
    OBVIOUS
  <2>1. PICK m \in 1 .. n : mp1_find_helper(l) = p[m]
    BY <1>p, FindFacts
  <2> QED
    BY <1>p, <2>1 DEF Path
<1>1. ASSUME NEW l \in Asked, NEW c \in Chars, NEW k \in Lens, mp1_ioctl_add(l, c, k)
      PROVE  TypeOK'
  <2>1. CASE l >= NLoc \/ mp1_malloc = 0
    BY <1>1, <1>f, <2>1 DEF mp1_ioctl_add
  <2>2. CASE ~(l >= NLoc \/ mp1_malloc = 0)
    <3> DEFINE r == [loc |-> l, chars |-> c, lens |-> k, countdown |-> k[1],
                     status |-> 1, next |-> head]
    <3>1. r \in Records
      BY <1>0, LensAreWords DEF Records
    <3>2. mp1_malloc \in Slots /\ Slots \subseteq 0 .. NSlots
      BY <1>0, <2>2, MallocFacts DEF Slots
    <3>3. heap' = [heap EXCEPT ![mp1_malloc] = r] /\ head' = mp1_malloc /\ ret' = 0
      BY <1>1, <2>2 DEF mp1_ioctl_add
    <3> HIDE DEF r
    <3> QED
      BY <1>0, <1>a, <3>1, <3>2, <3>3
  <2> QED
    BY <2>1, <2>2
<1>2. ASSUME NEW l \in Asked, mp1_ioctl_remove(l) PROVE TypeOK'
  <2> DEFINE x == mp1_find_helper(l)
  <2>1. CASE x = 0
    BY <1>2, <1>f, <2>1 DEF mp1_ioctl_remove
  <2>2. CASE x # 0
    <3>1. /\ heap' = [Unlinked(heap, x) EXCEPT ![x] = Zero]
          /\ head' = (IF head = x THEN heap[x].next ELSE head) /\ ret' = 0
      BY <1>2, <2>2 DEF mp1_ioctl_remove
    <3>2. x \in Slots
      BY <1>q, <2>2
    <3> HIDE DEF x
    <3>3. heap[x].next \in 0 .. NSlots
      BY <1>0, <3>2 DEF Records
    <3>4. \A t \in Slots : [heap[t] EXCEPT !.next = heap[x].next] \in Records
      BY <1>0, <3>3 DEF Records
    <3>5. Unlinked(heap, x) \in [Slots -> Records]
      BY <1>0, <3>4 DEF Unlinked
    <3> QED
      BY <1>0, <1>a, <3>1, <3>2, <3>3, <3>5
  <2> QED
    BY <2>1, <2>2
<1>3. ASSUME NEW l \in Asked, mp1_ioctl_find(l) PROVE TypeOK'
  BY <1>0, <1>3, <1>a DEF mp1_ioctl_find
<1>4. ASSUME NEW l \in Asked, NEW d \in Asked, mp1_ioctl_sync(l, d) PROVE TypeOK'
  <2> DEFINE a == mp1_find_helper(l)
             b == mp1_find_helper(d)
  <2>1. CASE a = 0 \/ b = 0
    BY <1>4, <1>f, <2>1 DEF mp1_ioctl_sync
  <2>2. CASE ~(a = 0 \/ b = 0)
    <3> DEFINE r == [heap[b] EXCEPT !.lens = heap[a].lens, !.countdown = heap[a].countdown,
                                    !.status = heap[a].status]
    <3>1. heap' = [heap EXCEPT ![b] = r] /\ head' = head /\ ret' = 0
      BY <1>4, <2>2 DEF mp1_ioctl_sync
    <3>2. a \in Slots /\ b \in Slots
      BY <1>q, <2>2
    <3>3. r \in Records
      BY <1>0, <3>2 DEF Records
    <3> HIDE DEF r, a, b
    <3> QED
      BY <1>0, <1>a, <3>1, <3>2, <3>3
  <2> QED
    BY <2>1, <2>2
<1>5. CASE mp1_rtc_tasklet
  <2>1. /\ heap' = [s \in Slots |-> IF s \in InList THEN Ticked(s) ELSE heap[s]]
        /\ head' = head /\ ret' = ret
    BY <1>5 DEF mp1_rtc_tasklet
  <2>2. \A s \in Slots : Ticked(s) \in Records
    BY TickedType
  <2> QED
    BY <1>0, <1>a, <2>1, <2>2
<1>6. CASE UNCHANGED vars
  BY <1>0, <1>6, <1>a DEF vars
<1> QED
  BY <1>1, <1>2, <1>3, <1>4, <1>5, <1>6 DEF Next

(* Links stay in the array, countdowns and lengths stay words and the      *)
(* status is a bit (blink.S:43-379, fish.c:161-176).                       *)
THEOREM BlinkTypes == Spec => []TypeOK
<1>1. TypeOK /\ PathInv /\ [Next]_vars => TypeOK' /\ PathInv'
  BY TypesStep, PathInvStep
<1> QED
  BY <1>1, TypesInit, PathInvInit, PTL DEF Spec
-----------------------------------------------------------------------------
(* The abstraction reads the blinks off along the path.                    *)
AbsFact == \A n, p : Path(p, n, heap, head) =>
             Abstraction = [k \in 1 .. n |-> Seen(heap[p[k]])]

LEMMA AbsHere == AbsFact
<1> SUFFICES ASSUME NEW n, NEW p, Path(p, n, heap, head)
             PROVE  Abstraction = [k \in 1 .. n |-> Seen(heap[p[k]])]
  BY DEF AbsFact
<1>0. n \in Nat
  BY DEF Path
<1>1. Linked = 0 .. n - 1 /\ \A i \in 1 .. n : After[i - 1] = p[i]
  BY LinkedPath
<1>2. Cardinality(Linked) = n
  <2>1. Cardinality(0 .. n - 1) = IF 0 > n - 1 THEN 0 ELSE n - 1 - 0 + 1
    BY <1>0, FS_Interval
  <2> QED
    BY <1>0, <1>1, <2>1
<1> QED
  BY <1>1, <1>2 DEF Abstraction

LEMMA AbsNext == AbsFact'
BY AbsHere, PTL

LEMMA AbsLen ==
  ASSUME NEW n, NEW p, Path(p, n, heap, head)
  PROVE  /\ n \in Nat /\ DOMAIN Abstraction = 1 .. n /\ Len(Abstraction) = n
         /\ \A i \in 1 .. n : Abstraction[i] = Seen(heap[p[i]])
<1>1. Abstraction = [k \in 1 .. n |-> Seen(heap[p[k]])]
  BY AbsHere DEF AbsFact
<1>2. n \in Nat
  BY DEF Path
<1> QED
  BY <1>1, <1>2

LEMMA AbsAfter ==
  ASSUME NEW n, NEW p, Path(p, n, heap', head')
  PROVE  /\ Abstraction' = [k \in 1 .. n |-> Abstraction'[k]]
         /\ \A i \in 1 .. n : Abstraction'[i] = Seen(heap'[p[i]])
<1>1. \A m, q : Path(q, m, heap', head') =>
        Abstraction' = [k \in 1 .. m |-> Seen(heap'[q[k]])]
  BY AbsNext DEF AbsFact
<1>2. Abstraction' = [k \in 1 .. n |-> Seen(heap'[p[k]])]
  BY <1>1
<1> QED
  BY <1>2

(* Both find the same blink.                                               *)
LEMMA FindAgrees ==
  ASSUME NEW n, NEW p, Path(p, n, heap, head), NEW l
  PROVE  \/ mp1_find_helper(l) = 0 /\ List!At(l) = {}
         \/ \E m \in 1 .. n : /\ mp1_find_helper(l) = p[m] /\ p[m] \in Slots /\ p[m] # 0
                              /\ heap[p[m]].loc = l
                              /\ List!At(l) # {} /\ List!First(l) = m
<1>0. /\ n \in Nat /\ Len(Abstraction) = n
      /\ \A i \in 1 .. n : Abstraction[i] = Seen(heap[p[i]])
  BY AbsLen
<1>1. \A i \in 1 .. n : Abstraction[i].loc = heap[p[i]].loc
  BY <1>0 DEF Seen
<1>2. List!At(l) = {i \in 1 .. n : heap[p[i]].loc = l}
  BY <1>0, <1>1 DEF List!At
<1>3. CASE mp1_find_helper(l) = 0 /\ \A i \in 1 .. n : heap[p[i]].loc # l
  BY <1>2, <1>3
<1>4. ASSUME NEW m \in 1 .. n, mp1_find_helper(l) = p[m], heap[p[m]].loc = l,
             \A i \in 1 .. n : heap[p[i]].loc = l => m <= i
      PROVE  /\ p[m] \in Slots /\ p[m] # 0
             /\ List!At(l) # {} /\ List!First(l) = m
  <2>1. m \in List!At(l) /\ (\A j \in List!At(l) : m <= j) /\ List!At(l) \subseteq Int
    BY <1>2, <1>4
  <2>2. List!First(l) \in List!At(l) /\ \A j \in List!At(l) : List!First(l) <= j
    BY <2>1 DEF List!First
  <2>3. List!First(l) = m
    BY <2>1, <2>2
  <2>4. p[m] \in Slots /\ p[m] # 0
    BY DEF Path, Slots
  <2> QED
    BY <2>1, <2>3, <2>4
<1> QED
  BY <1>3, <1>4, FindFacts

(* The array is used up when the path is as long as it.                    *)
LEMMA FullAgrees ==
  ASSUME NEW n, NEW p, Path(p, n, heap, head)
  PROVE  mp1_malloc = 0 <=> n = NSlots
<1>1. p \in Injection(1 .. n, Slots)
  BY DEF Path, Injection, IsInjective
<1>2. IsFiniteSet(Slots) /\ Cardinality(Slots) = NSlots
  BY BlinkAssumption, FS_Interval DEF Slots
<1>3. Cardinality(1 .. n) = n
  BY FS_Interval DEF Path
<1>4. n = NSlots <=> p \in Surjection(1 .. n, Slots)
  BY <1>1, <1>2, <1>3, FS_Injection
<1>5. p \in Surjection(1 .. n, Slots) <=> FreeSlots = {}
  <2>1. p \in Surjection(1 .. n, Slots) <=> \A t \in Slots : \E i \in 1 .. n : p[i] = t
    BY DEF Surjection, Path
  <2> QED
    BY <2>1 DEF Path, FreeSlots
<1>6. mp1_malloc = 0 <=> FreeSlots = {}
  <2>1. FreeSlots # {} => mp1_malloc # 0
    <3> SUFFICES ASSUME FreeSlots # {}, mp1_malloc = 0 PROVE FALSE
      OBVIOUS
    <3>1. FreeSlots \in SUBSET Nat /\ 0 \notin FreeSlots
      BY DEF FreeSlots, Slots
    <3>2. \E s \in FreeSlots : \A t \in FreeSlots : s <= t
      BY <3>1, Least
    <3> QED
      BY <3>1, <3>2 DEF mp1_malloc
  <2> QED
    BY <2>1 DEF mp1_malloc
<1> QED
  BY <1>4, <1>5, <1>6

OfLength(B, n) == B = [i \in 1 .. n |-> B[i]]
Shifted(B, C, n) == \A i \in 1 .. n : C[i + 1] = B[i]

LEMMA ConsIs ==
  ASSUME NEW n \in Nat, NEW B, OfLength(B, n), NEW C, OfLength(C, n + 1), Shifted(B, C, n)
  PROVE  C = <<C[1]>> \o B
<1> USE DEF OfLength, Shifted
<1> DEFINE x == C[1]
<1>x. x = C[1]
  OBVIOUS
<1> HIDE DEF x
<1> DEFINE S == {B[i] : i \in 1 .. n} \cup {x}
<1>1. B \in Seq(S) /\ Len(B) = n
  BY SMT
<1>2. <<x>> \in Seq(S) /\ Len(<<x>>) = 1 /\ <<x>>[1] = x
  BY SMT
<1>3. \A i \in 1 .. n + 1 : C[i] = IF i <= 1 THEN x ELSE B[i - 1]
  <2> SUFFICES ASSUME NEW i \in 1 .. n + 1 PROVE C[i] = IF i <= 1 THEN x ELSE B[i - 1]
    OBVIOUS
  <2>1. CASE i = 1
    BY <1>x, <2>1
  <2>2. CASE i # 1
    <3>1. i - 1 \in 1 .. n /\ (i - 1) + 1 = i /\ ~(i <= 1)
      BY <2>2
    <3> QED
      BY <3>1
  <2> QED
    BY <2>1, <2>2
<1> HIDE DEF S
<1>4. /\ <<x>> \o B \in Seq(S) /\ Len(<<x>> \o B) = n + 1
      /\ \A i \in 1 .. n + 1 : (<<x>> \o B)[i] = IF i <= 1 THEN <<x>>[i] ELSE B[i - 1]
  <2>1. /\ <<x>> \o B \in Seq(S) /\ Len(<<x>> \o B) = Len(<<x>>) + Len(B)
        /\ \A i \in 1 .. Len(<<x>>) + Len(B) : (<<x>> \o B)[i] =
              IF i <= Len(<<x>>) THEN <<x>>[i] ELSE B[i - Len(<<x>>)]
    BY <1>1, <1>2, ConcatProperties
  <2>2. Len(<<x>>) + Len(B) = n + 1
    BY <1>1, <1>2
  <2> QED
    BY <1>2, <2>1, <2>2
<1> DEFINE D == <<x>> \o B
<1>5. D = [i \in 1 .. n + 1 |-> D[i]]
  <2>1. DOMAIN D = 1 .. Len(D) /\ D \in [1 .. Len(D) -> S]
    BY <1>4, LenProperties
  <2>2. Len(D) = n + 1
    BY <1>4
  <2> HIDE DEF D
  <2> QED
    BY <2>1, <2>2
<1>6. \A i \in 1 .. n + 1 : D[i] = C[i]
  <2> SUFFICES ASSUME NEW i \in 1 .. n + 1 PROVE D[i] = C[i]
    OBVIOUS
  <2>1. i <= 1 => i = 1
    OBVIOUS
  <2> QED
    BY <1>2, <1>3, <1>4, <2>1
<1> HIDE DEF D
<1>7. D = C
  BY <1>5, <1>6
<1> QED
  BY <1>x, <1>7 DEF D
-----------------------------------------------------------------------------
(* Each operation is the operation of the sequence.                        *)
LEMMA SameAbs ==
  ASSUME PathInv, heap' = heap, head' = head
  PROVE  Abstraction' = Abstraction
<1>1. PICK n, p : Path(p, n, heap, head)
  BY DEF PathInv
<1>2. Abstraction = [k \in 1 .. n |-> Seen(heap[p[k]])]
  BY <1>1, AbsHere DEF AbsFact
<1>3. Path(p, n, heap', head')
  BY <1>1
<1>4. Abstraction' = [k \in 1 .. n |-> Abstraction'[k]]
      /\ \A i \in 1 .. n : Abstraction'[i] = Seen(heap'[p[i]])
  BY <1>3, AbsAfter
<1> QED
  BY <1>2, <1>4

LEMMA FailIsFail ==
  ASSUME PathInv, Fail
  PROVE  List!Fail
<1>1. heap' = heap /\ head' = head /\ video' = video /\ ret' = -1
  BY DEF Fail
<1>2. Abstraction' = Abstraction
  BY <1>1, SameAbs
<1> QED
  BY <1>1, <1>2 DEF List!Fail

LEMMA AddIsAdd ==
  ASSUME PathInv, NEW l \in Asked, NEW c \in Chars, NEW k \in Lens, mp1_ioctl_add(l, c, k)
  PROVE  List!Add([loc |-> l, chars |-> c, lens |-> k])
<1> DEFINE a == [loc |-> l, chars |-> c, lens |-> k]
<1>1. PICK n, p : Path(p, n, heap, head)
  BY DEF PathInv
<1>2. /\ n \in Nat /\ Len(Abstraction) = n
      /\ \A i \in 1 .. n : Abstraction[i] = Seen(heap[p[i]])
  BY <1>1, AbsLen
<1>3. l >= NLoc \/ mp1_malloc = 0 <=> a.loc \notin 0 .. NLoc - 1 \/ Len(Abstraction) = NSlots
  <2>1. mp1_malloc = 0 <=> n = NSlots
    BY <1>1, FullAgrees
  <2>2. l >= NLoc <=> l \notin 0 .. NLoc - 1
    BY BlinkAssumption
  <2> QED
    BY <1>2, <2>1, <2>2
<1>4. CASE l >= NLoc \/ mp1_malloc = 0
  <2>1. Fail
    BY <1>4 DEF mp1_ioctl_add
  <2>2. List!Fail
    BY <2>1, FailIsFail
  <2> QED
    BY <1>3, <1>4, <2>2 DEF List!Add
<1>5. CASE ~(l >= NLoc \/ mp1_malloc = 0)
  <2> DEFINE s == mp1_malloc
             r == [loc |-> l, chars |-> c, lens |-> k, countdown |-> k[1],
                   status |-> 1, next |-> head]
             q == Longer(p, n, s)
             v == [loc |-> l, chars |-> c, lens |-> k, phase |-> 1, left |-> TicksOf(k[1])]
  <2>1. heap' = [heap EXCEPT ![s] = r] /\ head' = s /\ video' = [video EXCEPT ![l] = c[1]] /\ ret' = 0
    BY <1>5 DEF mp1_ioctl_add, mp1_poke
  <2>2. s \in Slots /\ heap[s].loc = 0
    BY <1>5, MallocFacts
  <2>3. r.loc # 0 /\ r.next = head
    BY BlinkAssumption
  <2>4. Seen(r) = v
    BY DEF Seen
  <2> HIDE DEF s, r, v
  <2>5. heap'[s] = r /\ \A t \in Slots : t # s => heap'[t] = heap[t]
    BY <2>1, <2>2 DEF PathInv
  <2>6. Path(q, n + 1, heap', s)
    BY <1>1, <2>2, <2>3, <2>5, PathAdd
  <2>7. /\ Abstraction' = [i \in 1 .. n + 1 |-> Abstraction'[i]]
        /\ \A i \in 1 .. n + 1 : Abstraction'[i] = Seen(heap'[q[i]])
    BY <2>1, <2>6, AbsAfter
  <2>8. q[1] = s /\ \A i \in 1 .. n : i + 1 \in 1 .. n + 1 /\ q[i + 1] = p[i]
    BY <1>2 DEF Longer
  <2>9. \A i \in 1 .. n : p[i] \in Slots /\ p[i] # s
    BY <1>1, <2>2 DEF Path
  <2> HIDE DEF q
  <2>10. Abstraction'[1] = v
    <3>1. 1 \in 1 .. n + 1
      BY <1>2
    <3> QED
      BY <2>4, <2>5, <2>7, <2>8, <3>1
  <2>11. \A i \in 1 .. n : Abstraction'[i + 1] = Abstraction[i]
    BY <1>2, <2>5, <2>7, <2>8, <2>9
  <2>12. Abstraction = [i \in 1 .. n |-> Abstraction[i]]
    <3>1. Abstraction = [i \in 1 .. n |-> Seen(heap[p[i]])]
      BY <1>1, AbsHere DEF AbsFact
    <3> QED
      BY <3>1
  <2>13. Abstraction' = <<v>> \o Abstraction
    <3>1. OfLength(Abstraction, n) /\ OfLength(Abstraction', n + 1)
      BY <2>7, <2>12 DEF OfLength
    <3>2. Shifted(Abstraction, Abstraction', n)
      BY <2>11 DEF Shifted
    <3>3. n \in Nat
      BY <1>2
    <3>4. Abstraction' = <<Abstraction'[1]>> \o Abstraction
      BY <3>1, <3>2, <3>3, ConsIs
    <3> QED
      BY <2>10, <3>4
  <2>14. ~(a.loc \notin 0 .. NLoc - 1 \/ Len(Abstraction) = NSlots)
    BY <1>3, <1>5
  <2>15. a.loc = l /\ a.chars = c /\ a.lens = k
    OBVIOUS
  <2> HIDE DEF a
  <2>16. List!Add(a)
    BY <2>1, <2>13, <2>14, <2>15 DEF List!Add, v
  <2> QED
    BY <2>16 DEF a
<1> QED
  BY <1>4, <1>5

LEMMA FindIsFind ==
  ASSUME PathInv, NEW l \in Asked, mp1_ioctl_find(l)
  PROVE  List!Find(l)
<1>1. PICK n, p : Path(p, n, heap, head)
  BY DEF PathInv
<1>2. mp1_find_helper(l) = 0 <=> List!At(l) = {}
  BY <1>1, FindAgrees
<1>3. UNCHANGED <<heap, head, video>> /\ ret' = IF mp1_find_helper(l) = 0 THEN -1 ELSE 0
  BY DEF mp1_ioctl_find
<1>4. Abstraction' = Abstraction
  BY <1>3, SameAbs
<1> QED
  BY <1>2, <1>3, <1>4 DEF List!Find

LEMMA RemoveIsRemove ==
  ASSUME PathInv, NEW l \in Asked, mp1_ioctl_remove(l)
  PROVE  List!Remove(l)
<1> DEFINE x == mp1_find_helper(l)
<1>1. PICK n, p : Path(p, n, heap, head)
  BY DEF PathInv
<1>2. CASE x = 0
  <2>1. List!At(l) = {}
    BY <1>1, <1>2, FindAgrees
  <2>2. Fail
    BY <1>2 DEF mp1_ioctl_remove
  <2>3. List!Fail
    BY <2>2, FailIsFail
  <2> QED
    BY <2>1, <2>3 DEF List!Remove
<1>3. CASE x # 0
  <2>1. PICK m \in 1 .. n : x = p[m] /\ List!At(l) # {} /\ List!First(l) = m /\ x \in Slots
    BY <1>1, <1>3, FindAgrees
  <2>2. /\ heap' = [Unlinked(heap, x) EXCEPT ![x] = Zero]
        /\ head' = (IF head = x THEN heap[x].next ELSE head)
        /\ ret' = 0 /\ video' = video
    BY <1>3 DEF mp1_ioctl_remove
  <2> HIDE DEF x
  <2>3. Zero.loc = 0
    BY DEF Zero
  <2>4. /\ heap'[x] = Zero
        /\ \A t \in Slots : t # x =>
             heap'[t] = IF t \in InList /\ heap[t].next = x
                        THEN [heap[t] EXCEPT !.next = heap[x].next] ELSE heap[t]
    BY <2>1, <2>2 DEF Unlinked
  <2>5. \A t \in Slots : heap[t].loc # 0 => t \in InList
    BY <1>1, LinkedPath DEF Path
  <2>6. ASSUME NEW t \in Slots, t # x
        PROVE  /\ heap'[t].loc = heap[t].loc /\ Seen(heap'[t]) = Seen(heap[t])
               /\ heap[t].loc # 0 => heap'[t].next =
                    IF heap[t].next = x THEN heap[x].next ELSE heap[t].next
    <3>1. IsBlink(heap[t])
      BY DEF PathInv
    <3> DEFINE r == [heap[t] EXCEPT !.next = heap[x].next]
    <3>2. /\ r.loc = heap[t].loc /\ r.next = heap[x].next /\ r.chars = heap[t].chars
          /\ r.lens = heap[t].lens /\ r.countdown = heap[t].countdown
          /\ r.status = heap[t].status
      BY <3>1 DEF IsBlink
    <3>3. heap'[t] = IF t \in InList /\ heap[t].next = x THEN r ELSE heap[t]
      BY <2>4, <2>6
    <3> HIDE DEF r
    <3>4. Seen(r) = Seen(heap[t])
      BY <3>2 DEF Seen
    <3> QED
      BY <2>5, <3>2, <3>3, <3>4
  <2> DEFINE q == Shorter(p, n, m)
  <2>7. Path(q, n - 1, heap', head')
    <3>1. Path(q, n - 1, heap', IF head = x THEN heap[x].next ELSE head)
      BY <1>1, <2>1, <2>3, <2>4, <2>6, PathRemove
    <3> HIDE DEF q
    <3> QED
      BY <2>2, <3>1
  <2>8. /\ n \in Nat /\ Len(Abstraction) = n
        /\ \A i \in 1 .. n : Abstraction[i] = Seen(heap[p[i]])
    BY <1>1, AbsLen
  <2>9. /\ Abstraction' = [i \in 1 .. n - 1 |-> Abstraction'[i]]
        /\ \A i \in 1 .. n - 1 : Abstraction'[i] = Seen(heap'[q[i]])
    BY <2>7, AbsAfter
  <2>10. ASSUME NEW i \in 1 .. n - 1
         PROVE  Abstraction'[i] = IF i < m THEN Abstraction[i] ELSE Abstraction[i + 1]
    <3> DEFINE j == IF i < m THEN i ELSE i + 1
    <3>1. j \in 1 .. n /\ j # m
      BY <2>8
    <3>2. q[i] = p[j]
      BY <2>8 DEF Shorter
    <3> HIDE DEF j, q
    <3>3. p[j] \in Slots /\ p[j] # x
      BY <1>1, <2>1, <3>1 DEF Path
    <3>4. Abstraction'[i] = Abstraction[j]
      BY <2>6, <2>8, <2>9, <3>1, <3>2, <3>3
    <3> QED
      BY <3>4 DEF j
  <2>11. Abstraction' = List!Without(Abstraction, m)
    BY <2>8, <2>9, <2>10 DEF List!Without
  <2> QED
    BY <2>1, <2>2, <2>11 DEF List!Remove
<1> QED
  BY <1>2, <1>3

(* The blink with these fields, and with others of its fields.             *)
Item(l, c, n, f, t) == [loc |-> l, chars |-> c, lens |-> n, phase |-> f, left |-> t]

Retimed(x, m, g, u) == [x EXCEPT !.lens = m, !.phase = g, !.left = u]
Switched(x, g, u)   == [x EXCEPT !.phase = g, !.left = u]

LEMMA ItemExcept ==
  ASSUME NEW l, NEW c, NEW n, NEW f, NEW t, NEW m, NEW g, NEW u
  PROVE  /\ Retimed(Item(l, c, n, f, t), m, g, u) = Item(l, c, m, g, u)
         /\ Switched(Item(l, c, n, f, t), g, u) = Item(l, c, n, g, u)
<1> DEFINE q == Retimed(Item(l, c, n, f, t), m, g, u)
           o == Switched(Item(l, c, n, f, t), g, u)
<1>1. q \in [loc : {l}, chars : {c}, lens : {m}, phase : {g}, left : {u}]
  BY DEF Item, Retimed
<1>2. o \in [loc : {l}, chars : {c}, lens : {n}, phase : {g}, left : {u}]
  BY DEF Item, Switched
<1> HIDE DEF q, o
<1>3. q = Item(l, c, m, g, u)
  BY <1>1 DEF Item
<1>4. o = Item(l, c, n, g, u)
  BY <1>2 DEF Item
<1> QED
  BY <1>3, <1>4 DEF q, o

LEMMA SyncIsSync ==
  ASSUME PathInv, NEW l \in Asked, NEW d \in Asked, mp1_ioctl_sync(l, d)
  PROVE  List!Sync(l, d)
<1> DEFINE a == mp1_find_helper(l)
           b == mp1_find_helper(d)
<1>1. PICK n, p : Path(p, n, heap, head)
  BY DEF PathInv
<1>2. CASE a = 0 \/ b = 0
  <2>1. List!At(l) = {} \/ List!At(d) = {}
    BY <1>1, <1>2, FindAgrees
  <2>2. Fail
    BY <1>2 DEF mp1_ioctl_sync
  <2>3. List!Fail
    BY <2>2, FailIsFail
  <2> QED
    BY <2>1, <2>3 DEF List!Sync
<1>3. CASE ~(a = 0 \/ b = 0)
  <2>1. PICK i \in 1 .. n : a = p[i] /\ List!At(l) # {} /\ List!First(l) = i /\ a \in Slots
    BY <1>1, <1>3, FindAgrees
  <2>2. PICK j \in 1 .. n : b = p[j] /\ List!At(d) # {} /\ List!First(d) = j /\ b \in Slots
    BY <1>1, <1>3, FindAgrees
  <2> DEFINE r == [heap[b] EXCEPT !.lens = heap[a].lens, !.countdown = heap[a].countdown,
                                  !.status = heap[a].status]
             A == Abstraction[i]
             B == Abstraction[j]
             v == [B EXCEPT !.lens = A.lens, !.phase = A.phase, !.left = A.left]
  <2>3. /\ heap' = [heap EXCEPT ![b] = r] /\ head' = head
        /\ video' = [video EXCEPT ![d] = heap[b].chars[2]] /\ ret' = 0
    BY <1>3 DEF mp1_ioctl_sync, mp1_poke
  <2> HIDE DEF a, b
  <2>4. IsBlink(heap[b])
    BY <2>2 DEF PathInv
  <2>5. /\ r.loc = heap[b].loc /\ r.next = heap[b].next /\ r.chars = heap[b].chars
        /\ r.lens = heap[a].lens /\ r.countdown = heap[a].countdown
        /\ r.status = heap[a].status
    BY <2>4 DEF IsBlink
  <2> HIDE DEF r
  <2>6. heap'[b] = r /\ \A t \in Slots : t # b => heap'[t] = heap[t]
    BY <2>2, <2>3 DEF PathInv
  <2>7. /\ n \in Nat /\ Len(Abstraction) = n
        /\ \A k \in 1 .. n : Abstraction[k] = Seen(heap[p[k]])
    BY <1>1, AbsLen
  <2>8. Path(p, n, heap', head')
    <3>1. \A t \in Slots : heap'[t].loc = heap[t].loc /\ heap'[t].next = heap[t].next
      BY <2>5, <2>6
    <3>2. Path(p, n, heap', head)
      BY <1>1, <3>1, PathSame
    <3> QED
      BY <2>3, <3>2
  <2>9. /\ Abstraction' = [k \in 1 .. n |-> Abstraction'[k]]
        /\ \A k \in 1 .. n : Abstraction'[k] = Seen(heap'[p[k]])
    BY <2>8, AbsAfter
  <2>10. Abstraction'[j] = v
    <3>1. A = Seen(heap[a]) /\ B = Seen(heap[b])
      BY <2>1, <2>2, <2>7
    <3> DEFINE f == IF heap[a].status = 1 THEN 1 ELSE 2
               g == IF heap[b].status = 1 THEN 1 ELSE 2
               t == TicksOf(heap[a].countdown)
               u == TicksOf(heap[b].countdown)
    <3>2. /\ A = Item(heap[a].loc, heap[a].chars, heap[a].lens, f, t)
          /\ B = Item(heap[b].loc, heap[b].chars, heap[b].lens, g, u)
      BY <3>1 DEF Seen, Item
    <3>3. Seen(r) = Item(heap[b].loc, heap[b].chars, heap[a].lens, f, t)
      BY <2>5 DEF Seen, Item
    <3> HIDE DEF f, g, t, u, A, B
    <3>4. A.lens = heap[a].lens /\ A.phase = f /\ A.left = t
      BY <3>2 DEF Item
    <3>5. v = Item(heap[b].loc, heap[b].chars, heap[a].lens, f, t)
      <4>1. v = Retimed(B, heap[a].lens, f, t)
        BY <3>4 DEF Retimed
      <4> HIDE DEF v
      <4> QED
        BY <3>2, <4>1, ItemExcept
    <3>6. Seen(r) = v
      BY <3>3, <3>5
    <3> HIDE DEF v
    <3> QED
      BY <2>2, <2>6, <2>9, <3>6
  <2>11. ASSUME NEW k \in 1 .. n, k # j PROVE Abstraction'[k] = Abstraction[k]
    <3>1. p[k] \in Slots /\ p[k] # b
      BY <1>1, <2>2, <2>11 DEF Path
    <3> QED
      BY <2>6, <2>7, <2>9, <3>1
  <2>12. B.chars = heap[b].chars
    BY <2>2, <2>7 DEF Seen
  <2>13. Abstraction = [k \in 1 .. n |-> Abstraction[k]]
    <3>1. Abstraction = [k \in 1 .. n |-> Seen(heap[p[k]])]
      BY <1>1, AbsHere DEF AbsFact
    <3> QED
      BY <3>1
  <2> HIDE DEF v
  <2>14. Abstraction' = [Abstraction EXCEPT ![j] = v]
    BY <2>9, <2>10, <2>11, <2>13
  <2> QED
    BY <2>1, <2>2, <2>3, <2>12, <2>14 DEF List!Sync, v
<1> QED
  BY <1>2, <1>3

(* A countdown is over when one tick is left of it as a signed word.       *)
LEMMA CountFacts ==
  ASSUME NEW c \in Words
  PROVE  /\ ~Positive(Decremented(c)) <=> TicksOf(c) = 1
         /\ Positive(Decremented(c)) => TicksOf(Decremented(c)) = TicksOf(c) - 1
<1>1. SignBit \in Nat /\ SignBit > 0
  BY BlinkAssumption
<1>2. CASE c = 0
  <2>1. Decremented(c) = 2 * SignBit - 1
    BY <1>1, <1>2 DEF Decremented
  <2> QED
    BY <1>1, <1>2, <2>1 DEF Positive, TicksOf
<1>3. CASE c # 0
  <2>1. c \in Int /\ c >= 1 /\ c <= 2 * SignBit - 1
    BY <1>1, <1>3 DEF Words
  <2>2. Decremented(c) = c - 1
    BY <1>1, <2>1 DEF Decremented
  <2> QED
    BY <1>1, <2>1, <2>2 DEF Positive, TicksOf
<1> QED
  BY <1>2, <1>3

LEMMA TickedSeen ==
  ASSUME TypeOK, NEW s \in Slots
  PROVE  LET b == Seen(heap[s]) IN
         /\ Over(s) <=> b.left = 1
         /\ Seen(Ticked(s)) = IF b.left = 1 THEN List!Turned(b) ELSE [b EXCEPT !.left = @ - 1]
         /\ b.left = 1 => /\ List!Turned(b).chars = heap[s].chars
                          /\ List!Turned(b).phase = IF heap[s].status = 1 THEN 2 ELSE 1
<1> DEFINE r == heap[s]
           b == Seen(r)
           c == Decremented(r.countdown)
<1>1. r \in Records
  BY DEF TypeOK, Records
<1> HIDE DEF r
<1>2. r.countdown \in Words /\ r.status \in {0, 1}
  BY <1>1 DEF Records
<1>3. /\ ~Positive(c) <=> TicksOf(r.countdown) = 1
      /\ Positive(c) => TicksOf(c) = TicksOf(r.countdown) - 1
  BY <1>2, CountFacts
<1> HIDE DEF c
<1>4. b.left = TicksOf(r.countdown) /\ b.lens = r.lens /\ b.chars = r.chars /\ b.loc = r.loc
  BY DEF Seen
<1>5. Over(s) <=> b.left = 1
  BY <1>3, <1>4 DEF Over, r, c
<1>6. CASE Over(s)
  <2> DEFINE w == r.lens[IF r.status = 1 THEN 2 ELSE 1]
             q == [r EXCEPT !.countdown = w, !.status = Toggled(@)]
  <2>1. Ticked(s) = q
    BY <1>6 DEF Ticked, r
  <2>2. /\ q.loc = r.loc /\ q.chars = r.chars /\ q.lens = r.lens /\ q.countdown = w
        /\ q.status = 1 - r.status
    BY <1>1 DEF Records, Toggled
  <2> HIDE DEF q
  <2>3. q.status = 1 <=> ~(r.status = 1)
    BY <1>2, <2>2
  <2>4. b.lens[3 - b.phase] = w /\ 3 - b.phase = IF r.status = 1 THEN 2 ELSE 1
    BY <1>4 DEF Seen
  <2> HIDE DEF w
  <2>5. Seen(q) = [loc |-> r.loc, chars |-> r.chars, lens |-> r.lens, phase |-> IF r.status = 1 THEN 2 ELSE 1,
                   left |-> TicksOf(w)]
    BY <2>2, <2>3 DEF Seen
  <2>6. List!Turned(b) = [loc |-> r.loc, chars |-> r.chars, lens |-> r.lens,
                          phase |-> IF r.status = 1 THEN 2 ELSE 1, left |-> TicksOf(w)]
    <3> DEFINE f == IF r.status = 1 THEN 1 ELSE 2
               g == IF r.status = 1 THEN 2 ELSE 1
               t == TicksOf(r.countdown)
    <3>1. b = Item(r.loc, r.chars, r.lens, f, t) /\ b.phase = f /\ 3 - f = g
      BY DEF Seen, Item
    <3>2. b.lens[3 - b.phase] = w /\ 3 - b.phase = g
      BY <2>4
    <3> HIDE DEF f, g, t, b
    <3>3. List!Turned(b) = Switched(b, g, TicksOf(w))
      <4>1. List!Turned(b) = [b EXCEPT !.phase = g, !.left = TicksOf(w)]
        BY <3>2 DEF List!Turned
      <4> QED
        BY <4>1 DEF Switched
    <3>4. List!Turned(b) = Item(r.loc, r.chars, r.lens, g, TicksOf(w))
      BY <3>1, <3>3, ItemExcept
    <3> QED
      BY <3>4 DEF Item, g
  <2>7. /\ List!Turned(b).chars = r.chars
        /\ List!Turned(b).phase = IF r.status = 1 THEN 2 ELSE 1
    BY <2>6
  <2> QED
    BY <1>5, <1>6, <2>1, <2>5, <2>6, <2>7 DEF r
<1>7. CASE ~Over(s)
  <2> DEFINE q == [r EXCEPT !.countdown = c]
  <2>1. Ticked(s) = q
    BY <1>7 DEF Ticked, r, c
  <2>2. /\ q.loc = r.loc /\ q.chars = r.chars /\ q.lens = r.lens /\ q.countdown = c
        /\ q.status = r.status
    BY <1>1 DEF Records
  <2> HIDE DEF q
  <2>3. TicksOf(c) = TicksOf(r.countdown) - 1
    BY <1>3, <1>4, <1>5, <1>7
  <2>4. Seen(q) = [b EXCEPT !.left = @ - 1]
    BY <2>2, <2>3 DEF Seen
  <2> QED
    BY <1>5, <1>7, <2>1, <2>4 DEF r
<1> QED
  BY <1>6, <1>7

LEMMA TaskletIsTick ==
  ASSUME TypeOK, PathInv, DOMAIN video = 0 .. NLoc - 1, mp1_rtc_tasklet
  PROVE  List!Tick
<1>1. PICK n, p : Path(p, n, heap, head)
  BY DEF PathInv
<1>2. /\ n \in Nat /\ Len(Abstraction) = n
      /\ \A i \in 1 .. n : Abstraction[i] = Seen(heap[p[i]])
  BY <1>1, AbsLen
<1>3. \A i \in 1 .. n : p[i] \in Slots /\ p[i] \in InList
  BY <1>1, LinkedPath DEF Path
<1>4. \A s \in Slots : heap'[s] = IF s \in InList THEN Ticked(s) ELSE heap[s]
  BY DEF mp1_rtc_tasklet
<1>5. Path(p, n, heap', head')
  <2>1. \A s \in Slots : Ticked(s).loc = heap[s].loc /\ Ticked(s).next = heap[s].next
    <3> SUFFICES ASSUME NEW s \in Slots
                 PROVE  Ticked(s).loc = heap[s].loc /\ Ticked(s).next = heap[s].next
      OBVIOUS
    <3>1. IsBlink(heap[s])
      BY DEF PathInv
    <3> QED
      BY <3>1 DEF Ticked, IsBlink
  <2>2. \A s \in Slots : heap'[s].loc = heap[s].loc /\ heap'[s].next = heap[s].next
    BY <1>4, <2>1
  <2>3. Path(p, n, heap', head)
    BY <1>1, <2>2, PathSame
  <2> QED
    BY <2>3 DEF mp1_rtc_tasklet
<1>6. /\ Abstraction' = [i \in 1 .. n |-> Abstraction'[i]]
      /\ \A i \in 1 .. n : Abstraction'[i] = Seen(heap'[p[i]])
  BY <1>5, AbsAfter
<1> DEFINE B(i) == Abstraction[i]
<1>7. ASSUME NEW i \in 1 .. n
      PROVE  /\ Over(p[i]) <=> B(i).left = 1
             /\ Abstraction'[i] = IF B(i).left = 1 THEN List!Turned(B(i))
                                  ELSE [B(i) EXCEPT !.left = @ - 1]
             /\ B(i).left = 1 => Drawn(p[i]) = Abstraction'[i].chars[Abstraction'[i].phase]
  <2>0. p[i] \in Slots /\ B(i) = Seen(heap[p[i]]) /\ Abstraction'[i] = Seen(Ticked(p[i]))
    BY <1>2, <1>3, <1>4, <1>6
  <2>1. /\ Over(p[i]) <=> Seen(heap[p[i]]).left = 1
        /\ Seen(Ticked(p[i])) = IF Seen(heap[p[i]]).left = 1 THEN List!Turned(Seen(heap[p[i]]))
                                ELSE [Seen(heap[p[i]]) EXCEPT !.left = @ - 1]
        /\ Seen(heap[p[i]]).left = 1 =>
             /\ List!Turned(Seen(heap[p[i]])).chars = heap[p[i]].chars
             /\ List!Turned(Seen(heap[p[i]])).phase = IF heap[p[i]].status = 1 THEN 2 ELSE 1
    BY <2>0, TickedSeen
  <2> QED
    BY <2>0, <2>1 DEF Drawn
<1>8. Abstraction' = [i \in 1 .. Len(Abstraction) |->
                        IF B(i).left = 1 THEN List!Turned(B(i)) ELSE [B(i) EXCEPT !.left = @ - 1]]
  BY <1>2, <1>6, <1>7
<1> DEFINE KK(l) == {k \in Matches(l) : Over(After[k])}
           NN(l) == {i \in List!At(l) : B(i).left = 1}
           C(l) == Abstraction'[CHOOSE i \in NN(l) : \A j \in NN(l) : j <= i]
           V(l) == IF KK(l) = {} THEN video[l]
                   ELSE Drawn(After[CHOOSE k \in KK(l) : \A j \in KK(l) : j <= k])
           U(l) == IF NN(l) = {} THEN video[l] ELSE C(l).chars[C(l).phase]
<1>9. ASSUME NEW l \in 0 .. NLoc - 1 PROVE V(l) = U(l)
  <2> DEFINE K == KK(l)
             N == NN(l)
             kk == CHOOSE k \in K : \A j \in K : j <= k
             mm == CHOOSE i \in N : \A j \in N : j <= i
  <2>1. /\ Linked = 0 .. n - 1
        /\ \A k \in Linked : After[k] = p[k + 1] /\ k + 1 \in 1 .. n
        /\ \A i \in 1 .. n : i - 1 \in Linked /\ After[i - 1] = p[i]
    BY <1>1, LinkedPath
  <2>2. N = {i \in 1 .. n : heap[p[i]].loc = l /\ Over(p[i])}
    <3>1. \A i \in 1 .. n : B(i).loc = heap[p[i]].loc
      BY <1>2 DEF Seen
    <3>2. List!At(l) = {i \in 1 .. n : heap[p[i]].loc = l}
      BY <1>2, <3>1 DEF List!At
    <3> QED
      BY <1>7, <3>2
  <2>3. K = {k \in 0 .. n - 1 : heap[p[k + 1]].loc = l /\ Over(p[k + 1])}
    BY <2>1 DEF Matches
  <2>4. (\A k \in K : k + 1 \in N) /\ (\A i \in N : i - 1 \in K)
    <3>1. ASSUME NEW k \in K PROVE k + 1 \in N
      BY <1>2, <2>1, <2>2, <2>3
    <3>2. ASSUME NEW i \in N PROVE i - 1 \in K
      <4>1. i \in 1 .. n /\ i - 1 \in 0 .. n - 1 /\ (i - 1) + 1 = i
        BY <1>2, <2>2
      <4> QED
        BY <2>2, <2>3, <4>1
    <3> QED
      BY <3>1, <3>2
  <2>5. K \subseteq 0 .. n /\ N \subseteq 0 .. n /\ N \subseteq 1 .. n
    BY <1>2, <2>2, <2>3
  <2>6. CASE N = {}
    <3>1. K = {}
      BY <2>4, <2>6
    <3> QED
      BY <2>6, <3>1
  <2>7. CASE N # {}
    <3>1. K # {}
      BY <2>4, <2>7
    <3> HIDE DEF K, N
    <3>2. (\E k \in K : \A j \in K : j <= k) /\ (\E i \in N : \A j \in N : j <= i)
      BY <1>2, <2>5, <2>7, <3>1, Greatest
    <3>3. kk \in K /\ (\A j \in K : j <= kk) /\ mm \in N /\ (\A j \in N : j <= mm)
      BY <3>2
    <3> HIDE DEF kk, mm
    <3>4. kk + 1 = mm
      <4>1. kk \in Int /\ mm \in Int
        BY <1>2, <2>5, <3>3
      <4>2. kk + 1 <= mm /\ mm - 1 <= kk
        BY <2>4, <3>3
      <4> QED
        BY <4>1, <4>2
    <3>5. mm \in 1 .. n /\ B(mm).left = 1
      BY <2>5, <3>3 DEF N
    <3>6. After[kk] = p[mm]
      BY <2>1, <2>3, <3>3, <3>4 DEF K
    <3>7. Drawn(After[kk]) = Abstraction'[mm].chars[Abstraction'[mm].phase]
      BY <1>7, <3>5, <3>6
    <3>8. V(l) = Drawn(After[kk])
      BY <3>1 DEF K, kk
    <3>9. U(l) = Abstraction'[mm].chars[Abstraction'[mm].phase]
      BY <2>7 DEF N, mm
    <3> HIDE DEF V, U
    <3> QED
      BY <3>7, <3>8, <3>9
  <2> QED
    BY <2>6, <2>7
<1>10. video' = [l \in 0 .. NLoc - 1 |-> V(l)] /\ ret' = ret
  BY DEF mp1_rtc_tasklet
<1> HIDE DEF V, U
<1>11. video' = [l \in 0 .. NLoc - 1 |-> U(l)]
  BY <1>9, <1>10
<1> USE DEF U
<1> QED
  BY <1>8, <1>10, <1>11 DEF List!Tick
-----------------------------------------------------------------------------
(* What the refinement rests on.                                           *)
BlinkInv == TypeOK /\ PathInv /\ DOMAIN video = 0 .. NLoc - 1

LEMMA BlinkInvAlways == Spec => []BlinkInv
<1>1. Init => BlinkInv
  <2>1. Init => DOMAIN video = 0 .. NLoc - 1
    BY DEF Init
  <2> QED
    BY <2>1, TypesInit, PathInvInit DEF BlinkInv
<1>2. BlinkInv /\ [Next]_vars => BlinkInv'
  <2> SUFFICES ASSUME BlinkInv, [Next]_vars PROVE BlinkInv'
    OBVIOUS
  <2>1. DOMAIN video' = DOMAIN video
    BY DEF Next, vars, mp1_ioctl_add, mp1_ioctl_remove, mp1_ioctl_find, mp1_ioctl_sync,
           mp1_rtc_tasklet, mp1_poke, Fail
  <2> QED
    BY <2>1, TypesStep, PathInvStep DEF BlinkInv
<1> QED
  BY <1>1, <1>2, PTL DEF Spec

LEMMA ListInit == Init => List!Init
<1> SUFFICES ASSUME Init PROVE List!Init
  OBVIOUS
<1>1. PathInv
  BY PathInvInit
<1>2. PICK n, p : Path(p, n, heap, head)
  BY <1>1 DEF PathInv
<1>3. n = 0
  <2>1. head = 0
    BY DEF Init
  <2>2. 0 \notin Slots
    BY DEF Slots
  <2> QED
    BY <1>2, <2>1, <2>2 DEF Path
<1>4. Abstraction = <<>>
  <2>1. Abstraction = [k \in 1 .. n |-> Seen(heap[p[k]])]
    BY <1>2, AbsHere DEF AbsFact
  <2>2. Abstraction \in Seq({}) /\ Len(Abstraction) = 0
    BY <1>3, <2>1
  <2> QED
    BY <2>2, EmptySeq
<1> QED
  BY <1>4 DEF Init, List!Init

LEMMA ListStep == BlinkInv /\ [Next]_vars => [List!Next]_(List!vars)
<1> SUFFICES ASSUME BlinkInv, [Next]_vars PROVE List!Next \/ UNCHANGED List!vars
  OBVIOUS
<1>0. TypeOK /\ PathInv /\ DOMAIN video = 0 .. NLoc - 1
  BY DEF BlinkInv
<1>1. ASSUME NEW l \in Asked, NEW c \in Chars, NEW k \in Lens, mp1_ioctl_add(l, c, k)
      PROVE  List!Next
  <2>1. List!Add([loc |-> l, chars |-> c, lens |-> k])
    BY <1>0, <1>1, AddIsAdd
  <2>2. [loc |-> l, chars |-> c, lens |-> k] \in [loc : Asked, chars : Chars, lens : Lens]
    OBVIOUS
  <2> QED
    BY <2>1, <2>2 DEF List!Next
<1>2. ASSUME NEW l \in Asked, mp1_ioctl_remove(l) PROVE List!Next
  <2>1. List!Remove(l)
    BY <1>0, <1>2, RemoveIsRemove
  <2> QED
    BY <2>1 DEF List!Next
<1>3. ASSUME NEW l \in Asked, mp1_ioctl_find(l) PROVE List!Next
  <2>1. List!Find(l)
    BY <1>0, <1>3, FindIsFind
  <2> QED
    BY <2>1 DEF List!Next
<1>4. ASSUME NEW l \in Asked, NEW d \in Asked, mp1_ioctl_sync(l, d) PROVE List!Next
  <2>1. List!Sync(l, d)
    BY <1>0, <1>4, SyncIsSync
  <2> QED
    BY <2>1 DEF List!Next
<1>5. CASE mp1_rtc_tasklet
  <2>1. List!Tick
    BY <1>0, <1>5, TaskletIsTick
  <2> QED
    BY <2>1 DEF List!Next
<1>6. CASE UNCHANGED vars
  <2>1. heap' = heap /\ head' = head /\ video' = video /\ ret' = ret
    BY <1>6 DEF vars
  <2>2. Abstraction' = Abstraction
    BY <1>0, <2>1, SameAbs
  <2> QED
    BY <2>1, <2>2 DEF List!vars
<1> QED
  BY <1>1, <1>2, <1>3, <1>4, <1>5, <1>6 DEF Next

(* The linked structures with signed 16-bit countdowns behave, call by     *)
(* call and tick by tick, as the sequence of blinks of BlinkList: the same *)
(* blink is found, removed or synchronised, the same calls fail, and each  *)
(* length lasts the ticks TicksOf gives it (blink.S:43-379).               *)
THEOREM BlinksAreAList == Spec => ImplementsList
<1> QED
  BY BlinkInvAlways, ListInit, ListStep, PTL DEF Spec, ImplementsList, List!Spec
=============================================================================
