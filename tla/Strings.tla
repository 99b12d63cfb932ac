------------------------------ MODULE Strings -------------------------------
(***************************************************************************)
(* The string functions of the kernel (lib.c) and of the user programs     *)
(* (syscalls/ece391support.c).  A C string is a sequence with a 0 in it;   *)
(* index i of C is i + 1 here.  A loop that only looks is the first index  *)
(* at which it stops, a loop that writes is the buffer after its turns.    *)
(***************************************************************************)
EXTENDS Memory

CONSTANTS
  Bytes,      \* values of characters in the strings that are tried
  MaxLen      \* BOUND: characters of a string

ASSUME StringsAssumption == Bytes \subseteq 1 .. 255 /\ MaxLen \in Nat

NUL == 0
Dec(s, i) == s[i + 1]

strlen(s) == CHOOSE i \in 0 .. Len(s) - 1 : Dec(s, i) = NUL /\ \A j \in 0 .. i - 1 : Dec(s, j) # NUL

(* The loop of strrev, with beg = k - 1 and end - beg for end in turn k.   *)
SwapLoop(s, end) ==
  LET turns == CHOOSE k \in 0 .. Len(s) : k >= end - k /\ \A j \in 0 .. k - 1 : j < end - j
      f[k \in 0 .. turns] ==
        IF k = 0 THEN s
        ELSE LET p == f[k - 1] IN [p EXCEPT ![end - k + 2] = p[k], ![k] = p[end - k + 2]]
  IN  f[turns]
strrev(s) == SwapLoop(s, strlen(s) - 1)
ece391_strrev(s) == IF strlen(s) - 1 <= 0 THEN s ELSE SwapLoop(s, strlen(s) - 1)

(* The kernel compares characters as signed bytes, the programs do not.    *)
Char(b) == IF b > 127 THEN b - 256 ELSE b
Parts(s1, s2, i) == Dec(s1, i) # Dec(s2, i) \/ Dec(s1, i) = NUL
strncmp(s1, s2, n) ==
  LET i == CHOOSE i \in 0 .. n : (i = n \/ Parts(s1, s2, i)) /\ \A j \in 0 .. i - 1 : ~Parts(s1, s2, j)
  IN  IF i = n THEN 0 ELSE Char(Dec(s1, i)) - Char(Dec(s2, i))

(* The user programs' two comparisons stop at the difference, the end of   *)
(* both strings or, one of them, when n has come down to 0.                *)
ece391_from(s1, s2, n) ==
  LET i == CHOOSE i \in 0 .. Len(s1) - 1 :
             /\ Parts(s1, s2, i) \/ i + 1 = n
             /\ \A j \in 0 .. i - 1 : ~Parts(s1, s2, j) /\ j + 1 # n
  IN  Dec(s1, i) - Dec(s2, i)
ece391_strncmpNoZero(s1, s2, n) == ece391_from(s1, s2, n)
ece391_strncmp(s1, s2, n) == IF n = 0 THEN 0 ELSE ece391_from(s1, s2, n)
ece391_strcmp(s1, s2) == ece391_from(s1, s2, 0)

(* The loops of strcpy and strncpy.                                        *)
CopyLoop(dest, src, n) ==
  LET f[k \in 0 .. n] == IF k = 0 THEN dest ELSE [f[k - 1] EXCEPT ![k] = Dec(src, k - 1)] IN f[n]
PadLoop(dest, i, n) ==
  LET f[k \in i .. n] == IF k = i THEN dest ELSE [f[k - 1] EXCEPT ![k] = NUL] IN f[n]
strcpy(dest, src) == [CopyLoop(dest, src, strlen(src)) EXCEPT ![strlen(src) + 1] = NUL]
strncpy(dest, src, n) ==
  LET i == CHOOSE i \in 0 .. n : (Dec(src, i) = NUL \/ i = n) /\ \A j \in 0 .. i - 1 : Dec(src, j) # NUL
  IN  PadLoop(CopyLoop(dest, src, i), i, n)
-----------------------------------------------------------------------------
Texts == UNION {[1 .. n -> Bytes] : n \in 0 .. MaxLen}
StringInputs ==
  [kind : {"text"}, t : Texts] \cup [kind : {"texts"}, t : Texts, u : Texts, n : 0 .. MaxLen + 1]
CString(t) == t \o <<NUL>>

(* strrev turns a string round, in the kernel and in the programs, also a  *)
(* string of no or one character (lib.c:376-392, ece391support.c:84-103).  *)
ReverseRight ==
  input.kind = "text" =>
    LET t == input.t IN
    /\ strrev(CString(t)) = CString([i \in 1 .. Len(t) |-> t[Len(t) + 1 - i]])
    /\ ece391_strrev(CString(t)) = strrev(CString(t))

(* Copying a string leaves that string and touches nothing behind what it  *)
(* writes; strncpy writes just n bytes (lib.c:674-711).                    *)
Old == [i \in 1 .. MaxLen + 2 |-> 99]
CopyRight ==
  input.kind = "text" =>
    LET t == input.t IN
    /\ \A i \in DOMAIN Old :
         strcpy(Old, CString(t))[i] = IF i <= Len(t) + 1 THEN CString(t)[i] ELSE Old[i]
    /\ \A n \in 0 .. MaxLen + 1, i \in DOMAIN Old :
         strncpy(Old, CString(t), n)[i] =
           IF i > n THEN Old[i] ELSE IF i <= Len(t) THEN t[i] ELSE NUL

(* The comparisons give 0 just for equal beginnings, otherwise the sign of *)
(* the first difference, of signed bytes in the kernel and unsigned ones   *)
(* in the programs, and never look behind the end of a string, at the      *)
(* limit n = 0 too (lib.c:646-664, ece391support.c:24-46).                 *)
Sign(v) == IF v > 0 THEN 1 ELSE IF v < 0 THEN -1 ELSE 0
Upto(t, n) == SubSeq(t, 1, IF n < Len(t) THEN n ELSE Len(t))
Nth(t, i) == IF i <= Len(t) THEN t[i] ELSE NUL
FirstDifference(t, u) ==
  CHOOSE i \in 1 .. MaxLen : Nth(t, i) # Nth(u, i) /\ \A j \in 1 .. i - 1 : Nth(t, j) = Nth(u, j)
Order(t, u, Key(_)) ==
  IF t = u THEN 0
  ELSE LET i == FirstDifference(t, u) IN Sign(Key(Nth(t, i)) - Key(Nth(u, i)))
Plain(b) == b
CompareRight ==
  input.kind = "texts" =>
    LET t == input.t
        u == input.u
        n == input.n
    IN  /\ Sign(strncmp(CString(t), CString(u), n)) = Order(Upto(t, n), Upto(u, n), Char)
        /\ Sign(ece391_strncmp(CString(t), CString(u), n)) = Order(Upto(t, n), Upto(u, n), Plain)
        /\ Sign(ece391_strcmp(CString(t), CString(u))) = Order(t, u, Plain)

(* The three together: the strings of the kernel and of the programs       *)
(* (lib.c:376-711, ece391support.c:6-103).                                 *)
StringsRight == ReverseRight /\ CopyRight /\ CompareRight
=============================================================================
