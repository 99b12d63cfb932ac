------------------------------ MODULE Library -------------------------------
(***************************************************************************)
(* itoa and printf (lib.c) as functions of their inputs, on top of the     *)
(* string functions; each loop is its state after every turn.              *)
(***************************************************************************)
EXTENDS ParseArg, FiniteSets

CONSTANT HexPlaces   \* hexadecimal digits of an int (8)
ASSUME HexPlacesAssumption == HexPlaces \in Nat \ {0}

(* 2^32: an int has four bits for a hexadecimal digit.                     *)
Top == LET f[k \in 0 .. HexPlaces] == IF k = 0 THEN 1 ELSE 16 * f[k - 1] IN f[HexPlaces]

(* Digits are numbers here, the index into lookup; 48 stands for "0".      *)
Digit(d) == 48 + d
(* newval after each turn of the loop, and the digits up to the last one.  *)
Places(v, radix) ==
  LET newval[k \in 0 .. v] == IF k = 0 THEN v ELSE newval[k - 1] \div radix
      turns == CHOOSE k \in 0 .. v : newval[k] = 0 /\ \A j \in 0 .. k - 1 : newval[j] # 0
  IN  [k \in 1 .. turns |-> Digit(newval[k - 1] % radix)] \o <<NUL>>
itoa(v, radix) == IF v = 0 THEN <<Digit(0), NUL>> ELSE strrev(Places(v, radix))
-----------------------------------------------------------------------------
(* printf.  Characters are bytes; what goes to putc is the text printed.   *)
Percent == 37
Hash  == 35
Minus == 45
Chop(s) == SubSeq(s, 1, strlen(s))    \* what puts gives to putc
Unsigned(v) == v % Top

(* %#x: itoa behind conv_buf[8], zeros in front of it from its length on.  *)
PaddedHex(v) ==
  LET s == Chop(itoa(v, 16))
  IN  [i \in 1 .. HexPlaces - Len(s) |-> Digit(0)] \o s
SignedNoMinus(v) == Chop(itoa(Unsigned(v), 10))
Signed(v) == IF v < 0 THEN <<Minus>> \o Chop(itoa(Unsigned(-v), 10)) ELSE Chop(itoa(v, 10))

(* The string a pointer points to: memory is external, two strings do.     *)
StringAt(a) == IF a = 10 THEN <<NUL>> ELSE <<65, 66, NUL>>

(* What a conversion prints, of the argument a if it takes one: the        *)
(* characters are "%", "x", "u", "d", "c" and "s".                         *)
Conversion(c, alternate, a) ==
  CASE c = Percent -> <<Percent>>
    [] c = 120 -> IF alternate THEN PaddedHex(Unsigned(a)) ELSE Chop(itoa(Unsigned(a), 16))
    [] c = 117 -> Chop(itoa(Unsigned(a), 10))
    [] c = 100 -> Signed(a)
    [] c = 99  -> <<Low8(a)>>
    [] c = 115 -> Chop(StringAt(a))
    [] OTHER   -> <<>>
TakesArgument == {120, 117, 100, 99, 115}

(* A turn of the while: a character, or a conversion with its flags.       *)
(* q: where buf is, how many arguments esp has passed, what was printed.   *)
Flags(f, at) == CHOOSE k \in 0 .. Len(f) : Dec(f, at + k) # Hash /\ \A j \in 0 .. k - 1 : Dec(f, at + j) = Hash
PrintTurn(f, args, q) ==
  IF Dec(f, q.at) # Percent THEN [at |-> q.at + 1, arg |-> q.arg, out |-> Append(q.out, Dec(f, q.at))]
  ELSE LET k == Flags(f, q.at + 1)
           c == Dec(f, q.at + 1 + k)
       IN  IF c \in TakesArgument
           THEN [at |-> q.at + k + 2, arg |-> q.arg + 1, out |-> q.out \o Conversion(c, k > 0, args[q.arg + 1])]
           ELSE [at |-> q.at + k + 2, arg |-> q.arg, out |-> q.out \o Conversion(c, k > 0, 0)]
printf(f, args) ==
  LET g[k \in 0 .. Len(f)] ==
        IF k = 0 THEN [at |-> 0, arg |-> 0, out |-> <<>>]
        ELSE LET q == g[k - 1] IN IF q.at = Len(f) THEN q ELSE PrintTurn(f, args, q)
  IN  g[Len(f)].out
-----------------------------------------------------------------------------
(* The inputs that are tried, one a state; None while a program runs.      *)
(* A format is put together from "a", "%%", the unknown "%z", and the      *)
(* conversions "%d", "%u", "%x", "%#x", "%c" and "%s".                     *)
Conversions == {<<37, 100>>, <<37, 117>>, <<37, 120>>, <<37, 35, 120>>, <<37, 99>>, <<37, 115>>}
Pieces == {<<97>>, <<37, 37>>, <<37, 122>>} \cup Conversions
None == [kind |-> "none"]
LibraryInputs ==
  StringInputs \cup Areas \cup Commands
  \cup [kind : {"number"}, v : 0 .. Top - 1]
  \cup [kind : {"format"}, ps : UNION {[1 .. n -> Pieces] : n \in 0 .. 3}]

Text(s) == SubSeq(s, 1, (CHOOSE i \in 1 .. Len(s) : s[i] = NUL /\ \A j \in 1 .. i - 1 : s[j] # NUL) - 1)

(* A number is printed as the digits that denote it, without a leading     *)
(* zero: the most negative one too, whose negation overflows; %#x fills    *)
(* up to the width of an int (lib.c:126-176, 334-367).                     *)
Denotes(s, radix) ==
  LET f[i \in 0 .. Len(s)] == IF i = 0 THEN 0 ELSE radix * f[i - 1] + s[i] - Digit(0)
  IN  f[Len(s)]
NumberRight ==
  input.kind = "number" =>
    LET v == input.v
        w == IF v < Top \div 2 THEN v ELSE v - Top   \* the same bits, signed
    IN  /\ \A r \in {2, 10, 16} : LET s == Text(itoa(v, r)) IN
             Denotes(s, r) = v /\ (Len(s) > 1 => s[1] # Digit(0))
        /\ Len(PaddedHex(v)) = HexPlaces /\ Denotes(PaddedHex(v), 16) = v
        /\ IF w < 0 THEN Signed(w)[1] = Minus /\ Denotes(Tail(Signed(w)), 10) = -w
                    ELSE Denotes(Signed(w), 10) = w

(* A format is printed piece by piece: every conversion prints the next    *)
(* argument that is left, a flag belongs to its own conversion only, and   *)
(* an unknown conversion prints nothing and takes none (lib.c:91-200).     *)
Arguments == <<-1, 10, 3>>
Flat(s) == LET f[i \in 0 .. Len(s)] == IF i = 0 THEN <<>> ELSE f[i - 1] \o s[i] IN f[Len(s)]
Used(ps, k) == {i \in 1 .. k : ps[i] \in Conversions}
PieceText(p, v) ==
  CASE p = <<97>> -> <<97>>
    [] p = <<37, 37>> -> <<37>>
    [] p = <<37, 100>> -> Signed(v)
    [] p = <<37, 117>> -> Text(itoa(Unsigned(v), 10))
    [] p = <<37, 120>> -> Text(itoa(Unsigned(v), 16))
    [] p = <<37, 35, 120>> -> PaddedHex(Unsigned(v))
    [] p = <<37, 99>> -> <<Low8(v)>>
    [] p = <<37, 115>> -> Text(StringAt(v))
    [] OTHER -> <<>>
Expected(ps, args) ==
  Flat([k \in 1 .. Len(ps) |-> PieceText(ps[k], args[1 + Cardinality(Used(ps, k - 1))])])
FormatRight == input.kind = "format" => printf(Flat(input.ps), Arguments) = Expected(input.ps, Arguments)

(* What printf prints, numbers and format (lib.c:91-200, 334-367).         *)
PrintfRight == NumberRight /\ FormatRight
=============================================================================
