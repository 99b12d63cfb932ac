----------------------------- MODULE LineProofs -----------------------------
(***************************************************************************)
(* One terminal, for every length of the line and every size of the        *)
(* screen: nothing is stored behind the line buffer, reads implement       *)
(* LineEditor, and the cursor follows the line that is typed.              *)
(***************************************************************************)
EXTENDS LineOneTerminal, SequenceTheorems, TLAPS

(* Where the putc of a program is decides how far tbuf can have come since *)
(* its test: keys fill the line up to BUF and empty it down to 0, no       *)
(* further.                                                                *)
LInv ==
  /\ TypeOK
  /\ con.tbuf <= BUF + 1
  /\ pc \in {"put", "load"} => con.tbuf <= BUF
  /\ pc = "inc" => tmp <= BUF
  /\ pc \in {"spin", "seen", "take"} => con.tbuf >= 0
  /\ pc = "drop" => tmp >= 0 /\ tmp <= BUF + 1
-----------------------------------------------------------------------------
(* Consoles with the same line, and a console whose cursor is moved.       *)
SameLine(c, d) == d.tbuf = c.tbuf /\ d.tflag = c.tflag /\ d.tbuffer = c.tbuffer

Moved(c, x, y, o) == [c EXCEPT !.screen_x = x, !.screen_y = y, !.outside = o]

LEMMA FieldTypes ==
  ASSUME NEW c \in Consoles
  PROVE  /\ c.screen_x \in Int /\ c.screen_y \in Int
         /\ c.tbuf \in Int /\ -2 <= c.tbuf /\ c.tbuf <= BUF + 2 /\ BUF \in Nat /\ BUF > 0
  BY LineAssumption DEF Consoles, MaxTbuf, MinTbuf

LEMMA MovedFacts ==
  ASSUME NEW c \in Consoles, NEW x \in Int, NEW y \in Int, NEW o \in BOOLEAN
  PROVE  /\ Moved(c, x, y, o) \in Consoles /\ SameLine(c, Moved(c, x, y, o))
         /\ Moved(c, x, y, o).screen_x = x /\ Moved(c, x, y, o).screen_y = y
         /\ Moved(c, x, y, o).outside = o
  BY DEF Consoles, SameLine, Moved

LEMMA SetX ==
  ASSUME NEW c \in Consoles, NEW v \in Int
  PROVE  LET d == [c EXCEPT !.screen_x = v] IN
         /\ d \in Consoles /\ SameLine(c, d)
         /\ d.screen_x = v /\ d.screen_y = c.screen_y /\ d.outside = c.outside
  BY DEF Consoles, SameLine

LEMMA SetY ==
  ASSUME NEW c \in Consoles, NEW v \in Int
  PROVE  LET d == [c EXCEPT !.screen_y = v] IN
         /\ d \in Consoles /\ SameLine(c, d)
         /\ d.screen_y = v /\ d.screen_x = c.screen_x /\ d.outside = c.outside
  BY DEF Consoles, SameLine

LEMMA SetTbuf ==
  ASSUME NEW c \in Consoles, NEW v \in MinTbuf .. MaxTbuf
  PROVE  LET d == [c EXCEPT !.tbuf = v] IN
         /\ d \in Consoles /\ d.tbuf = v /\ d.tflag = c.tflag /\ d.tbuffer = c.tbuffer
         /\ d.screen_x = c.screen_x /\ d.screen_y = c.screen_y /\ d.outside = c.outside
  BY DEF Consoles

LEMMA SetTflag ==
  ASSUME NEW c \in Consoles, NEW v \in {0, 1}
  PROVE  LET d == [c EXCEPT !.tflag = v] IN
         /\ d \in Consoles /\ d.tbuf = c.tbuf /\ d.tflag = v /\ d.tbuffer = c.tbuffer
         /\ d.screen_x = c.screen_x /\ d.screen_y = c.screen_y /\ d.outside = c.outside
  BY DEF Consoles

LEMMA SameTrans ==
  ASSUME NEW c, NEW d, NEW e, SameLine(c, d), SameLine(d, e)
  PROVE  SameLine(c, e)
  BY DEF SameLine
-----------------------------------------------------------------------------
(* What the parts of putc do to the line and to the cursor.                *)
LEMMA PutAtFacts ==
  ASSUME NEW c \in Consoles, NEW ch \in Chars
  PROVE  LET d == PutAt(c, ch) IN
         /\ d \in Consoles /\ d.tbuf = c.tbuf /\ d.tflag = c.tflag
         /\ d.screen_x = c.screen_x /\ d.screen_y = c.screen_y
         /\ c.outside => d.outside
         /\ c.tbuf \in 0 .. BUF => /\ d.outside = c.outside
                                   /\ d.tbuffer = [c.tbuffer EXCEPT ![c.tbuf] = ch]
  <1>1. CASE c.tbuf \in 0 .. BUF
    <2>1. [c.tbuffer EXCEPT ![c.tbuf] = ch] \in [0 .. BUF -> Chars]
      BY DEF Consoles
    <2> QED BY <1>1, <2>1 DEF PutAt, Consoles
  <1>2. CASE c.tbuf \notin 0 .. BUF
    BY <1>2 DEF PutAt, Consoles
  <1> QED BY <1>1, <1>2

LEMMA BlankRowFacts ==
  ASSUME NEW c \in Consoles
  PROVE  LET d == BlankRow(c) IN
         /\ d \in Consoles /\ SameLine(c, d)
         /\ d.screen_x = c.screen_x /\ d.screen_y = c.screen_y
         /\ c.outside => d.outside
  <1> DEFINE o == c.outside \/ ~InPage(Cols * c.screen_y) \/ ~InPage(Cols * c.screen_y + Cols)
  <1>1. o \in BOOLEAN
    OBVIOUS
  <1>2. BlankRow(c) = [c EXCEPT !.outside = o]
    BY DEF BlankRow
  <1>3. c.outside => o
    OBVIOUS
  <1> HIDE DEF o
  <1> QED BY <1>1, <1>2, <1>3 DEF Consoles, SameLine

LEMMA ScrollFacts ==
  ASSUME NEW c \in Consoles
  PROVE  LET d == Scroll(c) IN
         /\ d \in Consoles /\ SameLine(c, d)
         /\ d.screen_x = c.screen_x
         /\ d.screen_y = IF c.screen_y > Rows - 1 THEN c.screen_y - 1 ELSE c.screen_y
         /\ c.outside => d.outside
  <1> DEFINE u == [c EXCEPT !.screen_y = c.screen_y - 1]
  <1>1. c.screen_y - 1 \in Int
    BY FieldTypes
  <1>2. /\ u \in Consoles /\ SameLine(c, u) /\ u.screen_y = c.screen_y - 1
        /\ u.screen_x = c.screen_x /\ u.outside = c.outside
    BY <1>1, SetY
  <1>3. Scroll(c) = IF c.screen_y > Rows - 1 THEN BlankRow(u) ELSE c
    BY DEF Scroll
  <1> HIDE DEF u
  <1>4. /\ BlankRow(u) \in Consoles /\ SameLine(u, BlankRow(u))
        /\ BlankRow(u).screen_x = u.screen_x /\ BlankRow(u).screen_y = u.screen_y
        /\ u.outside => BlankRow(u).outside
    BY <1>2, BlankRowFacts
  <1>5. SameLine(c, BlankRow(u)) /\ SameLine(c, c)
    BY <1>2, <1>4 DEF SameLine
  <1> QED BY <1>2, <1>3, <1>4, <1>5

LEMMA ReturnFacts ==
  ASSUME NEW c \in Consoles
  PROVE  LET d == Return(c) IN
         /\ d \in Consoles /\ d.tbuf = c.tbuf /\ d.tbuffer = c.tbuffer /\ d.tflag = 0
         /\ d.screen_x = 0 /\ d.screen_y = c.screen_y + 1 /\ d.outside = c.outside
  <1> DEFINE f == [c EXCEPT !.tflag = 0]
             y == [f EXCEPT !.screen_y = f.screen_y + 1]
             m == [y EXCEPT !.screen_x = 0]
  <1>0. Return(c) = m
    BY DEF Return, Consoles
  <1>1. /\ f \in Consoles /\ f.tbuf = c.tbuf /\ f.tflag = 0 /\ f.tbuffer = c.tbuffer
        /\ f.screen_y = c.screen_y /\ f.outside = c.outside
    BY SetTflag
  <1> HIDE DEF f
  <1>2. f.screen_y + 1 \in Int
    BY <1>1, FieldTypes
  <1>3. /\ y \in Consoles /\ SameLine(f, y) /\ y.screen_y = c.screen_y + 1
        /\ y.outside = f.outside
    BY <1>1, <1>2, SetY
  <1> HIDE DEF y
  <1>4. /\ m \in Consoles /\ SameLine(y, m) /\ m.screen_x = 0 /\ m.screen_y = y.screen_y
        /\ m.outside = y.outside
    BY <1>3, SetX
  <1> HIDE DEF m
  <1> QED BY <1>0, <1>1, <1>3, <1>4 DEF SameLine

LEMMA NewLineFacts ==
  ASSUME NEW c \in Consoles
  PROVE  LET d == NewLine(c) IN
         /\ d \in Consoles /\ d.tbuf = c.tbuf /\ d.tflag = 0 /\ d.tbuffer = c.tbuffer
         /\ d.screen_x = 0
  <1> DEFINE m == Return(c)
  <1>1. /\ m \in Consoles /\ m.tbuf = c.tbuf /\ m.tbuffer = c.tbuffer /\ m.tflag = 0
        /\ m.screen_x = 0
    BY ReturnFacts
  <1> HIDE DEF m
  <1>2. Scroll(m) \in Consoles /\ SameLine(m, Scroll(m)) /\ Scroll(m).screen_x = m.screen_x
    BY <1>1, ScrollFacts
  <1> QED BY <1>1, <1>2 DEF NewLine, m, SameLine

LEMMA AdvanceFacts ==
  ASSUME NEW c \in Consoles
  PROVE  LET d == Advance(c) IN
         /\ d \in Consoles /\ SameLine(c, d)
         /\ d.screen_x = IF LastCol(c) THEN 0 ELSE c.screen_x + 1
         /\ d.screen_y = IF LastCol(c) THEN c.screen_y + 1 ELSE c.screen_y
         /\ d.outside = (c.outside \/ ~InPage(Pos(c)))
  <1> DEFINE x == IF LastCol(c) THEN 0 ELSE c.screen_x + 1
             y == IF LastCol(c) THEN c.screen_y + 1 ELSE c.screen_y
             o == c.outside \/ ~InPage(Pos(c))
  <1>1. x \in Int /\ y \in Int
    BY DEF Consoles
  <1>2. o \in BOOLEAN
    OBVIOUS
  <1>3. Advance(c) = Moved(c, x, y, o)
    BY DEF Advance, Moved
  <1> HIDE DEF x, y, o
  <1>4. /\ Moved(c, x, y, o) \in Consoles /\ SameLine(c, Moved(c, x, y, o))
        /\ Moved(c, x, y, o).screen_x = x /\ Moved(c, x, y, o).screen_y = y
        /\ Moved(c, x, y, o).outside = o
    BY <1>1, <1>2, MovedFacts
  <1> QED BY <1>3, <1>4 DEF x, y, o

LEMMA WrapFacts ==
  ASSUME NEW c \in Consoles
  PROVE  LET d == Wrap(c) IN
         /\ d \in Consoles /\ SameLine(c, d)
         /\ d.screen_x = CRem(c.screen_x, Cols) /\ d.screen_y = CRem(c.screen_y, Rows)
         /\ d.outside = c.outside
  <1>1. CRem(c.screen_x, Cols) \in Int /\ CRem(c.screen_y, Rows) \in Int
    BY LineAssumption DEF Consoles, CRem
  <1> HIDE DEF CRem
  <1> QED BY <1>1 DEF Wrap, Consoles, SameLine

LEMMA DrawFacts ==
  ASSUME NEW c \in Consoles
  PROVE  Draw(c) \in Consoles /\ SameLine(c, Draw(c))
  <1> DEFINE a == Advance(c)
             m == IF LastCol(c) THEN Scroll(a) ELSE a
  <1>1. a \in Consoles /\ SameLine(c, a)
    BY AdvanceFacts
  <1> HIDE DEF a
  <1>2. Scroll(a) \in Consoles /\ SameLine(c, Scroll(a))
    BY <1>1, ScrollFacts, SameTrans
  <1>3. m \in Consoles /\ SameLine(c, m)
    BY <1>1, <1>2
  <1>4. Draw(c) = Wrap(m)
    BY DEF Draw, a
  <1> HIDE DEF m
  <1>5. Wrap(m) \in Consoles /\ SameLine(m, Wrap(m))
    BY <1>3, WrapFacts
  <1> QED BY <1>3, <1>4, <1>5, SameTrans

LEMMA StoreFacts ==
  ASSUME NEW c \in Consoles, NEW ch \in Chars, c.tbuf <= BUF + 1
  PROVE  LET d == Store(c, ch) IN
         /\ d \in Consoles /\ d.tflag = c.tflag
         /\ d.screen_x = c.screen_x /\ d.screen_y = c.screen_y /\ (c.outside => d.outside)
         /\ c.tflag = 1 /\ c.tbuf < BUF => d.tbuf = c.tbuf + 1
         /\ c.tflag = 1 /\ c.tbuf < BUF /\ c.tbuf >= 0 =>
               d.outside = c.outside /\ d.tbuffer = [c.tbuffer EXCEPT ![c.tbuf] = ch]
         /\ ~(c.tflag = 1 /\ c.tbuf < BUF) => d = c
  <1> DEFINE b == PutAt(c, ch)
             d == [b EXCEPT !.tbuf = b.tbuf + 1]
  <1>1. CASE c.tflag = 1 /\ c.tbuf < BUF
    <2>1. /\ b \in Consoles /\ b.tbuf = c.tbuf /\ b.tflag = c.tflag
          /\ b.screen_x = c.screen_x /\ b.screen_y = c.screen_y
          /\ c.outside => b.outside
          /\ c.tbuf \in 0 .. BUF => /\ b.outside = c.outside
                                    /\ b.tbuffer = [c.tbuffer EXCEPT ![c.tbuf] = ch]
      BY PutAtFacts
    <2>2. Store(c, ch) = d
      BY <1>1 DEF Store
    <2> HIDE DEF b
    <2>3. b.tbuf + 1 \in MinTbuf .. MaxTbuf
      BY <1>1, <2>1, FieldTypes DEF MaxTbuf, MinTbuf
    <2>4. /\ d \in Consoles /\ d.tbuf = b.tbuf + 1 /\ d.tflag = b.tflag /\ d.tbuffer = b.tbuffer
          /\ d.screen_x = b.screen_x /\ d.screen_y = b.screen_y /\ d.outside = b.outside
      BY <2>1, <2>3, SetTbuf
    <2>5. c.tbuf >= 0 => c.tbuf \in 0 .. BUF
      BY <1>1, FieldTypes
    <2> HIDE DEF d
    <2> QED BY <1>1, <2>1, <2>2, <2>4, <2>5
  <1>2. CASE ~(c.tflag = 1 /\ c.tbuf < BUF)
    BY <1>2 DEF Store
  <1> QED BY <1>1, <1>2

(* A character that is stored goes behind the line; otherwise the line     *)
(* stays as it is.                                                         *)
LEMMA PutCharFacts ==
  ASSUME NEW c \in Consoles, NEW ch \in Chars, c.tbuf <= BUF + 1
  PROVE  LET d == PutChar(c, ch) IN
         /\ d \in Consoles /\ d.tflag = c.tflag
         /\ d.tbuf >= c.tbuf /\ d.tbuf <= BUF + 1 /\ (c.tbuf <= BUF => d.tbuf <= BUF)
         /\ c.tflag = 1 /\ c.tbuf < BUF => d.tbuf = c.tbuf + 1
         /\ c.tflag = 1 /\ c.tbuf < BUF /\ c.tbuf >= 0 =>
               d.tbuffer = [c.tbuffer EXCEPT ![c.tbuf] = ch]
         /\ ~(c.tflag = 1 /\ c.tbuf < BUF) => SameLine(c, d)
  <1> DEFINE e == Draw(c)
             s == Store(e, ch)
  <1>1. e \in Consoles /\ e.tbuf = c.tbuf /\ e.tflag = c.tflag /\ e.tbuffer = c.tbuffer
    BY DrawFacts DEF SameLine
  <1>2. PutChar(c, ch) = IF c.tbuf = BUF THEN c ELSE s
    BY DEF PutChar
  <1> HIDE DEF e
  <1>3. /\ s \in Consoles /\ s.tflag = e.tflag
        /\ e.tflag = 1 /\ e.tbuf < BUF => s.tbuf = e.tbuf + 1
        /\ e.tflag = 1 /\ e.tbuf < BUF /\ e.tbuf >= 0 =>
               s.tbuffer = [e.tbuffer EXCEPT ![e.tbuf] = ch]
        /\ ~(e.tflag = 1 /\ e.tbuf < BUF) => s = e
    BY <1>1, StoreFacts
  <1> HIDE DEF s
  <1>4. c.tbuf \in Int /\ BUF \in Nat
    BY FieldTypes
  <1>5. CASE c.tflag = 1 /\ c.tbuf < BUF
    <2>1. PutChar(c, ch) = s
      BY <1>2, <1>4, <1>5
    <2> QED BY <1>1, <1>3, <1>4, <1>5, <2>1
  <1>6. CASE ~(c.tflag = 1 /\ c.tbuf < BUF)
    <2>1. PutChar(c, ch) \in {c, e}
      BY <1>1, <1>2, <1>3, <1>6
    <2> QED BY <1>1, <1>4, <1>6, <2>1 DEF SameLine
  <1> QED BY <1>5, <1>6

LEMMA StepBackFacts ==
  ASSUME NEW c \in Consoles
  PROVE  LET a == StepBack(c) IN
         /\ a \in Consoles /\ SameLine(c, a) /\ a.outside = c.outside
         /\ c.screen_x # 0 => a.screen_x = c.screen_x - 1 /\ a.screen_y = c.screen_y
         /\ c.screen_x = 0 => a.screen_x = Cols - 1 /\ a.screen_y = c.screen_y - 1
  <1> DEFINE n == [c EXCEPT !.screen_x = c.screen_x - 1]
             x == [c EXCEPT !.screen_x = Cols - 1]
             y == [x EXCEPT !.screen_y = x.screen_y - 1]
  <1>0. c.screen_x - 1 \in Int /\ c.screen_y - 1 \in Int /\ Cols - 1 \in Int
    BY FieldTypes, LineAssumption
  <1>1. /\ n \in Consoles /\ SameLine(c, n) /\ n.screen_x = c.screen_x - 1
        /\ n.screen_y = c.screen_y /\ n.outside = c.outside
    BY <1>0, SetX
  <1>2. /\ x \in Consoles /\ SameLine(c, x) /\ x.screen_x = Cols - 1
        /\ x.screen_y = c.screen_y /\ x.outside = c.outside
    BY <1>0, SetX
  <1>3. StepBack(c) = IF c.screen_x # 0 THEN n ELSE y
    BY DEF StepBack, Consoles
  <1> HIDE DEF n, x
  <1>4. /\ y \in Consoles /\ SameLine(x, y) /\ y.screen_x = x.screen_x
        /\ y.screen_y = c.screen_y - 1 /\ y.outside = x.outside
    BY <1>0, <1>2, SetY
  <1> HIDE DEF y
  <1>5. SameLine(c, y)
    BY <1>2, <1>4, SameTrans
  <1> QED BY <1>1, <1>2, <1>3, <1>4, <1>5

LEMMA ForgetFacts ==
  ASSUME NEW c \in Consoles
  PROVE  LET d == Forget(c) IN
         /\ d \in Consoles /\ d.tflag = c.tflag /\ d.tbuffer = c.tbuffer
         /\ d.screen_x = c.screen_x /\ d.screen_y = c.screen_y /\ d.outside = c.outside
         /\ d.tbuf = IF c.tflag = 1 /\ c.tbuf > 1 THEN c.tbuf - 2 ELSE c.tbuf
  <1>1. CASE c.tflag = 1 /\ c.tbuf > 1
    <2>1. c.tbuf - 2 \in MinTbuf .. MaxTbuf
      BY <1>1, FieldTypes DEF MaxTbuf, MinTbuf
    <2> DEFINE d == [c EXCEPT !.tbuf = c.tbuf - 2]
    <2>2. /\ d \in Consoles /\ d.tbuf = c.tbuf - 2 /\ d.tflag = c.tflag /\ d.tbuffer = c.tbuffer
          /\ d.screen_x = c.screen_x /\ d.screen_y = c.screen_y /\ d.outside = c.outside
      BY <2>1, SetTbuf
    <2>3. Forget(c) = d
      BY <1>1 DEF Forget
    <2> HIDE DEF d
    <2> QED BY <1>1, <2>2, <2>3
  <1>2. CASE ~(c.tflag = 1 /\ c.tbuf > 1)
    BY <1>2 DEF Forget
  <1> QED BY <1>1, <1>2

(* A backspace shortens the line by one, a full line by two; where a line  *)
(* has room for one character only, a full line is not shortened.          *)
LEMMA BackspaceFacts ==
  ASSUME NEW c \in Consoles, c.tbuf <= BUF + 1
  PROVE  LET d == Backspace(c) IN
         /\ d \in Consoles /\ d.tflag = c.tflag
         /\ d.tbuf <= BUF + 1 /\ (c.tbuf <= BUF => d.tbuf <= BUF)
         /\ c.tbuf >= 0 => d.tbuf >= 0
         /\ c.tbuf \in 0 .. BUF =>
              /\ (c.tflag # 1 \/ c.tbuf = 0 \/ BUF = 1) => d.tbuf = c.tbuf
              /\ (c.tflag = 1 /\ c.tbuf > 0 /\ BUF > 1) =>
                   d.tbuf = IF c.tbuf = BUF THEN BUF - 2 ELSE c.tbuf - 1
              /\ \A i \in 0 .. c.tbuf - 1 : d.tbuffer[i] = c.tbuffer[i]
  <1> DEFINE a == StepBack(c)
             b == PutChar(a, Blank)
             e == [b EXCEPT !.screen_x = b.screen_x - 1]
             d == Forget(e)
  <1>1. a \in Consoles /\ a.tbuf = c.tbuf /\ a.tflag = c.tflag /\ a.tbuffer = c.tbuffer
    BY StepBackFacts DEF SameLine
  <1>2. Blank \in Chars
    BY DEF Chars
  <1>3. Backspace(c) = IF c.tbuf = 0 THEN c ELSE d
    BY DEF Backspace
  <1> HIDE DEF a
  <1>4. /\ b \in Consoles /\ b.tflag = a.tflag
        /\ b.tbuf >= a.tbuf /\ b.tbuf <= BUF + 1 /\ (a.tbuf <= BUF => b.tbuf <= BUF)
        /\ a.tflag = 1 /\ a.tbuf < BUF => b.tbuf = a.tbuf + 1
        /\ a.tflag = 1 /\ a.tbuf < BUF /\ a.tbuf >= 0 =>
             b.tbuffer = [a.tbuffer EXCEPT ![a.tbuf] = Blank]
        /\ ~(a.tflag = 1 /\ a.tbuf < BUF) => SameLine(a, b)
    BY <1>1, <1>2, PutCharFacts
  <1> HIDE DEF b
  <1>5. b.screen_x - 1 \in Int
    BY <1>4, FieldTypes
  <1>6. e \in Consoles /\ e.tbuf = b.tbuf /\ e.tflag = b.tflag /\ e.tbuffer = b.tbuffer
    BY <1>4, <1>5, SetX DEF SameLine
  <1> HIDE DEF e
  <1>7. /\ d \in Consoles /\ d.tflag = e.tflag /\ d.tbuffer = e.tbuffer
        /\ d.tbuf = IF e.tflag = 1 /\ e.tbuf > 1 THEN e.tbuf - 2 ELSE e.tbuf
    BY <1>6, ForgetFacts
  <1> HIDE DEF d
  <1>8. /\ c.tbuf \in Int /\ BUF \in Nat /\ BUF > 0 /\ b.tbuf \in Int /\ e.tbuf \in Int
        /\ c.tbuffer \in [0 .. BUF -> Chars]
    BY <1>4, <1>6, FieldTypes DEF Consoles
  <1>9. CASE c.tbuf = 0
    BY <1>3, <1>8, <1>9
  <1>10. CASE c.tbuf # 0
    <2>1. Backspace(c) = d
      BY <1>3, <1>10
    <2>2. d.tflag = c.tflag
      BY <1>1, <1>4, <1>6, <1>7
    <2>3. d.tbuf <= BUF + 1 /\ (c.tbuf <= BUF => d.tbuf <= BUF) /\ (c.tbuf >= 0 => d.tbuf >= 0)
      BY <1>1, <1>4, <1>6, <1>7, <1>8
    <2>4. ASSUME c.tbuf \in 0 .. BUF
          PROVE  /\ (c.tflag # 1 \/ c.tbuf = 0 \/ BUF = 1) => d.tbuf = c.tbuf
                 /\ (c.tflag = 1 /\ c.tbuf > 0 /\ BUF > 1) =>
                      d.tbuf = IF c.tbuf = BUF THEN BUF - 2 ELSE c.tbuf - 1
                 /\ \A i \in 0 .. c.tbuf - 1 : d.tbuffer[i] = c.tbuffer[i]
      <3>1. CASE c.tflag = 1 /\ c.tbuf < BUF
        <4>1. e.tbuf = c.tbuf + 1 /\ e.tflag = 1
              /\ d.tbuffer = [c.tbuffer EXCEPT ![c.tbuf] = Blank]
          BY <1>1, <1>4, <1>6, <1>7, <2>4, <3>1
        <4> QED BY <1>7, <1>8, <1>10, <2>4, <3>1, <4>1
      <3>2. CASE ~(c.tflag = 1 /\ c.tbuf < BUF)
        <4>1. e.tbuf = c.tbuf /\ e.tflag = c.tflag /\ d.tbuffer = c.tbuffer
          BY <1>1, <1>4, <1>6, <1>7, <3>2 DEF SameLine
        <4> QED BY <1>7, <1>8, <1>10, <2>4, <3>2, <4>1
      <3> QED BY <3>1, <3>2
    <2> QED BY <1>7, <2>1, <2>2, <2>3, <2>4
  <1> QED BY <1>9, <1>10

LEMMA EndedFacts ==
  ASSUME NEW c \in Consoles, c.tbuf <= BUF + 1
  PROVE  LET d == Ended(c) IN
         /\ d \in Consoles /\ d.tbuf <= BUF
         /\ d.screen_x = c.screen_x /\ d.screen_y = c.screen_y
         /\ c.tbuf >= 0 =>
              /\ d.tbuf = IF c.tbuf < BUF THEN c.tbuf ELSE BUF - 1
              /\ \A i \in 0 .. d.tbuf - 1 : d.tbuffer[i] = c.tbuffer[i]
  <1>0. /\ c.tbuf \in Int /\ BUF \in Nat /\ BUF > 0 /\ EndL \in Chars
        /\ c.tbuffer \in [0 .. BUF -> Chars]
    BY FieldTypes DEF Chars, Consoles
  <1>1. CASE c.tbuf < BUF
    <2> DEFINE d == PutAt(c, EndL)
    <2>1. /\ d \in Consoles /\ d.tbuf = c.tbuf
          /\ d.screen_x = c.screen_x /\ d.screen_y = c.screen_y
          /\ c.tbuf \in 0 .. BUF => d.tbuffer = [c.tbuffer EXCEPT ![c.tbuf] = EndL]
      BY <1>0, PutAtFacts
    <2>2. Ended(c) = d
      BY <1>1 DEF Ended
    <2> HIDE DEF d
    <2>3. c.tbuf >= 0 => \A i \in 0 .. d.tbuf - 1 : d.tbuffer[i] = c.tbuffer[i]
      BY <1>0, <1>1, <2>1
    <2> QED BY <1>0, <1>1, <2>1, <2>2, <2>3
  <1>2. CASE ~(c.tbuf < BUF)
    <2> DEFINE b == [c EXCEPT !.tbuffer[BUF] = EndL]
               d == [b EXCEPT !.tbuf = BUF - 1]
    <2>1. [c.tbuffer EXCEPT ![BUF] = EndL] \in [0 .. BUF -> Chars]
      BY <1>0
    <2>2. /\ b \in Consoles /\ b.tbuffer = [c.tbuffer EXCEPT ![BUF] = EndL]
          /\ b.screen_x = c.screen_x /\ b.screen_y = c.screen_y
      BY <2>1 DEF Consoles
    <2>3. Ended(c) = d
      BY <1>2 DEF Ended
    <2> HIDE DEF b
    <2>4. BUF - 1 \in MinTbuf .. MaxTbuf
      BY <1>0 DEF MaxTbuf, MinTbuf
    <2>5. /\ d \in Consoles /\ d.tbuf = BUF - 1 /\ d.tbuffer = b.tbuffer
          /\ d.screen_x = b.screen_x /\ d.screen_y = b.screen_y
      BY <2>2, <2>4, SetTbuf
    <2> HIDE DEF d
    <2>6. \A i \in 0 .. d.tbuf - 1 : d.tbuffer[i] = c.tbuffer[i]
      BY <1>0, <2>2, <2>5
    <2> QED BY <1>0, <1>2, <2>2, <2>3, <2>5, <2>6
  <1> QED BY <1>1, <1>2

LEMMA CopiedFacts ==
  ASSUME NEW c \in Consoles, NEW n \in Nat, c.tbuf <= BUF + 1
  PROVE  Copied(Ended(c), n) \in Seq(Chars)
  <1> DEFINE e == Ended(c)
             k == IF e.tbuf > n THEN n ELSE e.tbuf
             m == IF k > 0 THEN k ELSE 0
             f == [i \in 1 .. m |-> e.tbuffer[i - 1]]
  <1>1. e \in Consoles /\ e.tbuf <= BUF
    BY EndedFacts
  <1> HIDE DEF e
  <1>2. k \in Int /\ k <= BUF /\ m \in Nat /\ m <= BUF /\ 1 .. k = 1 .. m
    BY <1>1, FieldTypes
  <1>3. \A i \in 1 .. m : e.tbuffer[i - 1] \in Chars
    <2>1. e.tbuffer \in [0 .. BUF -> Chars]
      BY <1>1 DEF Consoles
    <2>2. \A i \in 1 .. m : i - 1 \in 0 .. BUF
      BY <1>1, <1>2, FieldTypes
    <2> QED BY <2>1, <2>2
  <1>4. f \in [1 .. m -> Chars]
    BY <1>3
  <1>5. Seq(Chars) = UNION {[1 .. j -> Chars] : j \in Nat}
    BY SeqDef
  <1>6. Copied(e, n) = f
    BY <1>2 DEF Copied
  <1> HIDE DEF f, m
  <1>7. f \in Seq(Chars)
    BY <1>2, <1>4, <1>5
  <1> QED BY <1>6, <1>7 DEF e
-----------------------------------------------------------------------------
LEMMA LInvInit == Init => LInv
  <1> SUFFICES ASSUME Init PROVE LInv
    OBVIOUS
  <1>1. Blank \in Chars
    BY DEF Chars
  <1>2. NoConsole \in Consoles
    BY <1>1, LineAssumption DEF NoConsole, Consoles, MaxTbuf, MinTbuf
  <1>3. NoConsole.tbuf = 0
    BY DEF NoConsole
  <1>4. 1 \in Terminals
    BY LineAssumption DEF Terminals
  <1>5. TypeOK
    BY <1>2, <1>4, LineAssumption DEF Init, TypeOK, Stages, MaxTbuf, MinTbuf
  <1> QED BY <1>3, <1>5, LineAssumption DEF Init, LInv

LEMMA KeyStep == LInv /\ Key => LInv'
  <1> SUFFICES ASSUME LInv, Key PROVE LInv'
    OBVIOUS
  <1>1. con \in Consoles /\ con.tbuf <= BUF + 1 /\ con.tbuf \in Int
    BY FieldTypes DEF LInv, TypeOK
  <1>2. /\ con' \in Consoles /\ con'.tbuf <= BUF + 1
        /\ con.tbuf <= BUF => con'.tbuf <= BUF
        /\ con.tbuf >= 0 => con'.tbuf >= 0
    <2>1. CASE KeyChar
      <3>1. PICK s \in Syms : con' = PutChar(con, <<indicator, s>>)
        BY <2>1 DEF KeyChar
      <3> DEFINE d == PutChar(con, <<indicator, s>>)
      <3>2. <<indicator, s>> \in Chars
        BY DEF LInv, TypeOK, Chars
      <3>3. /\ d \in Consoles /\ d.tbuf >= con.tbuf /\ d.tbuf <= BUF + 1
            /\ (con.tbuf <= BUF => d.tbuf <= BUF)
        BY <1>1, <3>2, PutCharFacts
      <3> HIDE DEF d
      <3>4. d.tbuf \in Int
        BY <3>3, FieldTypes
      <3> QED BY <1>1, <3>1, <3>3, <3>4 DEF d
    <2>2. CASE KeyBackspace
      BY <1>1, <2>2, BackspaceFacts DEF KeyBackspace
    <2>3. CASE KeyEnter
      BY <1>1, <2>3, NewLineFacts DEF KeyEnter
    <2>4. CASE CtrlL
      <3> DEFINE x == [con EXCEPT !.screen_x = 0]
      <3>1. x \in Consoles /\ x.tbuf = con.tbuf
        BY <1>1, SetX DEF SameLine
      <3>2. con' = [x EXCEPT !.screen_y = 0]
        BY <2>4 DEF CtrlL
      <3> HIDE DEF x
      <3>3. con' \in Consoles /\ con'.tbuf = x.tbuf
        BY <3>1, <3>2, SetY DEF SameLine
      <3> QED BY <1>1, <3>1, <3>3
    <2> QED BY <2>1, <2>2, <2>3, <2>4, OneTerminalAssumption DEF Key
  <1>3. UNCHANGED <<shown, proc>>
    BY OneTerminalAssumption DEF Key, KeyChar, KeyBackspace, KeyEnter, CtrlL
  <1> QED BY <1>2, <1>3 DEF LInv, TypeOK, shown, proc

LEMMA ReadStep == LInv /\ (ReadStart \/ Read) => LInv'
  <1> SUFFICES ASSUME LInv, ReadStart \/ Read PROVE LInv'
    OBVIOUS
  <1>1. con \in Consoles /\ con.tbuf <= BUF + 1 /\ want \in Nat
    BY LineAssumption DEF LInv, TypeOK
  <1>2. CASE ReadStart
    <2> DEFINE b == [con EXCEPT !.tbuf = 0]
    <2>1. 0 \in MinTbuf .. MaxTbuf
      BY <1>1, FieldTypes DEF MaxTbuf, MinTbuf
    <2>2. b \in Consoles /\ b.tbuf = 0
      BY <1>1, <2>1, SetTbuf
    <2>4. con' = [b EXCEPT !.tflag = 1]
      BY <1>2 DEF ReadStart
    <2> HIDE DEF b
    <2>5. con' \in Consoles /\ con'.tbuf = b.tbuf
      BY <2>2, <2>4, SetTflag
    <2>7. want' \in Sizes \cup {0} /\ column' \in Int /\ pc' = "spin"
      BY <1>1, <1>2, FieldTypes DEF ReadStart
    <2>8. UNCHANGED <<shown, screen, got, byte, tmp>>
      BY <1>2 DEF ReadStart
    <2> QED BY <1>1, <2>2, <2>5, <2>7, <2>8, FieldTypes
            DEF LInv, TypeOK, Stages, shown
  <1>3. CASE ReadSeen
    BY <1>3 DEF ReadSeen, LInv, TypeOK, Stages, shown
  <1>4. CASE ReadCopy
    <2>1. con' \in Consoles /\ con'.tbuf <= BUF + 1
      <3>1. con' = Ended(con)
        BY <1>4 DEF ReadCopy
      <3>2. con' \in Consoles /\ con'.tbuf <= BUF
        BY <1>1, <3>1, EndedFacts
      <3> QED BY <3>2, FieldTypes
    <2>2. got' \in Seq(Chars)
      BY <1>1, <1>4, CopiedFacts DEF ReadCopy
    <2>3. pc' = "ret" /\ UNCHANGED <<shown, screen, want, byte, tmp, column>>
      BY <1>4 DEF ReadCopy
    <2> QED BY <2>1, <2>2, <2>3 DEF LInv, TypeOK, Stages, shown
  <1>5. CASE ReadReturn
    <2>1. <<>> \in Seq(Chars)
      OBVIOUS
    <2> QED BY <1>5, <2>1 DEF ReadReturn, LInv, TypeOK, Stages, shown
  <1> QED BY <1>2, <1>3, <1>4, <1>5 DEF Read

LEMMA PrintStep == LInv /\ (WriteStart \/ Printf \/ Write) => LInv'
  <1> SUFFICES ASSUME LInv, WriteStart \/ Printf \/ Write PROVE LInv'
    OBVIOUS
  <1>1. /\ con \in Consoles /\ con.tbuf <= BUF + 1 /\ con.tbuf \in Int
        /\ -2 <= con.tbuf /\ BUF \in Nat
    BY FieldTypes DEF LInv, TypeOK
  <1>2. CASE WriteStart \/ Printf \/ WritePass \/ WriteReturn
    BY <1>2 DEF WriteStart, Printf, WritePass, WriteReturn, LInv, TypeOK, Stages, shown, inWrite
  <1>3. UNCHANGED inWrite
    BY DEF Write, WriteStart, Printf, WritePass, WriteLine, WriteDraw, WriteScroll, WriteBlank,
      WriteWrap, WriteCheck, WritePut, WriteLoad, WriteInc, WriteBack, WriteMove, WriteRefused,
      WriteStep, WriteTake, WriteDrop, WriteReturn
  <1>4. byte \in {Output, Blank, EndL} /\ tmp \in MinTbuf .. MaxTbuf
    BY DEF LInv, TypeOK
  (* Steps that leave the line alone. *)
  <1>5. ASSUME con' \in Consoles, con'.tbuf = con.tbuf, byte' \in {Output, Blank, EndL},
               pc' \in Stages, pc' \notin {"put", "load", "inc", "spin", "seen", "take", "drop"},
               tmp' = tmp
        PROVE  LInv'
    BY <1>3, <1>5 DEF LInv, TypeOK, shown, inWrite
  <1>6. CASE WriteLine
    <2>1. con' \in Consoles /\ con'.tbuf = con.tbuf
      BY <1>1, <1>6, ReturnFacts DEF WriteLine
    <2>2. /\ byte' \in {Output, Blank, EndL} /\ tmp' = tmp
          /\ pc' \in {"scroll", "write"}
      BY <1>4, <1>6 DEF WriteLine
    <2> QED BY <1>5, <2>1, <2>2 DEF Stages, InPutc
  <1>7. CASE WriteDraw
    <2>1. con' \in Consoles /\ con'.tbuf = con.tbuf
      BY <1>1, <1>7, AdvanceFacts DEF WriteDraw, SameLine
    <2>2. /\ byte' \in {Output, Blank, EndL} /\ tmp' = tmp
          /\ pc' \in {"scroll", "wrap"}
      BY <1>4, <1>7 DEF WriteDraw
    <2> QED BY <1>5, <2>1, <2>2 DEF Stages, InPutc
  <1>8. CASE WriteScroll
    <2>1. con.screen_y - 1 \in Int
      BY <1>1, FieldTypes
    <2>2. con' = [con EXCEPT !.screen_y = con.screen_y - 1]
      BY <1>8 DEF WriteScroll
    <2>3. con' \in Consoles /\ con'.tbuf = con.tbuf
      BY <1>1, <2>1, <2>2, SetY DEF SameLine
    <2>4. byte' \in {Output, Blank, EndL} /\ tmp' = tmp /\ pc' = "blank"
      BY <1>4, <1>8 DEF WriteScroll
    <2> QED BY <1>5, <2>3, <2>4 DEF Stages, InPutc
  <1>9. CASE WriteBlank
    <2>1. con' \in Consoles /\ con'.tbuf = con.tbuf
      BY <1>1, <1>9, BlankRowFacts DEF WriteBlank, SameLine
    <2>2. byte' \in {Output, Blank, EndL} /\ tmp' = tmp /\ pc' \in {"write", "wrap"}
      BY <1>4, <1>9 DEF WriteBlank
    <2> QED BY <1>5, <2>1, <2>2 DEF Stages, InPutc
  <1>10. CASE WriteWrap
    <2>1. con' \in Consoles /\ con'.tbuf = con.tbuf
      BY <1>1, <1>10, WrapFacts DEF WriteWrap, SameLine
    <2>2. byte' \in {Output, Blank, EndL} /\ tmp' = tmp /\ pc' = "chk"
      BY <1>4, <1>10 DEF WriteWrap
    <2> QED BY <1>5, <2>1, <2>2 DEF Stages, InPutc
  <1>11. CASE WriteCheck
    <2>1. /\ pc' \in {"put", "write", "step"} /\ (pc' = "put" => con.tbuf < BUF)
          /\ UNCHANGED <<con, byte, tmp>>
      BY <1>11 DEF WriteCheck, Room, AfterPut
    <2> QED BY <1>1, <1>3, <2>1 DEF LInv, TypeOK, Stages, InPutc, shown, inWrite
  <1>12. CASE WritePut
    <2>1. con.tbuf <= BUF
      BY <1>12 DEF WritePut, LInv
    <2>2. byte \in Chars
      BY <1>4 DEF Chars
    <2>3. con' = PutAt(con, byte)
      BY <1>12 DEF WritePut
    <2>4. con' \in Consoles /\ con'.tbuf = con.tbuf
      BY <1>1, <2>2, <2>3, PutAtFacts
    <2>5. pc' = "load" /\ UNCHANGED <<byte, tmp>>
      BY <1>12 DEF WritePut
    <2> QED BY <1>3, <2>1, <2>4, <2>5 DEF LInv, TypeOK, Stages, InPutc, shown, inWrite
  <1>13. CASE WriteLoad
    <2>1. tmp' = con.tbuf /\ con.tbuf <= BUF /\ pc' = "inc" /\ UNCHANGED <<con, byte>>
      BY <1>13 DEF WriteLoad, LInv
    <2>2. tmp' \in MinTbuf .. MaxTbuf
      BY <1>1, <2>1 DEF MaxTbuf, MinTbuf
    <2> QED BY <1>3, <2>1, <2>2 DEF LInv, TypeOK, Stages, InPutc, shown, inWrite
  <1>14. CASE WriteInc
    <2>1. tmp \in Int /\ -2 <= tmp /\ tmp <= BUF
      BY <1>1, <1>4, <1>14 DEF WriteInc, LInv, MaxTbuf, MinTbuf
    <2>2. /\ tmp + 1 \in MinTbuf .. MaxTbuf /\ tmp + 1 <= BUF + 1
          /\ 0 \in MinTbuf .. MaxTbuf
      BY <1>1, <2>1 DEF MaxTbuf, MinTbuf
    <2>3. con' = [con EXCEPT !.tbuf = tmp + 1]
      BY <1>14 DEF WriteInc
    <2>4. con' \in Consoles /\ con'.tbuf = tmp + 1
      BY <1>1, <2>2, <2>3, SetTbuf
    <2>5. pc' \in {"write", "step"} /\ tmp' = 0 /\ UNCHANGED byte
      BY <1>14 DEF WriteInc, AfterPut
    <2> QED BY <1>3, <2>2, <2>4, <2>5 DEF LInv, TypeOK, Stages, InPutc, shown, inWrite
  <1>15. CASE WriteBack \/ WriteRefused
    <2>1. /\ con' = con /\ byte' \in {Output, Blank, EndL} /\ tmp' = tmp
          /\ pc' \in {"left", "up", "step"}
      BY <1>4, <1>15 DEF WriteBack, WriteRefused
    <2> QED BY <1>1, <1>5, <2>1 DEF Stages, InPutc
  <1>16. CASE WriteMove
    <2>1. con' \in Consoles /\ con'.tbuf = con.tbuf
      <3>1. con.screen_x - 1 \in Int /\ con.screen_y - 1 \in Int /\ Cols - 1 \in Int
        BY <1>1, FieldTypes, LineAssumption
      <3>2. CASE pc = "left"
        <4>1. con' = [con EXCEPT !.screen_x = con.screen_x - 1]
          BY <1>16, <3>2 DEF WriteMove
        <4> QED BY <1>1, <3>1, <4>1, SetX DEF SameLine
      <3>3. CASE pc = "up"
        <4> DEFINE x == [con EXCEPT !.screen_x = Cols - 1]
        <4>1. x \in Consoles /\ x.tbuf = con.tbuf /\ x.screen_y = con.screen_y
          BY <1>1, <3>1, SetX DEF SameLine
        <4>2. con' = [x EXCEPT !.screen_y = x.screen_y - 1]
          BY <1>1, <1>16, <3>3 DEF WriteMove, Consoles
        <4> HIDE DEF x
        <4> QED BY <3>1, <4>1, <4>2, SetY DEF SameLine
      <3> QED BY <1>16, <3>2, <3>3 DEF WriteMove
    <2>2. byte' \in {Output, Blank, EndL} /\ tmp' = tmp /\ pc' = "inner"
      BY <1>4, <1>16 DEF WriteMove
    <2> QED BY <1>5, <2>1, <2>2 DEF Stages, InPutc
  <1>17. CASE WriteStep
    <2>1. con.screen_x - 1 \in Int
      BY <1>1, FieldTypes
    <2>2. con' = [con EXCEPT !.screen_x = con.screen_x - 1]
      BY <1>17 DEF WriteStep
    <2>3. con' \in Consoles /\ con'.tbuf = con.tbuf
      BY <1>1, <2>1, <2>2, SetX DEF SameLine
    <2>4. /\ pc' \in {"take", "write"} /\ (pc' = "take" => con.tbuf > 1)
          /\ byte' = Output /\ tmp' = tmp
      BY <1>17 DEF WriteStep
    <2> QED BY <1>1, <1>3, <2>3, <2>4 DEF LInv, TypeOK, Stages, InPutc, shown, inWrite
  <1>18. CASE WriteTake
    <2>1. tmp' = con.tbuf /\ con.tbuf >= 0 /\ pc' = "drop" /\ UNCHANGED <<con, byte>>
      BY <1>18 DEF WriteTake, LInv
    <2>2. tmp' \in MinTbuf .. MaxTbuf
      BY <1>1, <2>1 DEF MaxTbuf, MinTbuf
    <2> QED BY <1>1, <1>3, <2>1, <2>2 DEF LInv, TypeOK, Stages, InPutc, shown, inWrite
  <1>19. CASE WriteDrop
    <2>1. tmp \in Int /\ 0 <= tmp /\ tmp <= BUF + 1
      BY <1>4, <1>19 DEF WriteDrop, LInv, MaxTbuf, MinTbuf
    <2>2. /\ tmp - 2 \in MinTbuf .. MaxTbuf /\ tmp - 2 <= BUF + 1
          /\ 0 \in MinTbuf .. MaxTbuf
      BY <1>1, <2>1 DEF MaxTbuf, MinTbuf
    <2>3. con' = [con EXCEPT !.tbuf = tmp - 2]
      BY <1>19 DEF WriteDrop
    <2>4. con' \in Consoles /\ con'.tbuf = tmp - 2
      BY <1>1, <2>2, <2>3, SetTbuf
    <2>5. pc' = "write" /\ tmp' = 0 /\ UNCHANGED byte
      BY <1>19 DEF WriteDrop
    <2> QED BY <1>3, <2>2, <2>4, <2>5 DEF LInv, TypeOK, Stages, InPutc, shown, inWrite
  <1> QED BY <1>2, <1>6, <1>7, <1>8, <1>9, <1>10, <1>11, <1>12, <1>13, <1>14, <1>15, <1>16, <1>17,
            <1>18, <1>19 DEF Write

LEMMA ProcessStep == LInv /\ (Execute \/ Halt \/ Fault) => LInv'
  <1> SUFFICES ASSUME LInv, Execute \/ Halt \/ Fault PROVE LInv'
    OBVIOUS
  <1>1. con \in Consoles /\ con.tbuf <= BUF + 1
    BY DEF LInv, TypeOK
  <1>2. CASE Execute
    BY <1>2 DEF Execute, LInv, TypeOK, shown
  <1>3. CASE Halt \/ Fault
    <2>1. con' \in Consoles /\ con'.tbuf <= BUF + 1
      <3>1. Output \in Chars
        BY DEF Chars
      <3>2. CASE Halt
        BY <1>1, <3>2 DEF Halt
      <3>3. CASE Fault
        <4>1. /\ PutChar(con, Output) \in Consoles
              /\ PutChar(con, Output).tbuf <= BUF + 1
          BY <1>1, <3>1, PutCharFacts
        <4> QED BY <3>3, <4>1, NewLineFacts DEF Fault
      <3> QED BY <1>3, <3>2, <3>3
    <2>2. Leave
      BY <1>3 DEF Halt, Fault
    <2>3. <<>> \in Seq(Chars) /\ 0 \in MinTbuf .. MaxTbuf
      BY <1>1, FieldTypes DEF MaxTbuf, MinTbuf
    <2> QED BY <2>1, <2>2, <2>3 DEF Leave, LInv, TypeOK, Stages, shown
  <1> QED BY <1>2, <1>3

LEMMA LInvAlways == Spec => []LInv
  <1>1. LInv /\ [Next]_vars => LInv'
    <2> SUFFICES ASSUME LInv, [Next]_vars PROVE LInv'
      OBVIOUS
    <2>1. CASE Next
      BY <2>1, KeyStep, ReadStep, PrintStep, ProcessStep DEF Next
    <2>2. CASE UNCHANGED vars
      BY <2>2 DEF vars, shown, proc, LInv, TypeOK
    <2> QED BY <2>1, <2>2
  <1> QED BY <1>1, LInvInit, PTL DEF Spec

(* The console and the state of the running process keep their types: with *)
(* one terminal tbuf stays between -2 and BUF + 2.                         *)
THEOREM LineTypes == Spec => []TypeOK
  <1>1. LInv => TypeOK
    BY DEF LInv
  <1> QED BY <1>1, LInvAlways, PTL

(* No interleaving of keys with the characters, new lines and backspaces   *)
(* a program prints stores a character behind tbuffer, and a line that is  *)
(* read never has a negative length (lib.c:228-311).                       *)
THEOREM NoOverrun == Spec => []BufferInBounds
  <1>1. LInv => BufferInBounds
    BY DEF LInv, BufferInBounds
  <1> QED BY <1>1, LInvAlways, PTL
-----------------------------------------------------------------------------
(* The line as a sequence.                                                 *)
LEMMA TextFacts ==
  ASSUME NEW c \in Consoles, c.tbuf \in 0 .. BUF
  PROVE  /\ Text(c) \in Seq(Chars) /\ Len(Text(c)) = c.tbuf
         /\ \A i \in 1 .. c.tbuf : Text(c)[i] = c.tbuffer[i - 1]
  <1> DEFINE f == [i \in 1 .. c.tbuf |-> c.tbuffer[i - 1]]
  <1>1. \A i \in 1 .. c.tbuf : c.tbuffer[i - 1] \in Chars
    BY FieldTypes DEF Consoles
  <1>2. f \in [1 .. c.tbuf -> Chars]
    BY <1>1
  <1>3. Seq(Chars) = UNION {[1 .. m -> Chars] : m \in Nat}
    BY SeqDef
  <1>4. \A i \in 1 .. c.tbuf : f[i] = c.tbuffer[i - 1]
    OBVIOUS
  <1>5. c.tbuf \in Nat
    BY FieldTypes
  <1> HIDE DEF f
  <1>6. f \in Seq(Chars)
    BY <1>2, <1>3, <1>5
  <1>7. Len(f) = c.tbuf
    BY <1>2, <1>5, <1>6
  <1> QED BY <1>4, <1>6, <1>7 DEF Text, f

(* Two lines with the same characters are the same.                        *)
LEMMA SameText ==
  ASSUME NEW c, NEW d, d.tbuf = c.tbuf,
         \A i \in 1 .. c.tbuf : d.tbuffer[i - 1] = c.tbuffer[i - 1]
  PROVE  Text(d) = Text(c)
  BY DEF Text

LEMMA TypedText ==
  ASSUME NEW c \in Consoles, NEW ch \in Chars, 0 <= c.tbuf, c.tbuf < BUF, c.tflag = 1
  PROVE  Text(PutChar(c, ch)) = Append(Text(c), ch)
  <1> DEFINE d == PutChar(c, ch)
             t == Text(c)
             u == Text(d)
             v == Append(t, ch)
  <1>1. c.tbuf \in 0 .. BUF /\ c.tbuf <= BUF + 1 /\ c.tbuf \in Nat /\ c.tbuf >= 0
    BY FieldTypes
  <1>2. d \in Consoles
    BY <1>1, PutCharFacts
  <1>3. d.tbuf = c.tbuf + 1 /\ d.tbuffer = [c.tbuffer EXCEPT ![c.tbuf] = ch]
    BY <1>1, PutCharFacts
  <1>4. d.tbuf \in 0 .. BUF
    BY <1>1, <1>3, FieldTypes
  <1> HIDE DEF d
  <1>5. /\ t \in Seq(Chars) /\ Len(t) = c.tbuf
        /\ \A i \in 1 .. c.tbuf : t[i] = c.tbuffer[i - 1]
    BY <1>1, TextFacts
  <1>6. /\ u \in Seq(Chars) /\ Len(u) = c.tbuf + 1
        /\ \A i \in 1 .. c.tbuf + 1 : u[i] = d.tbuffer[i - 1]
    BY <1>2, <1>3, <1>4, TextFacts
  <1> HIDE DEF t, u
  <1>7. /\ v \in Seq(Chars) /\ Len(v) = c.tbuf + 1
        /\ \A i \in 1 .. c.tbuf + 1 : v[i] = IF i <= c.tbuf THEN t[i] ELSE ch
    BY <1>1, <1>5
  <1> HIDE DEF v
  <1>8. c.tbuffer \in [0 .. BUF -> Chars]
    BY DEF Consoles
  <1>9. ASSUME NEW i \in 1 .. c.tbuf + 1 PROVE u[i] = v[i]
    <2>1. i - 1 \in 0 .. BUF /\ u[i] = d.tbuffer[i - 1]
      BY <1>1, <1>6, FieldTypes
    <2>2. CASE i = c.tbuf + 1
      <3>1. i - 1 = c.tbuf /\ ~(i <= c.tbuf)
        BY <1>1, <2>2
      <3>2. d.tbuffer[i - 1] = ch
        BY <1>3, <1>8, <2>1, <3>1
      <3>3. v[i] = ch
        BY <1>7, <3>1
      <3> QED BY <2>1, <3>2, <3>3
    <2>3. CASE i # c.tbuf + 1
      <3>1. i \in 1 .. c.tbuf /\ i - 1 # c.tbuf
        BY <1>1, <2>3
      <3>2. d.tbuffer[i - 1] = c.tbuffer[i - 1]
        BY <1>3, <1>8, <2>1, <3>1
      <3>3. v[i] = t[i]
        BY <1>1, <1>7, <3>1
      <3> QED BY <1>5, <2>1, <3>1, <3>2, <3>3
    <2> QED BY <2>2, <2>3
  <1>10. u = v
    BY <1>6, <1>7, <1>9, SeqEqual
  <1> QED BY <1>10 DEF u, v, t, d

(* A line that starts like another and is not longer is a prefix of it.    *)
LEMMA CutText ==
  ASSUME NEW c \in Consoles, NEW d \in Consoles, c.tbuf <= BUF, 0 <= d.tbuf, d.tbuf <= c.tbuf,
         \A i \in 0 .. c.tbuf - 1 : d.tbuffer[i] = c.tbuffer[i]
  PROVE  Text(d) = SubSeq(Text(c), 1, d.tbuf)
  <1> DEFINE t == Text(c)
             u == Text(d)
             v == SubSeq(t, 1, d.tbuf)
  <1>1. c.tbuf \in Nat /\ d.tbuf \in Nat /\ d.tbuf \in 0 .. BUF /\ c.tbuf \in 0 .. BUF
    BY FieldTypes
  <1>2. /\ t \in Seq(Chars) /\ Len(t) = c.tbuf
        /\ \A i \in 1 .. c.tbuf : t[i] = c.tbuffer[i - 1]
    BY <1>1, TextFacts
  <1>3. /\ u \in Seq(Chars) /\ Len(u) = d.tbuf
        /\ \A i \in 1 .. d.tbuf : u[i] = d.tbuffer[i - 1]
    BY <1>1, TextFacts
  <1> HIDE DEF t, u
  <1>4. /\ v \in Seq(Chars) /\ Len(v) = d.tbuf
        /\ \A i \in 1 .. d.tbuf : v[i] = t[i]
    BY <1>1, <1>2
  <1> HIDE DEF v
  <1>5. \A i \in 1 .. d.tbuf : u[i] = v[i]
    BY <1>1, <1>2, <1>3, <1>4
  <1>6. u = v
    BY <1>3, <1>4, <1>5, SeqEqual
  <1> QED BY <1>6 DEF u, v, t

(* What ReadCopy hands over.                                               *)
LEMMA CopiedText ==
  ASSUME NEW c \in Consoles, c.tbuf \in 0 .. BUF, NEW n \in Nat
  PROVE  Copied(Ended(c), n) =
           SubSeq(Text(c), 1, IF n < c.tbuf /\ n < BUF THEN n
                              ELSE IF c.tbuf < BUF THEN c.tbuf ELSE BUF - 1)
  <1> DEFINE e == Ended(c)
             k == IF n < c.tbuf /\ n < BUF THEN n
                  ELSE IF c.tbuf < BUF THEN c.tbuf ELSE BUF - 1
             t == Text(c)
             v == SubSeq(t, 1, k)
             w == Copied(e, n)
  <1>1. c.tbuf \in Nat /\ BUF \in Nat /\ BUF > 0 /\ c.tbuf <= BUF + 1 /\ c.tbuf >= 0
    BY FieldTypes
  <1>2. k \in Nat /\ k <= c.tbuf
    BY <1>1
  <1>3. /\ e.tbuf = IF c.tbuf < BUF THEN c.tbuf ELSE BUF - 1
        /\ \A i \in 0 .. e.tbuf - 1 : e.tbuffer[i] = c.tbuffer[i]
    BY <1>1, EndedFacts
  <1>4. w \in Seq(Chars)
    BY <1>1, CopiedFacts
  <1> HIDE DEF e
  <1>5. k = IF e.tbuf > n THEN n ELSE e.tbuf
    BY <1>1, <1>3
  <1>6. w = [i \in 1 .. k |-> e.tbuffer[i - 1]]
    BY <1>5 DEF Copied
  <1> HIDE DEF k
  <1>7. Len(w) = k /\ \A i \in 1 .. k : w[i] = e.tbuffer[i - 1]
    <2> HIDE DEF w
    <2>1. DOMAIN w = 1 .. k /\ \A i \in 1 .. k : w[i] = e.tbuffer[i - 1]
      BY <1>6
    <2> QED BY <1>2, <1>4, <2>1
  <1> HIDE DEF w
  <1>8. /\ t \in Seq(Chars) /\ Len(t) = c.tbuf
        /\ \A i \in 1 .. c.tbuf : t[i] = c.tbuffer[i - 1]
    BY TextFacts
  <1> HIDE DEF t
  <1>9. v \in Seq(Chars) /\ Len(v) = k /\ \A i \in 1 .. k : v[i] = t[i]
    BY <1>1, <1>2, <1>8
  <1> HIDE DEF v
  <1>10. ASSUME NEW i \in 1 .. k PROVE w[i] = v[i]
    <2>1. k <= e.tbuf /\ e.tbuf \in Int
      BY <1>1, <1>3, <1>5
    <2>2. i - 1 \in 0 .. e.tbuf - 1 /\ i \in 1 .. c.tbuf
      BY <1>1, <1>2, <2>1
    <2>3. e.tbuffer[i - 1] = c.tbuffer[i - 1]
      BY <1>3, <2>2
    <2> QED BY <1>7, <1>8, <1>9, <2>2, <2>3
  <1>11. w = v
    BY <1>4, <1>7, <1>9, <1>10, SeqEqual
  <1> QED BY <1>11 DEF w, v, t, k, e
-----------------------------------------------------------------------------
(* While a read is on, the line fits and the size is one that was asked;   *)
(* past the loop the line has ended.                                       *)
RInv ==
  /\ pc \in {"spin", "seen"} => con.tbuf <= BUF /\ want \in Sizes
  /\ pc = "seen" => con.tflag = 0

(* Where a process that prints is, before and after a step.                *)
LEMMA PrintStages ==
  WriteStart \/ Write \/ Printf => {pc, pc'} \subseteq {"user", "wwait", "write"} \cup InPutc
  BY DEF WriteStart, Write, Printf, WritePass, WriteLine, WriteDraw, WriteScroll, WriteBlank,
    WriteWrap, WriteCheck, WritePut, WriteLoad, WriteInc, WriteBack, WriteMove, WriteRefused,
    WriteStep, WriteTake, WriteDrop, WriteReturn, AfterPut, InPutc

LEMMA RInvAlways == Spec => []RInv
  <1>1. Init => RInv
    BY DEF Init, RInv
  <1>2. LInv /\ RInv /\ [Next]_vars => RInv'
    <2> SUFFICES ASSUME LInv, RInv, [Next]_vars, pc' \in {"spin", "seen"}
                 PROVE  con'.tbuf <= BUF /\ want' \in Sizes /\ (pc' = "seen" => con'.tflag = 0)
      BY DEF RInv
    <2>1. con \in Consoles /\ con.tbuf <= BUF + 1 /\ indicator \in Terminals
      BY DEF LInv, TypeOK
    <2>2. CASE Key
      <3>1. UNCHANGED <<pc, want>>
        BY <2>2, OneTerminalAssumption DEF Key, KeyChar, KeyBackspace, KeyEnter, CtrlL, proc
      <3>2. con.tbuf <= BUF /\ want' \in Sizes /\ (pc' = "seen" => con.tflag = 0)
        BY <3>1 DEF RInv
      <3>3. CASE KeyChar
        <4>1. PICK s \in Syms : con' = PutChar(con, <<indicator, s>>)
          BY <3>3 DEF KeyChar
        <4>2. <<indicator, s>> \in Chars
          BY <2>1 DEF Chars
        <4> QED BY <2>1, <3>2, <4>1, <4>2, PutCharFacts
      <3>4. CASE KeyBackspace
        BY <2>1, <3>2, <3>4, BackspaceFacts DEF KeyBackspace
      <3>5. CASE KeyEnter
        BY <2>1, <3>2, <3>5, NewLineFacts DEF KeyEnter
      <3>6. CASE CtrlL
        BY <2>1, <3>2, <3>6 DEF CtrlL, Consoles
      <3> QED BY <2>2, <3>3, <3>4, <3>5, <3>6, OneTerminalAssumption DEF Key
    <2>3. CASE ReadStart
      BY <2>1, <2>3, FieldTypes DEF ReadStart, Consoles
    <2>4. CASE ReadSeen \/ UNCHANGED vars
      BY <2>4 DEF ReadSeen, RInv, vars, proc
    <2>5. CASE Execute
      BY <2>5 DEF Execute, RInv
    <2>6. ~(ReadCopy \/ ReadReturn \/ WriteStart \/ Write \/ Printf \/ Halt \/ Fault)
      BY PrintStages DEF InPutc, ReadCopy, ReadReturn, Halt, Fault, Leave
    <2> QED BY <2>2, <2>3, <2>4, <2>5, <2>6 DEF Next, Read
  <1> QED BY <1>1, <1>2, LInvAlways, PTL DEF Spec

(* The abstract state, written out.                                        *)
EState == CASE pc = "spin" /\ con.tflag = 1 -> "open"
            [] pc = "seen" \/ (pc = "spin" /\ con.tflag = 0) -> "ended"
            [] OTHER -> "idle"
ELine  == CASE pc \in {"spin", "seen"} -> Text(con)
            [] pc = "ret" -> got
            [] OTHER -> <<>>

LEMMA EStateFacts ==
  ASSUME LInv
  PROVE  /\ pc = "spin" /\ con.tflag = 1 => EState = "open"
         /\ pc = "spin" /\ con.tflag = 0 => EState = "ended"
         /\ pc = "seen" => EState = "ended"
         /\ pc \notin {"spin", "seen"} => EState = "idle"
         /\ pc \in {"spin", "seen"} => ELine = Text(con)
         /\ pc = "ret" => ELine = got
         /\ pc \notin {"spin", "seen", "ret"} => ELine = <<>>
         /\ con.tflag \in {0, 1}
  <1>1. con.tflag \in {0, 1}
    BY DEF LInv, TypeOK, Consoles
  <1> QED BY <1>1 DEF EState, ELine

LEMMA ENext ==
  ASSUME \/ EState = "idle" /\ EState' = "open" /\ ELine' = <<>>
         \/ /\ EState = "open" /\ Len(ELine) < BUF /\ EState' = EState
            /\ \E c \in Terminals \X Syms : ELine' = Append(ELine, c)
         \/ /\ EState = "open" /\ ELine # <<>> /\ EState' = EState
            /\ ELine' = SubSeq(ELine, 1, IF Len(ELine) = BUF THEN BUF - 2 ELSE Len(ELine) - 1)
         \/ EState = "open" /\ EState' = "ended" /\ ELine' = ELine
         \/ /\ EState = "ended" /\ EState' = "idle"
            /\ \E n \in Sizes :
                 ELine' = SubSeq(ELine, 1, IF n < Len(ELine) /\ n < BUF THEN n
                                           ELSE IF Len(ELine) < BUF THEN Len(ELine) ELSE BUF - 1)
         \/ EState' = "idle" /\ ELine' = <<>>
         \/ EState' = EState /\ ELine' = ELine
  PROVE  [Editor!Next]_(Editor!vars)
  <1> USE DEF EState, ELine
  <1>1. CASE EState = "idle" /\ EState' = "open" /\ ELine' = <<>>
    BY <1>1 DEF Editor!Next, Editor!Open
  <1>2. CASE /\ EState = "open" /\ Len(ELine) < BUF /\ EState' = EState
             /\ \E c \in Terminals \X Syms : ELine' = Append(ELine, c)
    BY <1>2 DEF Editor!Next, Editor!Type
  <1>3. CASE /\ EState = "open" /\ ELine # <<>> /\ EState' = EState
             /\ ELine' = SubSeq(ELine, 1, IF Len(ELine) = BUF THEN BUF - 2 ELSE Len(ELine) - 1)
    BY <1>3 DEF Editor!Next, Editor!Erase
  <1>4. CASE EState = "open" /\ EState' = "ended" /\ ELine' = ELine
    BY <1>4 DEF Editor!Next, Editor!Enter
  <1>5. CASE /\ EState = "ended" /\ EState' = "idle"
             /\ \E n \in Sizes :
                  ELine' = SubSeq(ELine, 1, IF n < Len(ELine) /\ n < BUF THEN n
                                            ELSE IF Len(ELine) < BUF THEN Len(ELine) ELSE BUF - 1)
    BY <1>5 DEF Editor!Next, Editor!Deliver
  <1>6. CASE EState' = "idle" /\ ELine' = <<>>
    BY <1>6 DEF Editor!Next, Editor!Forget
  <1>7. CASE EState' = EState /\ ELine' = ELine
    BY <1>7 DEF Editor!vars
  <1> QED BY <1>1, <1>2, <1>3, <1>4, <1>5, <1>6, <1>7

(* The steps of the keyboard on the abstract line.                         *)
LEMMA EditorKeyStep ==
  ASSUME LInv, LInv', RInv, Key
  PROVE  [Editor!Next]_(Editor!vars)
  <1>1. con \in Consoles /\ con.tbuf <= BUF + 1 /\ indicator \in Terminals
    BY DEF LInv, TypeOK
  <1>2. UNCHANGED <<pc, got>>
    BY OneTerminalAssumption DEF Key, KeyChar, KeyBackspace, KeyEnter, CtrlL, proc
  <1>3. CASE pc \notin {"spin", "seen"}
    <2>1. EState' = "idle" /\ EState = "idle"
      BY <1>2, <1>3, EStateFacts DEF EState
    <2>2. ELine' = ELine
      BY <1>2, <1>3 DEF ELine
    <2> QED BY <2>1, <2>2, ENext
  <1>4. CASE pc \in {"spin", "seen"}
    <2>1. con.tbuf <= BUF /\ con.tbuf \in 0 .. BUF
      BY <1>1, <1>4, FieldTypes DEF RInv, LInv
    <2>2. ELine = Text(con) /\ ELine' = Text(con)'
      BY <1>2, <1>4 DEF ELine
    <2>3. /\ Text(con) \in Seq(Chars) /\ Len(Text(con)) = con.tbuf
      BY <1>1, <2>1, TextFacts
    <2>4. con.tflag' = con.tflag => EState' = EState
      BY <1>2, <1>4 DEF EState
    <2>5. CASE KeyChar
      <3>1. PICK s \in Syms : con' = PutChar(con, <<indicator, s>>)
        BY <2>5 DEF KeyChar
      <3> DEFINE ch == <<indicator, s>>
      <3>2. ch \in Chars /\ ch \in Terminals \X Syms
        BY <1>1 DEF Chars
      <3> HIDE DEF ch
      <3>3. con' = PutChar(con, ch)
        BY <3>1 DEF ch
      <3>4. con'.tflag = con.tflag
        BY <1>1, <2>1, <3>2, <3>3, PutCharFacts
      <3>5. CASE con.tflag = 1 /\ con.tbuf < BUF
        <4>1. Text(PutChar(con, ch)) = Append(Text(con), ch)
          BY <1>1, <2>1, <3>2, <3>5, TypedText
        <4>2. Text(con)' = Append(Text(con), ch)
          BY <3>3, <4>1 DEF Text
        <4>3. CASE pc = "spin"
          <5>1. EState = "open"
            BY <3>5, <4>3, EStateFacts
          <5> QED BY <2>2, <2>3, <2>4, <3>2, <3>4, <3>5, <4>2, <5>1, ENext
        <4>4. CASE pc = "seen"
          <5> QED BY <3>5, <4>4 DEF RInv
        <4> QED BY <1>4, <4>3, <4>4
      <3>6. CASE ~(con.tflag = 1 /\ con.tbuf < BUF)
        <4>1. SameLine(con, con')
          BY <1>1, <2>1, <3>2, <3>3, <3>6, PutCharFacts
        <4>2. Text(con)' = Text(con)
          BY <4>1 DEF SameLine, Text
        <4> QED BY <2>2, <2>4, <3>4, <4>2, ENext
      <3> QED BY <3>5, <3>6
    <2>6. CASE KeyBackspace
      <3>1. con' = Backspace(con)
        BY <2>6 DEF KeyBackspace
      <3> DEFINE d == Backspace(con)
      <3>2. d \in Consoles
        BY <1>1, BackspaceFacts
      <3>3. /\ d.tflag = con.tflag
            /\ (con.tflag # 1 \/ con.tbuf = 0 \/ BUF = 1) => d.tbuf = con.tbuf
            /\ (con.tflag = 1 /\ con.tbuf > 0 /\ BUF > 1) =>
                  d.tbuf = IF con.tbuf = BUF THEN BUF - 2 ELSE con.tbuf - 1
            /\ \A i \in 0 .. con.tbuf - 1 : d.tbuffer[i] = con.tbuffer[i]
        BY <1>1, <2>1, BackspaceFacts
      <3>4. Text(con)' = Text(d)
        BY <3>1 DEF Text
      <3> HIDE DEF d
      <3>5. EState' = EState
        BY <2>4, <3>1, <3>3 DEF d
      <3>6. CASE con.tflag # 1 \/ con.tbuf = 0 \/ BUF = 1
        <4>1. d.tbuf = con.tbuf
          BY <3>3, <3>6
        <4>2. \A i \in 1 .. con.tbuf : i - 1 \in 0 .. con.tbuf - 1
          BY <1>1, FieldTypes
        <4>3. Text(d) = Text(con)
          BY <3>3, <4>1, <4>2, SameText
        <4> QED BY <2>2, <3>4, <3>5, <4>3, ENext
      <3>7. CASE con.tflag = 1 /\ con.tbuf > 0 /\ BUF > 1
        <4>1. d.tbuf = IF con.tbuf = BUF THEN BUF - 2 ELSE con.tbuf - 1
          BY <3>3, <3>7
        <4>2. 0 <= d.tbuf /\ d.tbuf <= con.tbuf
          BY <1>1, <2>1, <3>7, <4>1, FieldTypes
        <4>3. Text(d) = SubSeq(Text(con), 1, d.tbuf)
          BY <1>1, <2>1, <3>2, <3>3, <4>2, CutText
        <4>4. Text(con) # <<>>
          BY <2>3, <3>7
        <4>5. pc = "spin"
          BY <1>4, <3>7 DEF RInv
        <4>6. EState = "open"
          BY <3>7, <4>5, EStateFacts
        <4>7. ELine' = SubSeq(ELine, 1, IF Len(ELine) = BUF THEN BUF - 2 ELSE Len(ELine) - 1)
          BY <2>2, <2>3, <3>4, <4>1, <4>3
        <4> QED BY <2>2, <3>5, <4>4, <4>6, <4>7, ENext
      <3>8. con.tbuf > 0 \/ con.tbuf = 0
        BY <1>1, <2>1, FieldTypes
      <3>9. BUF > 1 \/ BUF = 1
        BY <1>1, FieldTypes
      <3> QED BY <3>6, <3>7, <3>8, <3>9
    <2>7. CASE KeyEnter
      <3>1. con'.tbuf = con.tbuf /\ con'.tflag = 0 /\ con'.tbuffer = con.tbuffer
        BY <1>1, <2>7, NewLineFacts DEF KeyEnter
      <3>2. ELine' = ELine
        BY <2>2, <3>1 DEF Text
      <3>3. EState' = "ended" /\ EState \in {"open", "ended"}
        BY <1>2, <1>4, <3>1, EStateFacts DEF EState
      <3> QED BY <3>2, <3>3, ENext
    <2>8. CASE CtrlL
      <3>1. SameLine(con, con')
        BY <1>1, <2>8 DEF CtrlL, Consoles, SameLine
      <3>2. Text(con)' = Text(con)
        BY <3>1 DEF SameLine, Text
      <3> QED BY <2>2, <2>4, <3>1, <3>2, ENext DEF SameLine
    <2> QED BY <2>5, <2>6, <2>7, <2>8, OneTerminalAssumption DEF Key
  <1> QED BY <1>3, <1>4

LEMMA EditorStep ==
  ASSUME LInv, LInv', RInv, [Next]_vars
  PROVE  [Editor!Next]_(Editor!vars)
  <1>1. con \in Consoles /\ con.tbuf <= BUF + 1 /\ Sizes \subseteq Nat
    BY LineAssumption DEF LInv, TypeOK
  <1>2. CASE Key
    BY <1>2, EditorKeyStep
  <1>3. CASE ReadStart
    <2>1. pc = "user" /\ pc' = "spin" /\ con' = [con EXCEPT !.tbuf = 0, !.tflag = 1]
      BY <1>3 DEF ReadStart
    <2>2. con'.tbuf = 0 /\ con'.tflag = 1
      BY <1>1, <2>1 DEF Consoles
    <2>3. EState = "idle" /\ EState' = "open"
      BY <2>1, <2>2, EStateFacts DEF EState
    <2>4. ELine' = Text(con)'
      BY <2>1 DEF ELine
    <2>5. Text(con)' = <<>>
      BY <2>2 DEF Text
    <2> QED BY <2>3, <2>4, <2>5, ENext
  <1>4. CASE ReadSeen
    <2>1. pc = "spin" /\ con.tflag = 0 /\ pc' = "seen" /\ con' = con
      BY <1>4 DEF ReadSeen
    <2>2. EState' = EState /\ ELine' = ELine
      BY <2>1 DEF EState, ELine, Text
    <2> QED BY <2>2, ENext
  <1>5. CASE ReadCopy
    <2>1. pc = "seen" /\ pc' = "ret" /\ got' = Copied(Ended(con), want)
      BY <1>5 DEF ReadCopy
    <2>2. con.tbuf \in 0 .. BUF /\ want \in Sizes /\ want \in Nat
      <3>1. con.tbuf <= BUF /\ con.tbuf >= 0 /\ want \in Sizes
        BY <2>1 DEF RInv, LInv
      <3>2. con.tbuf \in Int /\ BUF \in Nat
        BY <1>1, FieldTypes
      <3> QED BY <1>1, <3>1, <3>2
    <2>3. EState = "ended" /\ EState' = "idle" /\ ELine = Text(con) /\ ELine' = got'
      BY <2>1, EStateFacts DEF EState, ELine
    <2>4. Len(Text(con)) = con.tbuf
      BY <1>1, <2>2, TextFacts
    <2>5. got' = SubSeq(Text(con), 1, IF want < con.tbuf /\ want < BUF THEN want
                                      ELSE IF con.tbuf < BUF THEN con.tbuf ELSE BUF - 1)
      BY <1>1, <2>1, <2>2, CopiedText
    <2> QED BY <2>2, <2>3, <2>4, <2>5, ENext
  <1>6. CASE ReadReturn \/ Halt \/ Fault
    <2>1. pc' = "user"
      BY <1>6 DEF ReadReturn, Halt, Fault, Leave
    <2>2. EState' = "idle" /\ ELine' = <<>>
      BY <2>1 DEF EState, ELine
    <2> QED BY <2>2, ENext
  <1>7. CASE WriteStart \/ Write \/ Printf \/ Execute
    <2>1. pc \notin {"spin", "seen", "ret"} /\ pc' \notin {"spin", "seen", "ret"}
      BY <1>7, PrintStages DEF Execute, InPutc
    <2>2. EState' = "idle" /\ ELine' = <<>>
      BY <2>1 DEF EState, ELine
    <2> QED BY <2>2, ENext
  <1>8. CASE UNCHANGED vars
    <2>1. EState' = EState /\ ELine' = ELine
      BY <1>8 DEF vars, proc, EState, ELine, Text
    <2> QED BY <2>1, ENext
  <1> QED BY <1>2, <1>3, <1>4, <1>5, <1>6, <1>7, <1>8 DEF Next, Read

(* terminal_read on one terminal is the line editor: for every length of   *)
(* the line and size of the screen, whatever programs print, fault or are  *)
(* killed in between (terminal.c:14-47, lib.c:228-311).                    *)
THEOREM ReadIsEditor == Spec => ImplementsEditor
  <1>1. Init => Editor!Init
    BY DEF Init, Editor!Init
  <1>2. LInv /\ LInv' /\ RInv /\ [Next]_vars => [Editor!Next]_(Editor!vars)
    BY EditorStep
  <1> QED BY <1>1, <1>2, LInvAlways, RInvAlways, PTL DEF Spec, ImplementsEditor, Editor!Spec
-----------------------------------------------------------------------------
(* Where putc leaves the cursor.                                           *)
GoodPos(c) == c.screen_x <= Cols - 1 /\ c.screen_y <= Rows - 1

LEMMA CRemFacts ==
  ASSUME NEW v \in Int, NEW m \in Nat \ {0}
  PROVE  /\ CRem(v, m) \in Int /\ CRem(v, m) <= m - 1
         /\ v > -m /\ v <= m - 1 => CRem(v, m) = v
  <1>1. CASE v >= 0
    <2>1. v % m \in 0 .. m - 1
      BY <1>1
    <2>2. v <= m - 1 => v % m = v
      BY <1>1
    <2> QED BY <1>1, <2>1, <2>2 DEF CRem
  <1>2. CASE ~(v >= 0)
    <2>1. (-v) % m \in Nat
      BY <1>2
    <2>2. v > -m => (-v) % m = -v
      BY <1>2
    <2> QED BY <1>2, <2>1, <2>2 DEF CRem
  <1> QED BY <1>1, <1>2

LEMMA RowFacts ==
  ASSUME NEW y \in Int
  PROVE  /\ Cols * y \in Int
         /\ Cols * (y + 1) = Cols * y + Cols /\ Cols * (y - 1) = Cols * y - Cols
         /\ y <= 1 => Cols * y <= Cols
         /\ y <= 1 /\ Cols * y < Cols => y <= 0
         /\ y = Rows - 1 => Cols * y = Rows * Cols - Cols
         /\ Cols * y > -Cols => y >= 0
  <1>1. Cols \in Nat /\ Cols > 0 /\ Rows \in Nat
    BY LineAssumption
  <1>2. Cols * y \in Int
    BY <1>1
  <1>3. Cols * (y + 1) = Cols * y + Cols /\ Cols * (y - 1) = Cols * y - Cols
    BY <1>1
  <1>4. y <= 1 => Cols * y <= Cols
    BY <1>1
  <1>5. y <= 1 /\ Cols * y < Cols => y <= 0
    BY <1>1
  <1>6. y = Rows - 1 => Cols * y = Rows * Cols - Cols
    BY <1>1
  <1>7. Cols * y > -Cols => y >= 0
    <2>1. y + 1 <= 0 => Cols * (y + 1) <= 0
      BY <1>1
    <2> DEFINE P == Cols * y
    <2>2. P \in Int /\ (y + 1 <= 0 => P + Cols <= 0)
      BY <1>2, <1>3, <2>1
    <2> HIDE DEF P
    <2>3. P > -Cols => y >= 0
      BY <1>1, <2>2
    <2> QED BY <2>3 DEF P
  <1> QED BY <1>2, <1>3, <1>4, <1>5, <1>6, <1>7

LEMMA DrawPos ==
  ASSUME NEW c \in Consoles, GoodPos(c)
  PROVE  LET d == Draw(c) IN
         /\ GoodPos(d)
         /\ d.outside \/ Pos(c) >= 0
         /\ Pos(c) >= 0 =>
              /\ c.screen_x = Cols - 1 =>
                   /\ d.screen_x = 0
                   /\ d.screen_y = IF c.screen_y = Rows - 1 THEN c.screen_y ELSE c.screen_y + 1
              /\ c.screen_x # Cols - 1 =>
                   d.screen_x = CRem(c.screen_x + 1, Cols) /\ d.screen_y = c.screen_y
  <1> DEFINE a == Advance(c)
             m == IF LastCol(c) THEN Scroll(a) ELSE a
             d == Wrap(m)
  <1>0. /\ c.screen_x \in Int /\ c.screen_y \in Int /\ Cols \in Nat \ {0} /\ Rows \in Nat \ {0}
        /\ c.screen_x <= Cols - 1 /\ c.screen_y <= Rows - 1
    BY FieldTypes, LineAssumption DEF GoodPos
  <1>1. /\ a \in Consoles
        /\ a.screen_x = IF LastCol(c) THEN 0 ELSE c.screen_x + 1
        /\ a.screen_y = IF LastCol(c) THEN c.screen_y + 1 ELSE c.screen_y
        /\ a.outside = (c.outside \/ ~InPage(Pos(c)))
    BY AdvanceFacts
  <1>2. LastCol(c) <=> c.screen_x = Cols - 1
    BY <1>0 DEF LastCol
  <1> HIDE DEF a
  <1>3. /\ Scroll(a) \in Consoles /\ Scroll(a).screen_x = a.screen_x
        /\ Scroll(a).screen_y = IF a.screen_y > Rows - 1 THEN a.screen_y - 1 ELSE a.screen_y
        /\ a.outside => Scroll(a).outside
    BY <1>1, ScrollFacts
  <1>4. /\ m \in Consoles /\ (a.outside => m.outside)
        /\ c.screen_x = Cols - 1 =>
             /\ m.screen_x = 0
             /\ m.screen_y = IF c.screen_y = Rows - 1 THEN c.screen_y ELSE c.screen_y + 1
        /\ c.screen_x # Cols - 1 => m.screen_x = c.screen_x + 1 /\ m.screen_y = c.screen_y
    <2>1. CASE c.screen_x = Cols - 1
      <3>1. m = Scroll(a) /\ a.screen_x = 0 /\ a.screen_y = c.screen_y + 1
        BY <1>1, <1>2, <2>1
      <3> QED BY <1>0, <1>3, <2>1, <3>1
    <2>2. CASE c.screen_x # Cols - 1
      <3>1. m = a /\ a.screen_x = c.screen_x + 1 /\ a.screen_y = c.screen_y
        BY <1>1, <1>2, <2>2
      <3> QED BY <1>1, <2>2, <3>1
    <2> QED BY <2>1, <2>2
  <1>5. Draw(c) = d
    BY DEF Draw, a
  <1> HIDE DEF m
  <1>6. /\ d.screen_x = CRem(m.screen_x, Cols) /\ d.screen_y = CRem(m.screen_y, Rows)
        /\ d.outside = m.outside
    BY <1>4, WrapFacts
  <1> HIDE DEF d
  <1>7. m.screen_x \in Int /\ m.screen_y \in Int
    BY <1>4, FieldTypes
  <1>8. GoodPos(d)
    BY <1>0, <1>6, <1>7, CRemFacts DEF GoodPos
  <1>9. d.outside \/ Pos(c) >= 0
    BY <1>1, <1>4, <1>6 DEF InPage
  <1>10. ASSUME Pos(c) >= 0
         PROVE  /\ c.screen_x = Cols - 1 =>
                     /\ d.screen_x = 0
                     /\ d.screen_y = IF c.screen_y = Rows - 1 THEN c.screen_y ELSE c.screen_y + 1
                /\ c.screen_x # Cols - 1 =>
                     d.screen_x = CRem(c.screen_x + 1, Cols) /\ d.screen_y = c.screen_y
    <2>1. c.screen_y >= 0
      <3> DEFINE P == Cols * c.screen_y
      <3>1. P \in Int /\ (P > -Cols => c.screen_y >= 0)
        BY <1>0, RowFacts
      <3>2. P + c.screen_x >= 0
        BY <1>10 DEF Pos
      <3> HIDE DEF P
      <3> QED BY <1>0, <3>1, <3>2
    <2>2. m.screen_y >= 0 /\ m.screen_y <= Rows - 1
      BY <1>0, <1>4, <2>1
    <2>3. d.screen_y = m.screen_y
      BY <1>0, <1>6, <1>7, <2>2, CRemFacts
    <2>4. c.screen_x = Cols - 1 => d.screen_x = 0
      BY <1>0, <1>4, <1>6, CRemFacts
    <2> QED BY <1>4, <1>6, <2>3, <2>4
  <1> QED BY <1>5, <1>8, <1>9, <1>10

(* The cursor of d is that of c, and d is outside if c is.                 *)
SamePos(c, d) ==
  d.screen_x = c.screen_x /\ d.screen_y = c.screen_y /\ (c.outside => d.outside)

LEMMA StepBackPos ==
  ASSUME NEW c \in Consoles, GoodPos(c)
  PROVE  GoodPos(StepBack(c))
  <1> DEFINE a == StepBack(c)
  <1>1. /\ c.screen_x # 0 => a.screen_x = c.screen_x - 1 /\ a.screen_y = c.screen_y
        /\ c.screen_x = 0 => a.screen_x = Cols - 1 /\ a.screen_y = c.screen_y - 1
    BY StepBackFacts
  <1>2. c.screen_x \in Int /\ c.screen_y \in Int /\ Rows \in Int /\ Cols \in Int
    BY FieldTypes, LineAssumption
  <1> HIDE DEF a
  <1>3. GoodPos(a)
    BY <1>1, <1>2 DEF GoodPos
  <1> QED BY <1>3 DEF a

LEMMA PutCharPos ==
  ASSUME NEW c \in Consoles, NEW ch \in Chars, GoodPos(c), c.tbuf <= BUF + 1
  PROVE  GoodPos(PutChar(c, ch)) /\ (c.tbuf # BUF => SamePos(Draw(c), PutChar(c, ch)))
  <1> DEFINE e == Draw(c)
  <1>1. e \in Consoles /\ GoodPos(e) /\ e.tbuf = c.tbuf
    BY DrawFacts, DrawPos DEF SameLine
  <1>2. PutChar(c, ch) = IF c.tbuf = BUF THEN c ELSE Store(e, ch)
    BY DEF PutChar
  <1> HIDE DEF e
  <1>3. SamePos(e, Store(e, ch))
    BY <1>1, StoreFacts DEF SamePos
  <1> QED BY <1>1, <1>2, <1>3 DEF SamePos, GoodPos, e

LEMMA BackspacePos ==
  ASSUME NEW c \in Consoles, GoodPos(c), c.tbuf <= BUF + 1
  PROVE  GoodPos(Backspace(c))
  <1> DEFINE a == StepBack(c)
             b == PutChar(a, Blank)
             e == [b EXCEPT !.screen_x = b.screen_x - 1]
  <1>1. Blank \in Chars
    BY DEF Chars
  <1>2. Backspace(c) = IF c.tbuf = 0 THEN c ELSE Forget(e)
    BY DEF Backspace
  <1>3. a \in Consoles /\ GoodPos(a) /\ a.tbuf = c.tbuf
    BY StepBackFacts, StepBackPos DEF SameLine
  <1> HIDE DEF a
  <1>4. b \in Consoles /\ GoodPos(b)
    BY <1>1, <1>3, PutCharFacts, PutCharPos
  <1> HIDE DEF b
  <1>5. b.screen_x \in Int /\ b.screen_x - 1 \in Int /\ Cols \in Int
    BY <1>4, FieldTypes, LineAssumption
  <1>6. e \in Consoles /\ e.screen_x = b.screen_x - 1 /\ e.screen_y = b.screen_y
    BY <1>4, <1>5, SetX
  <1> HIDE DEF e
  <1>7. Forget(e).screen_x = e.screen_x /\ Forget(e).screen_y = e.screen_y
    BY <1>6, ForgetFacts
  <1> QED BY <1>2, <1>4, <1>5, <1>6, <1>7 DEF GoodPos

(* While a line is typed that began in column col and fits in two rows,    *)
(* the cursor is as far from col as the line is long, at most one row back *)
(* (a wrap is not undone by backspaces: the column becomes negative); or   *)
(* Ctrl-L has put it into the first two rows.                              *)
Along(c, col) == \/ c.screen_x = col + c.tbuf
                 \/ c.screen_x = col + c.tbuf - Cols
Top(c) == c.screen_y <= 1 /\ Pos(c) <= c.tbuf
Fits(col) == 0 <= col /\ col + BUF < 2 * Cols

LEMMA CharFollows ==
  ASSUME NEW c \in Consoles, NEW ch \in Chars, NEW col \in Int, GoodPos(c), Fits(col),
         c.tflag = 1, 0 <= c.tbuf, c.tbuf < BUF, Along(c, col) \/ Top(c),
         ~PutChar(c, ch).outside
  PROVE  LET d == PutChar(c, ch) IN
         /\ \/ Lead(d) = Lead(c)
            \/ Lead(d) = Lead(c) - Cols /\ Pos(c) = Rows * Cols - 1
         /\ Along(d, col) \/ Top(d)
  <1> DEFINE d == PutChar(c, ch)
             x == c.screen_x
             y == c.screen_y
             P == Cols * y
             n == c.tbuf
  <1>1. /\ x \in Int /\ y \in Int /\ n \in Nat /\ BUF \in Nat /\ Cols \in Nat /\ Cols > 0
        /\ Rows \in Nat /\ n <= BUF /\ n <= BUF + 1 /\ n # BUF
    BY FieldTypes, LineAssumption
  <1>2. d.tbuf = n + 1
    BY <1>1, PutCharFacts
  <1>3. SamePos(Draw(c), d)
    BY <1>1, PutCharPos
  <1>4. /\ Pos(c) >= 0
        /\ x = Cols - 1 =>
             /\ d.screen_x = 0
             /\ d.screen_y = IF y = Rows - 1 THEN y ELSE y + 1
        /\ x # Cols - 1 => d.screen_x = CRem(x + 1, Cols) /\ d.screen_y = y
    <2>2. ~Draw(c).outside
      BY <1>3 DEF SamePos
    <2>3. Pos(c) >= 0
      BY <2>2, DrawPos
    <2> QED BY <1>3, <2>3, DrawPos DEF SamePos
  <1>5. /\ P \in Int /\ Cols * (y + 1) = P + Cols /\ (y <= 1 => P <= Cols)
        /\ (y <= 1 /\ P < Cols => y <= 0) /\ (y = Rows - 1 => P = Rows * Cols - Cols)
    BY <1>1, RowFacts
  <1>6. Pos(c) = P + x /\ Lead(c) = P + x - n
    BY <1>1, <1>5 DEF Pos, Lead
  <1>7. Pos(d) = Cols * d.screen_y + d.screen_x /\ Lead(d) = Pos(d) - (n + 1)
    BY <1>2 DEF Pos, Lead
  <1> HIDE DEF d
  <1>8. CASE x = Cols - 1
    <2>1. d.screen_x = 0 /\ d.screen_y = IF y = Rows - 1 THEN y ELSE y + 1
      BY <1>4, <1>8
    <2>2. Pos(d) = IF y = Rows - 1 THEN P ELSE P + Cols
      BY <1>1, <1>5, <1>7, <2>1
    <2>3. \/ Lead(d) = Lead(c)
          \/ Lead(d) = Lead(c) - Cols /\ Pos(c) = Rows * Cols - 1
      <3> HIDE DEF P, x, y, n
      <3> QED BY <1>1, <1>5, <1>6, <1>7, <1>8, <2>2
    <2>4. CASE Along(c, col)
      <3>1. Along(d, col)
        BY <1>1, <1>2, <1>8, <2>1, <2>4 DEF Along, Fits
      <3> QED BY <2>3, <3>1 DEF d
    <2>5. CASE Top(c)
      <3>1. y <= 1 /\ P + x <= n
        BY <1>6, <2>5 DEF Top
      <3>2. n < 2 * Cols - 1
        BY <1>1 DEF Fits
      <3>3. y <= 0
        <4> HIDE DEF P, x, y, n
        <4> QED BY <1>1, <1>5, <1>8, <3>1, <3>2
      <3>4. d.screen_y <= 1
        BY <1>1, <2>1, <3>3
      <3>5. Pos(d) <= n + 1
        <4> HIDE DEF P, x, y, n
        <4> QED BY <1>1, <1>5, <1>8, <2>2, <3>1
      <3>6. Top(d)
        BY <1>2, <3>4, <3>5 DEF Top
      <3> QED BY <2>3, <3>6 DEF d
    <2> QED BY <2>4, <2>5
  <1>9. CASE x # Cols - 1
    <2>1. x >= -Cols
      <3>1. CASE Along(c, col)
        BY <1>1, <3>1 DEF Along, Fits
      <3>2. CASE Top(c)
        <4>1. P <= Cols /\ P + x >= 0
          BY <1>4, <1>5, <1>6, <3>2 DEF Top
        <4> HIDE DEF P, x, y, n
        <4> QED BY <1>1, <1>5, <4>1
      <3> QED BY <3>1, <3>2
    <2>2. CRem(x + 1, Cols) = x + 1
      <3>1. x + 1 \in Int /\ x + 1 <= Cols - 1 /\ x + 1 > -Cols
        BY <1>1, <1>9, <2>1 DEF GoodPos
      <3> QED BY <1>1, <3>1, CRemFacts
    <2>3. d.screen_x = x + 1 /\ d.screen_y = y
      BY <1>4, <1>9, <2>2
    <2>4. Pos(d) = P + (x + 1)
      BY <1>7, <2>3
    <2>5. Lead(d) = Lead(c)
      <3> HIDE DEF P, x, y, n
      <3> QED BY <1>1, <1>5, <1>6, <1>7, <2>4
    <2>6. CASE Along(c, col)
      <3>1. Along(d, col)
        BY <1>1, <1>2, <2>3, <2>6 DEF Along
      <3> QED BY <2>5, <3>1 DEF d
    <2>7. CASE Top(c)
      <3>1. y <= 1 /\ P + x <= n
        BY <1>6, <2>7 DEF Top
      <3>2. Pos(d) <= n + 1
        <4> HIDE DEF P, x, y, n
        <4> QED BY <1>1, <1>5, <2>4, <3>1
      <3>3. Top(d)
        BY <1>2, <2>3, <3>1, <3>2 DEF Top
      <3> QED BY <2>5, <3>3 DEF d
    <2> QED BY <2>6, <2>7
  <1> QED BY <1>8, <1>9

LEMMA BackFollows ==
  ASSUME NEW c \in Consoles, NEW col \in Int, GoodPos(c), Fits(col), BUF > 1,
         c.tflag = 1, 0 < c.tbuf, c.tbuf <= BUF, Along(c, col) \/ Top(c), ~Backspace(c).outside
  PROVE  LET d == Backspace(c) IN Lead(d) = Lead(c) /\ (Along(d, col) \/ Top(d))
  <1> DEFINE a == StepBack(c)
             b == PutChar(a, Blank)
             e == [b EXCEPT !.screen_x = @ - 1]
             d == Backspace(c)
             x == c.screen_x
             y == c.screen_y
             P == Cols * y
             n == c.tbuf
  <1>1. /\ x \in Int /\ y \in Int /\ n \in Nat /\ BUF \in Nat /\ Cols \in Nat /\ Cols > 0
        /\ Rows \in Nat /\ n <= BUF + 1 /\ n # 0
    BY FieldTypes, LineAssumption
  <1>2. d.tbuf = IF n = BUF THEN BUF - 2 ELSE n - 1
    BY <1>1, BackspaceFacts
  <1>3. a \in Consoles /\ a.tbuf = n /\ GoodPos(a)
    BY StepBackFacts, StepBackPos DEF SameLine
  <1>4. /\ x # 0 => a.screen_x = x - 1 /\ a.screen_y = y
        /\ x = 0 => a.screen_x = Cols - 1 /\ a.screen_y = y - 1
    BY StepBackFacts
  <1>5. Blank \in Chars
    BY DEF Chars
  <1> HIDE DEF a
  <1>6. b \in Consoles
    BY <1>1, <1>3, <1>5, PutCharFacts
  <1>7. n # BUF => SamePos(Draw(a), b)
    BY <1>1, <1>3, <1>5, PutCharPos
  <1>8. n = BUF => b = a
    BY <1>3 DEF PutChar
  <1>9. d = Forget(e)
    BY <1>1 DEF Backspace, a
  <1> HIDE DEF b
  <1>10. e \in Consoles /\ e.screen_x = b.screen_x - 1 /\ e.screen_y = b.screen_y
         /\ e.outside = b.outside
    <2>1. b.screen_x - 1 \in Int
      BY <1>6, FieldTypes
    <2> QED BY <1>6, <2>1, SetX
  <1> HIDE DEF e
  <1>11. SamePos(e, d)
    BY <1>9, <1>10, ForgetFacts DEF SamePos
  <1>12. /\ P \in Int /\ Cols * (y - 1) = P - Cols /\ (y <= 1 => P <= Cols)
    BY <1>1, RowFacts
  <1>13. Pos(c) = P + x /\ Lead(c) = P + x - n
    BY <1>1, <1>12 DEF Pos, Lead
  <1>14. Pos(d) = Cols * d.screen_y + d.screen_x /\ Lead(d) = Pos(d) - d.tbuf
    BY DEF Pos, Lead
  <1>15. ~b.outside
    BY <1>10, <1>11 DEF SamePos
  <1> HIDE DEF d
  <1>16. CASE n # BUF
    <2>1. /\ Pos(a) >= 0
          /\ a.screen_x = Cols - 1 =>
               /\ b.screen_x = 0
               /\ b.screen_y = IF a.screen_y = Rows - 1 THEN a.screen_y ELSE a.screen_y + 1
          /\ a.screen_x # Cols - 1 =>
               b.screen_x = CRem(a.screen_x + 1, Cols) /\ b.screen_y = a.screen_y
      <3>1. ~Draw(a).outside
        BY <1>7, <1>15, <1>16 DEF SamePos
      <3>2. Pos(a) >= 0
        BY <1>3, <3>1, DrawPos
      <3> QED BY <1>3, <1>7, <1>16, <3>2, DrawPos DEF SamePos
    <2>2. b.screen_x = x /\ b.screen_y = y
      <3>1. CASE x = 0
        BY <1>1, <1>4, <2>1, <3>1 DEF GoodPos
      <3>2. CASE x # 0
        <4>1. x > -Cols
          <5>1. CASE Along(c, col)
            BY <1>1, <5>1 DEF Along, Fits
          <5>2. CASE Top(c)
            <6>1. P <= Cols
              BY <1>12, <5>2 DEF Top
            <6>2. Pos(a) = P + (x - 1)
              BY <1>4, <3>2 DEF Pos
            <6> HIDE DEF P, x, y, n
            <6> QED BY <1>1, <1>12, <2>1, <6>1, <6>2
          <5> QED BY <5>1, <5>2
        <4>2. x <= Cols - 1
          BY DEF GoodPos
        <4>3. CRem(x, Cols) = x
          <5>1. x \in Int /\ Cols \in Nat \ {0}
            BY <1>1
          <5> HIDE DEF x
          <5> QED BY <4>1, <4>2, <5>1, CRemFacts
        <4>4. a.screen_x # Cols - 1 /\ a.screen_x + 1 = x
          BY <1>1, <1>4, <3>2, <4>2
        <4> QED BY <1>4, <2>1, <3>2, <4>3, <4>4
      <3> QED BY <3>1, <3>2
    <2>3. d.screen_x = x - 1 /\ d.screen_y = y /\ d.tbuf = n - 1
      BY <1>2, <1>10, <1>11, <1>16, <2>2 DEF SamePos
    <2>4. Pos(d) = P + (x - 1)
      BY <1>14, <2>3
    <2>5. Lead(d) = Lead(c)
      <3> HIDE DEF P, x, y, n
      <3> QED BY <1>1, <1>12, <1>13, <1>14, <2>3, <2>4
    <2>6. CASE Along(c, col)
      <3>1. Along(d, col)
        BY <1>1, <2>3, <2>6 DEF Along, Fits
      <3> QED BY <2>5, <3>1 DEF d
    <2>7. CASE Top(c)
      <3>1. y <= 1 /\ P + x <= n
        BY <1>13, <2>7 DEF Top
      <3>2. Pos(d) <= n - 1
        <4> HIDE DEF P, x, y, n
        <4> QED BY <1>1, <1>12, <2>4, <3>1
      <3>3. Top(d)
        BY <2>3, <3>1, <3>2 DEF Top
      <3> QED BY <2>5, <3>3 DEF d
    <2> QED BY <2>6, <2>7
  <1>17. CASE n = BUF
    <2>1. d.screen_x = a.screen_x - 1 /\ d.screen_y = a.screen_y /\ d.tbuf = n - 2
      BY <1>2, <1>8, <1>10, <1>11, <1>17 DEF SamePos
    <2>2. Pos(d) = P + (x - 2)
      <3>1. CASE x # 0
        <4>1. d.screen_x = x - 2 /\ d.screen_y = y
          BY <1>1, <1>4, <2>1, <3>1
        <4> QED BY <1>14, <4>1
      <3>2. CASE x = 0
        <4>1. d.screen_x = Cols - 2 /\ d.screen_y = y - 1
          BY <1>1, <1>4, <2>1, <3>2
        <4>2. Pos(d) = (P - Cols) + (Cols - 2)
          BY <1>12, <1>14, <4>1
        <4> HIDE DEF P
        <4> QED BY <1>1, <1>12, <3>2, <4>2
      <3> QED BY <3>1, <3>2
    <2>3. Lead(d) = Lead(c)
      <3> HIDE DEF P, x, y, n
      <3> QED BY <1>1, <1>12, <1>13, <1>14, <2>1, <2>2
    <2>4. CASE Along(c, col)
      <3>1. Along(d, col)
        BY <1>1, <1>4, <2>1, <2>4 DEF Along, Fits
      <3> QED BY <2>3, <3>1 DEF d
    <2>5. CASE Top(c)
      <3>1. y <= 1 /\ P + x <= n
        BY <1>13, <2>5 DEF Top
      <3>2. Pos(d) <= n - 2
        <4> HIDE DEF P, x, y, n
        <4> QED BY <1>1, <1>12, <2>2, <3>1
      <3>3. d.screen_y <= 1
        BY <1>1, <1>4, <2>1, <3>1
      <3>4. Top(d)
        BY <2>1, <3>2, <3>3 DEF Top
      <3> QED BY <2>3, <3>4 DEF d
    <2> QED BY <2>4, <2>5
  <1> QED BY <1>16, <1>17
-----------------------------------------------------------------------------
EInv ==
  /\ con.screen_x <= Cols - 1
  /\ Typing /\ Fits(column) => GoodPos(con) /\ (Along(con, column) \/ Top(con))

LEMMA EInvInit == Init => EInv
  <1> SUFFICES ASSUME Init PROVE EInv
    OBVIOUS
  <1>1. con.screen_x = 0
    BY DEF Init, NoConsole
  <1> QED BY <1>1, LineAssumption DEF EInv, Init, Typing

(* The cursor stays on the screen to the right.                            *)
LEMMA DrawX ==
  ASSUME NEW c \in Consoles
  PROVE  Draw(c).screen_x <= Cols - 1 /\ Wrap(c).screen_x <= Cols - 1
  <1>1. ASSUME NEW m \in Consoles PROVE Wrap(m).screen_x <= Cols - 1
    <2>1. Wrap(m).screen_x = CRem(m.screen_x, Cols) /\ m.screen_x \in Int
      BY WrapFacts, FieldTypes
    <2> QED BY <2>1, LineAssumption, CRemFacts
  <1> DEFINE m == IF LastCol(c) THEN Scroll(Advance(c)) ELSE Advance(c)
  <1>2. m \in Consoles
    BY AdvanceFacts, ScrollFacts
  <1>3. Draw(c) = Wrap(m)
    BY DEF Draw
  <1> HIDE DEF m
  <1> QED BY <1>1, <1>2, <1>3

LEMMA PutCharX ==
  ASSUME NEW c \in Consoles, NEW ch \in Chars, c.tbuf <= BUF + 1, c.screen_x <= Cols - 1
  PROVE  PutChar(c, ch).screen_x <= Cols - 1
  <1> DEFINE e == Draw(c)
  <1>1. e \in Consoles /\ e.tbuf = c.tbuf /\ e.screen_x <= Cols - 1
    BY DrawFacts, DrawX DEF SameLine
  <1>2. PutChar(c, ch) = IF c.tbuf = BUF THEN c ELSE Store(e, ch)
    BY DEF PutChar
  <1> HIDE DEF e
  <1>3. Store(e, ch).screen_x = e.screen_x
    BY <1>1, StoreFacts
  <1> QED BY <1>1, <1>2, <1>3

LEMMA XStep ==
  ASSUME LInv, EInv, [Next]_vars
  PROVE  con'.screen_x <= Cols - 1
  <1>1. /\ con \in Consoles /\ con.tbuf <= BUF + 1 /\ indicator \in Terminals
        /\ con.screen_x <= Cols - 1 /\ 0 <= Cols - 1 /\ con.screen_x \in Int /\ Cols \in Int
        /\ byte \in Chars /\ tmp \in MinTbuf .. MaxTbuf
    BY FieldTypes, LineAssumption DEF LInv, TypeOK, EInv, Chars
  <1>2. Blank \in Chars /\ Output \in Chars
    BY DEF Chars
  <1>3. CASE KeyChar
    <2>1. PICK s \in Syms : con' = PutChar(con, <<indicator, s>>)
      BY <1>3 DEF KeyChar
    <2>2. <<indicator, s>> \in Chars
      BY <1>1 DEF Chars
    <2> QED BY <1>1, <2>1, <2>2, PutCharX
  <1>4. CASE KeyBackspace
    <2> DEFINE a == StepBack(con)
               b == PutChar(a, Blank)
               e == [b EXCEPT !.screen_x = b.screen_x - 1]
    <2>1. con' = IF con.tbuf = 0 THEN con ELSE Forget(e)
      BY <1>4 DEF KeyBackspace, Backspace
    <2>2. a \in Consoles /\ a.screen_x <= Cols - 1 /\ a.tbuf = con.tbuf
      <3>1. /\ a \in Consoles /\ a.tbuf = con.tbuf
            /\ con.screen_x # 0 => a.screen_x = con.screen_x - 1
            /\ con.screen_x = 0 => a.screen_x = Cols - 1
        BY <1>1, StepBackFacts DEF SameLine
      <3> HIDE DEF a
      <3> QED BY <1>1, <3>1
    <2> HIDE DEF a
    <2>3. b \in Consoles /\ b.screen_x <= Cols - 1
      BY <1>1, <1>2, <2>2, PutCharFacts, PutCharX
    <2> HIDE DEF b
    <2>4. b.screen_x \in Int /\ b.screen_x - 1 \in Int
      BY <2>3, FieldTypes
    <2>5. e \in Consoles /\ e.screen_x = b.screen_x - 1
      BY <2>3, <2>4, SetX
    <2> HIDE DEF e
    <2>6. Forget(e).screen_x = e.screen_x
      BY <2>5, ForgetFacts
    <2> QED BY <1>1, <2>1, <2>3, <2>4, <2>5, <2>6
  <1>5. CASE KeyEnter \/ WriteLine
    BY <1>1, <1>5, NewLineFacts, ReturnFacts DEF KeyEnter, WriteLine
  <1>6. CASE CtrlL
    BY <1>1, <1>6 DEF CtrlL, Consoles
  <1>7. CASE ReadStart
    BY <1>1, <1>7 DEF ReadStart, Consoles
  <1>8. CASE ReadCopy
    BY <1>1, <1>8, EndedFacts DEF ReadCopy
  <1>9. CASE WriteDraw
    <2>1. con'.screen_x = IF LastCol(con) THEN 0 ELSE con.screen_x + 1
      BY <1>1, <1>9, AdvanceFacts DEF WriteDraw
    <2> QED BY <1>1, <2>1 DEF LastCol
  <1>10. CASE WritePut
    BY <1>1, <1>10, PutAtFacts DEF WritePut
  <1>11. CASE WriteInc \/ WriteDrop \/ WriteScroll
    <2>1. con'.screen_x = con.screen_x
      BY <1>1, <1>11 DEF WriteInc, WriteDrop, WriteScroll, Consoles
    <2> QED BY <1>1, <2>1
  <1>12. CASE WriteBlank
    BY <1>1, <1>12, BlankRowFacts DEF WriteBlank
  <1>13. CASE WriteWrap
    BY <1>1, <1>13, DrawX DEF WriteWrap
  <1>14. CASE WriteMove \/ WriteStep
    <2>1. con'.screen_x \in {con.screen_x - 1, Cols - 1}
      BY <1>1, <1>14 DEF WriteMove, WriteStep, Consoles
    <2> QED BY <1>1, <2>1
  <1>15. CASE Fault
    <2>1. PutChar(con, Output) \in Consoles
      BY <1>1, <1>2, PutCharFacts
    <2>2. con'.screen_x = 0
      BY <1>15, <2>1, NewLineFacts DEF Fault
    <2> QED BY <1>1, <2>2
  <1>16. CASE UNCHANGED con
    BY <1>1, <1>16
  <1> QED
    BY <1>3, <1>4, <1>5, <1>6, <1>7, <1>8, <1>9, <1>10, <1>11, <1>12, <1>13, <1>14, <1>15, <1>16,
      OneTerminalAssumption
    DEF Next, Key, Read, Write, ReadSeen, ReadReturn, WriteStart, WritePass, WriteCheck, WriteLoad,
      WriteBack, WriteRefused, WriteTake, WriteReturn, Printf, Execute, Halt, vars

LEMMA EchoStep ==
  ASSUME BUF > 1, LInv, RInv, EInv, [Next]_vars, Typing', Fits(column')
  PROVE  /\ GoodPos(con') /\ (Along(con', column') \/ Top(con'))
         /\ Typing /\ Fits(column) => Follows
  <1>1. /\ con \in Consoles /\ con.tbuf <= BUF + 1 /\ indicator \in Terminals
        /\ con.screen_x <= Cols - 1 /\ column \in Int /\ con.tbuf \in Int
    BY FieldTypes DEF LInv, TypeOK, EInv
  <1>2. pc' = "spin" /\ con'.tflag = 1 /\ ~con'.outside
    BY DEF Typing, Running
  <1>3. CASE ReadStart
    <2>1. /\ con'.screen_x = con.screen_x /\ con'.screen_y = con.screen_y /\ con'.tbuf = 0
          /\ column' = IF con.screen_y < Rows THEN con.screen_x ELSE -1
          /\ con.screen_x \in Int /\ con.screen_y \in Int /\ Rows \in Int /\ pc # "spin"
      BY <1>1, <1>3, FieldTypes, LineAssumption DEF ReadStart, Consoles
    <2>2. con.screen_y < Rows
      BY <2>1 DEF Fits
    <2>3. Along(con', column') /\ GoodPos(con')
      BY <1>1, <2>1, <2>2 DEF Along, GoodPos
    <2> QED BY <2>1, <2>3 DEF Typing
  <1>4. CASE UNCHANGED <<con, column>> /\ Typing
    <2>1. GoodPos(con') /\ (Along(con', column') \/ Top(con'))
      BY <1>4 DEF EInv
    <2>2. Follows
      BY <1>4 DEF Follows
    <2> QED BY <2>1, <2>2
  <1>5. CASE Key
    <2>1. pc = "spin" /\ column' = column
      BY <1>2, <1>5, OneTerminalAssumption
      DEF Key, KeyChar, KeyBackspace, KeyEnter, CtrlL, proc
    <2>2. con.tbuf <= BUF /\ con.tbuf >= 0 /\ con.tbuf \in 0 .. BUF
      BY <1>1, <2>1, FieldTypes DEF RInv, LInv
    <2>3. Running
      BY <1>5, OneTerminalAssumption DEF Key, KeyChar, KeyBackspace, KeyEnter, CtrlL
    <2>4. CASE KeyChar
      <3>1. PICK s \in Syms : con' = PutChar(con, <<indicator, s>>)
        BY <2>4 DEF KeyChar
      <3> DEFINE ch == <<indicator, s>>
      <3>2. ch \in Chars
        BY <1>1 DEF Chars
      <3> HIDE DEF ch
      <3>3. con' = PutChar(con, ch)
        BY <3>1 DEF ch
      <3>4. con.tflag = 1
        BY <1>1, <1>2, <2>2, <3>2, <3>3, PutCharFacts
      <3>5. Typing /\ GoodPos(con) /\ (Along(con, column) \/ Top(con)) /\ Fits(column)
        BY <2>1, <2>3, <3>4 DEF Typing, EInv
      <3>6. CASE con.tbuf < BUF
        <4>1. /\ \/ Lead(con') = Lead(con)
                 \/ Lead(con') = Lead(con) - Cols /\ Pos(con) = Rows * Cols - 1
              /\ Along(con', column) \/ Top(con')
          BY <1>1, <1>2, <2>2, <3>2, <3>3, <3>4, <3>5, <3>6, CharFollows
        <4>2. GoodPos(con')
          BY <1>1, <3>2, <3>3, <3>5, PutCharPos
        <4> QED BY <2>1, <4>1, <4>2 DEF Follows
      <3>7. CASE con.tbuf = BUF
        <4>1. con' = con
          BY <3>3, <3>7 DEF PutChar
        <4> QED BY <1>4, <2>1, <3>5, <4>1
      <3> QED BY <1>1, <2>2, <3>6, <3>7, FieldTypes
    <2>5. CASE KeyBackspace
      <3>1. con' = Backspace(con)
        BY <2>5 DEF KeyBackspace
      <3>2. con.tflag = 1
        BY <1>1, <1>2, <2>2, <3>1, BackspaceFacts
      <3>3. Typing /\ GoodPos(con) /\ (Along(con, column) \/ Top(con)) /\ Fits(column)
        BY <2>1, <2>3, <3>2 DEF Typing, EInv
      <3>4. CASE con.tbuf = 0
        <4>1. con' = con
          BY <3>1, <3>4 DEF Backspace
        <4> QED BY <1>4, <2>1, <3>3, <4>1
      <3>5. CASE 0 < con.tbuf
        <4>1. Lead(con') = Lead(con) /\ (Along(con', column) \/ Top(con'))
          BY <1>1, <1>2, <2>2, <3>1, <3>2, <3>3, <3>5, BackFollows
        <4>2. GoodPos(con')
          BY <1>1, <3>1, <3>3, BackspacePos
        <4> QED BY <2>1, <4>1, <4>2 DEF Follows
      <3> QED BY <1>1, <2>2, <3>4, <3>5
    <2>6. CASE KeyEnter
      BY <1>1, <1>2, <2>6, NewLineFacts DEF KeyEnter
    <2>7. CASE CtrlL
      <3>1. con'.screen_x = 0 /\ con'.screen_y = 0 /\ con'.tbuf = con.tbuf
        BY <1>1, <2>7 DEF CtrlL, Consoles
      <3>2. Cols * 0 = 0
        BY LineAssumption
      <3>3. Pos(con') = 0
        BY <3>1, <3>2 DEF Pos
      <3>4. Top(con') /\ GoodPos(con')
        BY <1>1, <2>2, <3>1, <3>3, LineAssumption DEF Top, GoodPos
      <3> QED BY <3>1, <3>3, <3>4 DEF Follows
    <2> QED BY <1>5, <2>4, <2>5, <2>6, <2>7, OneTerminalAssumption DEF Key
  <1>6. CASE UNCHANGED vars
    <2>1. UNCHANGED <<con, column, pc>>
      BY <1>6 DEF vars, proc
    <2>2. Typing
      BY <2>1 DEF Typing, Running
    <2> QED BY <1>4, <2>1, <2>2
  <1>7. ~(Read \/ WriteStart \/ Write \/ Printf \/ Execute \/ Halt \/ Fault)
    BY <1>2, PrintStages DEF InPutc, Read, ReadSeen, ReadCopy, ReadReturn, Execute, Halt, Fault, Leave
  <1> QED BY <1>3, <1>5, <1>6, <1>7 DEF Next

(* On a terminal alone the cursor moves with the line that is typed, for   *)
(* every size of the screen and every line of two characters or more that  *)
(* fits in two rows (lib.c:228-311; the code has 128 and 80).  In a line   *)
(* of one character a backspace would move the cursor and keep the line.   *)
THEOREM EchoFollows ==
  ASSUME BUF > 1
  PROVE  Spec => EchoInPlace
  <1>1. LInv /\ RInv /\ EInv /\ [Next]_vars => EInv'
    BY XStep, EchoStep DEF EInv
  <1>2. LInv /\ RInv /\ EInv /\ [Next]_vars =>
          [Typing /\ Typing' /\ 0 <= column /\ column + BUF < 2 * Cols => Follows]_vars
    <2> SUFFICES ASSUME LInv, RInv, EInv, Next, Typing, Typing', Fits(column)
                 PROVE  Follows
      BY DEF Fits
    <2>1. column' = column
      BY OneTerminalAssumption, PrintStages DEF Typing, InPutc, Next, Key, KeyChar, KeyBackspace,
        KeyEnter, CtrlL, Read, ReadStart, ReadSeen, ReadCopy, ReadReturn, Execute, Halt, Fault,
        Leave, proc
    <2> QED BY <2>1, EchoStep
  <1> QED BY <1>1, <1>2, EInvInit, LInvAlways, RInvAlways, PTL DEF Spec, EchoInPlace
=============================================================================
