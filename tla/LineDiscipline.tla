--------------------------- MODULE LineDiscipline ---------------------------
(***************************************************************************)
(* Line input and console output: putc and reset_screen (lib.c),           *)
(* terminal_read and terminal_write (terminal.c), the keys that print      *)
(* (keyboard.c) and the cursor and line kept for each hidden terminal      *)
(* (scheduling.c).                                                         *)
(*                                                                         *)
(* The keyboard handler runs putc from start to end; the putc of a program *)
(* that writes can be interrupted by it: inside the scroll, after a test   *)
(* whose outcome is used later, and between the load and the store of      *)
(* tbuf.  There is one line, one flag "a read is on" and one cursor, for   *)
(* the terminal on display.  Of the processes only the running one matters *)
(* here: module Process says which one that is.  What the cells of the     *)
(* screen hold is left out: where putc draws follows from the cursor.      *)
(***************************************************************************)
EXTENDS Integers, Sequences

CONSTANTS
  BUF,         \* characters of a line: 128 in the code
  Cols, Rows,  \* size of the screen
  Cells,       \* cells of the page of the video memory: 2048 in the code
  NTERM,       \* terminals
  AltKeys,     \* the n for which Alt-Fn is pressed
  Syms,        \* characters that are typed
  Prints,      \* what programs print: "char", "newline", "backspace"
  Sizes        \* numbers of bytes the programs ask read() for

ASSUME LineAssumption ==
  /\ BUF \in Nat \ {0}
  /\ Cols \in Nat \ {0} /\ Rows \in Nat \ {0}
  /\ Cells \in Nat /\ Cells > Cols * Rows
  /\ NTERM \in Nat \ {0} /\ AltKeys \subseteq 1 .. NTERM
  /\ Sizes \subseteq Nat

Terminals == 1 .. NTERM

(* BOUND: the values of tbuf that are followed.  With one terminal they    *)
(* are never left; with more, putc can step over the limits again.         *)
MaxTbuf == BUF + 2
MinTbuf == -2

(* BOUND: the lowest row from which a program's new line is followed.      *)
(* Every program killed inside the scroll leaves the cursor a row lower.   *)
MaxRow == Rows

(* A typed character carries the terminal it was typed at; what programs   *)
(* print, the blank of a backspace and the end of a line carry 0.          *)
Output == <<0, "output">>
Blank  == <<0, "blank">>
EndL   == <<0, "newline">>
Chars  == (Terminals \X Syms) \cup {Output, Blank, EndL}

(* The console: the globals of lib.c and terminal.c.  outside is set by a  *)
(* write before or behind the page of the video memory, where nothing is   *)
(* mapped, or before or behind tbuffer.  The model stops there.            *)
Consoles ==
  [screen_x : Int, screen_y : Int, tbuf : MinTbuf .. MaxTbuf, tflag : {0, 1},
   tbuffer : [0 .. BUF -> Chars], outside : BOOLEAN]

NoConsole ==
  [screen_x |-> 0, screen_y |-> 0, tbuf |-> 0, tflag |-> 0,
   tbuffer |-> [i \in 0 .. BUF |-> Blank], outside |-> FALSE]

(* user: in user mode; spin, seen, ret: in terminal_read, waiting for the  *)
(* end of the line, past the loop, and with the line copied; wwait, write: *)
(* in terminal_write, before its loop on indicator and between two bytes.  *)
(* The others are in the putc of terminal_write: left, up, inner, step,    *)
(* take, drop for a backspace, scroll, blank in the scroll, wrap, chk,     *)
(* put, load, inc after a character has been drawn.                        *)
InPutc == {"left", "up", "inner", "step", "take", "drop", "scroll", "blank",
           "wrap", "chk", "put", "load", "inc"}
Stages == {"user", "spin", "seen", "ret", "wwait", "write"} \cup InPutc

VARIABLES
  con,        \* the console of the terminal on display
  saved,      \* terminal -> its console while it is hidden
  indicator,  \* the terminal on display
  fts,        \* the terminals whose shell has been started
  screen,     \* head->screen: the terminal the running process belongs to
  pc,         \* where the running process is
  want,       \* n of terminal_read
  got,        \* the line terminal_read copied to its caller
  byte,       \* what the putc of terminal_write was called with; Blank
              \* is the putc(' ') inside a putc('\b')
  tmp,        \* tbuf as loaded by tbuf++ and tbuf -= 2
  column      \* auxiliary: where the line that is read began, -1 below
              \* the screen

shown == <<saved, indicator, fts>>
proc  == <<screen, pc, want, got, byte, tmp, column>>
vars  == <<con, shown, proc>>

TypeOK ==
  /\ con \in Consoles /\ saved \in [Terminals -> Consoles]
  /\ indicator \in Terminals /\ screen \in Terminals /\ fts \subseteq Terminals
  /\ pc \in Stages
  /\ want \in Sizes \cup {0}
  /\ got \in Seq(Chars)
  /\ byte \in {Output, Blank, EndL}
  /\ tmp \in MinTbuf .. MaxTbuf
  /\ column \in Int

Init ==
  /\ con = NoConsole /\ saved = [n \in Terminals |-> NoConsole]
  /\ indicator = 1 /\ fts = {1} /\ screen = 1
  /\ pc = "user" /\ want = 0 /\ got = <<>> /\ byte = Output /\ tmp = 0 /\ column = 0
-----------------------------------------------------------------------------
Pos(c) == Cols * c.screen_y + c.screen_x

InPage(p) == 0 <= p /\ p < Cells

(* a % m as C computes it.                                                 *)
CRem(a, m) == IF a >= 0 THEN a % m ELSE -((-a) % m)

(* The row that is blanked after a scroll, with the attribute behind it.   *)
BlankRow(c) ==
  [c EXCEPT !.outside = @ \/ ~InPage(Cols * c.screen_y) \/ ~InPage(Cols * c.screen_y + Cols)]

Scroll(c) ==
  IF c.screen_y > Rows - 1 THEN BlankRow([c EXCEPT !.screen_y = @ - 1]) ELSE c

(* putc('\n'), and its part before the scroll.                             *)
Return(c)  == [c EXCEPT !.tflag = 0, !.screen_y = @ + 1, !.screen_x = 0]
NewLine(c) == Scroll(Return(c))

(* putc of another character: draw it and advance the cursor, in the last  *)
(* column to the next row; scroll; bring the cursor into range; store it.  *)
LastCol(c) == c.screen_x + 1 >= Cols
Advance(c) ==
  [c EXCEPT !.screen_x = IF LastCol(c) THEN 0 ELSE @ + 1,
            !.screen_y = IF LastCol(c) THEN @ + 1 ELSE @,
            !.outside  = @ \/ ~InPage(Pos(c))]
Wrap(c) == [c EXCEPT !.screen_x = CRem(@, Cols), !.screen_y = CRem(@, Rows)]
Draw(c) == Wrap(IF LastCol(c) THEN Scroll(Advance(c)) ELSE Advance(c))

(* tbuffer[tbuf] = ch.                                                     *)
PutAt(c, ch) ==
  IF c.tbuf \in 0 .. BUF THEN [c EXCEPT !.tbuffer[c.tbuf] = ch]
                         ELSE [c EXCEPT !.outside = TRUE]

Store(c, ch) ==
  IF c.tflag = 1 /\ c.tbuf < BUF THEN [PutAt(c, ch) EXCEPT !.tbuf = @ + 1] ELSE c

PutChar(c, ch) == IF c.tbuf = BUF THEN c ELSE Store(Draw(c), ch)

(* putc('\b'): step back, putc(' '), which draws and may store, step back. *)
StepBackOneShort(c) ==
  IF c.screen_x # 0 THEN [c EXCEPT !.screen_x = @ - 1]
                    ELSE [c EXCEPT !.screen_x = Cols, !.screen_y = @ - 1]
StepBack(c) ==
  IF c.screen_x # 0 THEN [c EXCEPT !.screen_x = @ - 1]
                    ELSE [c EXCEPT !.screen_x = Cols - 1, !.screen_y = @ - 1]
Forget1(c) == IF c.tflag = 1 /\ c.tbuf > 0 THEN [c EXCEPT !.tbuf = @ - 1] ELSE c
ForgetUnchecked(c) == IF c.tflag = 1 THEN [c EXCEPT !.tbuf = @ - 2] ELSE c
Forget(c)  == IF c.tflag = 1 /\ c.tbuf > 1 THEN [c EXCEPT !.tbuf = @ - 2] ELSE c

Backspace(c) ==
  IF c.tbuf = 0 THEN c
  ELSE Forget([PutChar(StepBack(c), Blank) EXCEPT !.screen_x = @ - 1])

(* The line that terminal_read hands to its caller, and the console after. *)
Text(c) == [i \in 1 .. c.tbuf |-> c.tbuffer[i - 1]]

Ended(c) ==
  IF c.tbuf < BUF THEN PutAt(c, EndL)
  ELSE [c EXCEPT !.tbuffer[BUF] = EndL, !.tbuf = BUF - 1]

Copied(c, n) ==
  [i \in 1 .. (IF c.tbuf > n THEN n ELSE c.tbuf) |-> c.tbuffer[i - 1]]
-----------------------------------------------------------------------------
Running == ~con.outside

(* The keys.                                                               *)
KeyChar ==
  /\ Running
  /\ \E s \in Syms : con' = PutChar(con, <<indicator, s>>)
  /\ UNCHANGED <<shown, proc>>

(* BOUND: a cursor that left the screen is not followed further back.      *)
CursorBound == Pos(con) >= 0
StepBound   == Pos(con) >= -1

KeyBackspace ==
  /\ Running /\ CursorBound
  /\ con' = Backspace(con)
  /\ UNCHANGED <<shown, proc>>

KeyEnter ==
  /\ Running
  /\ con' = NewLine(con)
  /\ UNCHANGED <<shown, proc>>

CtrlL ==
  /\ Running
  /\ con' = [con EXCEPT !.screen_x = 0, !.screen_y = 0]
  /\ UNCHANGED <<shown, proc>>

(* getCursorandBuffer(), setCursorandBuffer(): tflag is not kept.  The     *)
(* copy kept for the terminal on display is overwritten before it is read. *)
RestoreFlag(n) == saved[n]
Restore(n)     == [saved[n] EXCEPT !.tflag = con.tflag]
Hide(n)        == [saved EXCEPT ![indicator] = con, ![n] = NoConsole]

AltAgain(n) ==
  /\ Running /\ n \in fts /\ n # indicator
  /\ saved' = Hide(n)
  /\ con' = Restore(n)
  /\ indicator' = n
  /\ UNCHANGED <<fts, proc>>

(* The first time reset_screen() clears the screen and a shell is started  *)
(* on top of the running process, which is frozen where it is.             *)
AltFirst(n) ==
  /\ Running /\ n \notin fts
  /\ saved' = Hide(n)
  /\ con' = [Restore(n) EXCEPT !.screen_x = 0, !.screen_y = 0]
  /\ indicator' = n /\ fts' = fts \cup {n} /\ screen' = n
  /\ pc' = "user" /\ want' = 0 /\ got' = <<>> /\ byte' = Output /\ tmp' = 0 /\ column' = 0
-----------------------------------------------------------------------------
(* terminal_read().                                                        *)
ReadStart ==
  /\ Running /\ pc = "user"
  /\ \E n \in Sizes : want' = n
  /\ con' = [con EXCEPT !.tbuf = 0, !.tflag = 1]
  /\ pc' = "spin" /\ column' = (IF con.screen_y < Rows THEN con.screen_x ELSE -1)
  /\ UNCHANGED <<shown, screen, got, byte, tmp>>

ReadSeen ==
  /\ Running /\ pc = "spin" /\ con.tflag = 0
  /\ pc' = "seen" /\ column' = 0
  /\ UNCHANGED <<con, shown, screen, want, got, byte, tmp>>

ReadCopy ==
  /\ Running /\ pc = "seen"
  /\ con' = Ended(con)
  /\ got' = Copied(Ended(con), want)
  /\ pc' = "ret"
  /\ UNCHANGED <<shown, screen, want, byte, tmp, column>>

ReadReturn ==
  /\ Running /\ pc = "ret"
  /\ pc' = "user" /\ want' = 0 /\ got' = <<>>
  /\ UNCHANGED <<con, shown, screen, byte, tmp, column>>

(* terminal_write(): the loop on head->screen is passed once; then one     *)
(* putc for each byte.  A character that finds the line full and a         *)
(* backspace that finds it empty are dropped, which changes nothing.       *)
inWrite == <<shown, screen, want, got, column>>

WriteStart ==
  /\ Running /\ pc = "user"
  /\ pc' = "wwait"
  /\ UNCHANGED <<con, byte, tmp, inWrite>>

WritePass ==
  /\ Running /\ pc = "wwait" /\ indicator = screen
  /\ pc' = "write"
  /\ UNCHANGED <<con, byte, tmp, inWrite>>

WriteReturn ==
  /\ Running /\ pc = "write"
  /\ pc' = "user"
  /\ UNCHANGED <<con, byte, tmp, inWrite>>

(* putc('\n').                                                             *)
WriteLine ==
  /\ Running /\ pc = "write" /\ "newline" \in Prints /\ con.screen_y <= MaxRow
  /\ con' = Return(con)
  /\ IF con.screen_y + 1 > Rows - 1 THEN pc' = "scroll" /\ byte' = EndL
                                    ELSE UNCHANGED <<pc, byte>>
  /\ UNCHANGED <<tmp, inWrite>>

(* putc('\b'): the cursor steps back as the test of screen_x says, then    *)
(* putc(' ') begins, which a full line refuses.                            *)
WriteBack ==
  /\ Running /\ pc = "write" /\ "backspace" \in Prints /\ con.tbuf # 0
  /\ pc' = IF con.screen_x # 0 THEN "left" ELSE "up"
  /\ byte' = Blank
  /\ UNCHANGED <<con, tmp, inWrite>>

WriteMove ==
  /\ Running /\ CursorBound
  /\ \/ pc = "left" /\ con' = [con EXCEPT !.screen_x = @ - 1]
     \/ pc = "up" /\ con' = [con EXCEPT !.screen_x = Cols - 1, !.screen_y = @ - 1]
  /\ pc' = "inner"
  /\ UNCHANGED <<byte, tmp, inWrite>>

WriteRefused ==
  /\ Running /\ pc = "inner" /\ con.tbuf = BUF
  /\ pc' = "step"
  /\ UNCHANGED <<con, byte, tmp, inWrite>>

(* putc of a character, or of the blank of a backspace.                    *)
WriteDraw ==
  /\ Running /\ con.tbuf # BUF
  /\ pc = "inner" \/ (pc = "write" /\ "char" \in Prints)
  /\ con' = Advance(con)
  /\ pc' = IF LastCol(con) /\ con.screen_y + 1 > Rows - 1 THEN "scroll" ELSE "wrap"
  /\ UNCHANGED <<byte, tmp, inWrite>>

WriteScroll ==
  /\ Running /\ pc = "scroll" /\ CursorBound
  /\ con' = [con EXCEPT !.screen_y = @ - 1]
  /\ pc' = "blank"
  /\ UNCHANGED <<byte, tmp, inWrite>>

WriteBlank ==
  /\ Running /\ pc = "blank"
  /\ con' = BlankRow(con)
  /\ IF byte = EndL THEN pc' = "write" /\ byte' = Output
                    ELSE pc' = "wrap" /\ UNCHANGED byte
  /\ UNCHANGED <<tmp, inWrite>>

WriteWrap ==
  /\ Running /\ pc = "wrap"
  /\ con' = Wrap(con)
  /\ pc' = "chk"
  /\ UNCHANGED <<byte, tmp, inWrite>>

AfterPut == IF byte = Blank THEN "step" ELSE "write"

RoomAny == con.tflag = 1
Room    == con.tflag = 1 /\ con.tbuf < BUF
WriteCheck ==
  /\ Running /\ pc = "chk"
  /\ pc' = IF Room THEN "put" ELSE AfterPut
  /\ UNCHANGED <<con, byte, tmp, inWrite>>

WritePut ==
  /\ Running /\ pc = "put"
  /\ con' = PutAt(con, byte)
  /\ pc' = "load"
  /\ UNCHANGED <<byte, tmp, inWrite>>

WriteLoad ==
  /\ Running /\ pc = "load"
  /\ tmp' = con.tbuf
  /\ pc' = "inc"
  /\ UNCHANGED <<con, byte, inWrite>>

WriteInc ==
  /\ Running /\ pc = "inc" /\ tmp < MaxTbuf
  /\ con' = [con EXCEPT !.tbuf = tmp + 1]
  /\ pc' = AfterPut /\ tmp' = 0
  /\ UNCHANGED <<byte, inWrite>>

(* The rest of putc('\b'): the second step back, then tbuf -= 2.           *)
WriteStep ==
  /\ Running /\ pc = "step" /\ StepBound
  /\ con' = [con EXCEPT !.screen_x = @ - 1]
  /\ pc' = IF con.tflag = 1 /\ con.tbuf > 1 THEN "take" ELSE "write"
  /\ byte' = Output
  /\ UNCHANGED <<tmp, inWrite>>

WriteTake ==
  /\ Running /\ pc = "take"
  /\ tmp' = con.tbuf
  /\ pc' = "drop"
  /\ UNCHANGED <<con, byte, inWrite>>

WriteDrop ==
  /\ Running /\ pc = "drop" /\ tmp - 2 >= MinTbuf
  /\ con' = [con EXCEPT !.tbuf = tmp - 2]
  /\ pc' = "write" /\ tmp' = 0
  /\ UNCHANGED <<byte, inWrite>>

(* execute prints that there are too many processes: without the loop.     *)
Printf ==
  /\ Running /\ pc = "user"
  /\ pc' = "write"
  /\ UNCHANGED <<con, byte, tmp, inWrite>>

(* The running process executes a program; it halts, or Ctrl-C halts it,   *)
(* or an exception prints a line and halts it, and its caller or a new     *)
(* shell runs.  head->screen is changed by createPCB only.                 *)
Execute ==
  /\ Running /\ pc = "user"
  /\ screen' = indicator
  /\ UNCHANGED <<con, shown, pc, want, got, byte, tmp, column>>

Leave ==
  /\ screen' \in {screen, indicator}
  /\ pc' = "user" /\ want' = 0 /\ got' = <<>> /\ byte' = Output /\ tmp' = 0 /\ column' = 0
  /\ UNCHANGED shown

Halt == Running /\ Leave /\ UNCHANGED con

Fault ==
  /\ Running /\ pc = "user" /\ Leave
  /\ con' = NewLine(PutChar(con, Output))

Read  == ReadSeen \/ ReadCopy \/ ReadReturn
Write == \/ WritePass \/ WriteLine \/ WriteDraw \/ WriteScroll \/ WriteBlank
         \/ WriteWrap \/ WriteCheck \/ WritePut \/ WriteLoad \/ WriteInc
         \/ WriteBack \/ WriteMove \/ WriteRefused
         \/ WriteStep \/ WriteTake \/ WriteDrop \/ WriteReturn
Key   == \/ KeyChar \/ KeyBackspace \/ KeyEnter \/ CtrlL
         \/ \E n \in AltKeys : AltFirst(n) \/ AltAgain(n)

Next == Key \/ ReadStart \/ Read \/ WriteStart \/ Write
        \/ Printf \/ Execute \/ Halt \/ Fault

Spec == Init /\ [][Next]_vars

(* A process that can go on in the kernel does: nothing else runs there.   *)
FairSpec == Spec /\ WF_vars(Read \/ Write)
-----------------------------------------------------------------------------
(* Although a key can get between a test of tbuf and its use in the putc  *)
(* of a program (lib.c:304-306), no store is behind tbuffer and the count  *)
(* passes the last element by at most one; and the line of a read never    *)
(* has a negative length.  Outside a read tbuf can be -1 or -2: a program  *)
(* that prints a backspace after a read was killed, and a Backspace key    *)
(* between its test and its tbuf -= 2 (lib.c:269).  What is printed or     *)
(* typed then goes before tbuffer, until the next read sets tbuf to 0.     *)
BufferInBounds ==
  /\ Running => con.tbuf <= BUF + 1
  /\ pc = "put" => con.tbuf <= BUF
  /\ pc \in {"spin", "seen"} => con.tbuf >= 0

(* While a line is typed, the cursor moves with the line: by as many cells *)
(* as the line gets longer or shorter, through wraps and backspaces, or    *)
(* a row less when the screen scrolls, when the whole line fits in two     *)
(* rows (lib.c:256-301); Ctrl-L puts it in the corner.  A key whose cell   *)
(* is before the first one, where nothing is mapped, ends the run instead. *)
(* A line that begins below the screen, where a program killed inside the  *)
(* scroll leaves the cursor, is not covered: its first character goes to   *)
(* a row that is not shown, and the next to the first row.                 *)
Typing  == Running /\ pc = "spin" /\ con.tflag = 1
Lead(c) == Pos(c) - c.tbuf
Follows ==
  \/ Lead(con') = Lead(con)
  \/ Lead(con') = Lead(con) - Cols /\ Pos(con) = Rows * Cols - 1
  \/ Pos(con') = 0 /\ con'.tbuf = con.tbuf
EchoInPlace ==
  [][Typing /\ Typing' /\ 0 <= column /\ column + BUF < 2 * Cols => Follows]_vars

(* A read whose line has ended returns, whatever terminal is shown by then *)
(* (terminal.c:19-21): the flag is not saved with a terminal.              *)
ReadEnds == (pc = "spin" /\ con.tflag = 0) ~> (pc # "spin" \/ ~Running)
-----------------------------------------------------------------------------
(* A claim of the documents that the code does not meet.                   *)

(* "three independent terminals with their own video memory and keyboard   *)
(* buffers" (README.md:14), "Switching terminals created extra             *)
(* characters/wrong buffer [...] fixing" (buglog.txt:27): a process reads  *)
(* what was typed at its own terminal.                                     *)
TypedHere == pc = "ret" => \A i \in 1 .. Len(got) : got[i][1] = screen
=============================================================================
