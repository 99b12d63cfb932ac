------------------------------ MODULE Programs ------------------------------
(***************************************************************************)
(* grep (syscalls/ece391grep.c): the files of the directory are read into  *)
(* a buffer of one size and searched line by line; what is left of a line  *)
(* at the end of the buffer is moved to its front.                         *)
(***************************************************************************)
EXTENDS Library

CONSTANTS GrepBuf,   \* BUFSIZE (1024)
          MaxFile    \* BOUND: bytes of a file
ASSUME GrepAssumption == GrepBuf \in Nat \ {0} /\ MaxFile \in Nat

NL == 10
From(s, i) == SubSeq(s, i + 1, Len(s))
SearchesIn(s, data, start, end) ==
  \E check \in start .. end - 1 :
    Dec(s, 0) = Dec(data, check) /\ ece391_strncmp(From(data, check), s, strlen(s)) = 0

(* The end of the line: the loop stops at last without looking there, the  *)
(* condition behind it looks.                                              *)
LineEnd(data, start, last) ==
  CHOOSE e \in start .. last : /\ e = last \/ Dec(data, e) = NL
                               /\ \A i \in start .. e - 1 : Dec(data, i) # NL

(* q: pos bytes of the file are read, the last of them, with those kept,   *)
(* are in data up to last; cnt is what the last read gave, start where the *)
(* next line starts: at 0 the outer loop is at its read.                   *)
Read(file, q) ==
  LET left == Len(file) - q.pos
      cnt  == IF left < GrepBuf - q.last THEN left ELSE GrepBuf - q.last
      full == SubSeq(q.data, 1, q.last) \o SubSeq(file, q.pos + 1, q.pos + cnt)
              \o SubSeq(q.data, q.last + cnt + 1, GrepBuf + 1)
  IN  [pos |-> q.pos + cnt, data |-> full, last |-> q.last + cnt, cnt |-> cnt,
       start |-> 0, out |-> q.out, done |-> FALSE]

(* A turn of the inner loop: the rest of a line is kept, or a line is      *)
(* searched; the loops end with start at 0, both when nothing was read.    *)
KeptWhole(last, start) == last
Kept(last, start) == last - start
Line(s, q) ==
  LET end  == LineEnd(q.data, q.start, q.last)
      cut  == [q.data EXCEPT ![end + 1] = NUL]
      text == SubSeq(cut, q.start + 1, q.start + strlen(From(cut, q.start)))
      over == end + 1 >= q.last
  IN  IF Dec(q.data, end) # NL /\ q.cnt # 0 /\ q.start # 0
      THEN [pos |-> q.pos, data |-> strcpy(cut, From(cut, q.start)), last |-> Kept(q.last, q.start),
            cnt |-> q.cnt, start |-> 0, out |-> q.out, done |-> FALSE]
      ELSE [pos |-> q.pos, data |-> cut, last |-> IF over THEN 0 ELSE q.last, cnt |-> q.cnt,
            start |-> IF over THEN 0 ELSE end + 1,
            out |-> IF SearchesIn(s, cut, q.start, end) THEN Append(q.out, text) ELSE q.out,
            done |-> over /\ q.cnt = 0]
GrepTurn(s, file, q) ==
  IF q.done THEN q ELSE Line(s, IF q.start = 0 THEN Read(file, q) ELSE q)

(* data is not initialised: it holds bytes g.  Two turns a byte are enough.*)
do_one_file(s, file, g) ==
  LET f[k \in 0 .. 2 * Len(file) + 1] ==
        IF k = 0 THEN [pos |-> 0, data |-> [i \in 1 .. GrepBuf + 1 |-> g], last |-> 0, cnt |-> 0,
                       start |-> 0, out |-> <<>>, done |-> FALSE]
        ELSE GrepTurn(s, file, f[k - 1])
  IN  f[2 * Len(file) + 1].out

(* An entry of the directory that cannot be read, and a file that cannot   *)
(* be opened, read or closed, ends main().  A file is read or it is not:   *)
(* the kernel refuses the first read of a file or none.                    *)
Dot == 46
Fails(entry) == entry.fails = "entry" \/ (entry.name[1] # Dot /\ entry.fails # "none")
Left(dir, k) == \E j \in 1 .. k - 1 : Fails(dir[j])

(* Names that begin with "." are left out.                                 *)
Each(s, entry, g) ==
  IF entry.name[1] = Dot \/ entry.fails \in {"entry", "open", "read"} THEN <<>>
  ELSE LET found == do_one_file(s, entry.file, g) IN [i \in 1 .. Len(found) |-> <<entry.name, found[i]>>]

(* main(): no argument, exit 3; no descriptor for the directory, exit 2.   *)
grep(s, opened, dir, g) ==
  IF strlen(s) = 0 THEN [exit |-> 3, out |-> <<>>]
  ELSE IF ~opened THEN [exit |-> 2, out |-> <<>>]
  ELSE [exit |-> IF Left(dir, Len(dir) + 1) THEN 3 ELSE 0,
        out  |-> Flat([k \in 1 .. Len(dir) |->
                         IF Left(dir, k) THEN <<>> ELSE Each(s, dir[k], g)])]
-----------------------------------------------------------------------------
(* The lines of a file with the text t in them: a line ends at a newline   *)
(* or the end of the file, and begins behind the newline before.           *)
Contains(line, t) == \E i \in 0 .. Len(line) - Len(t) : \A j \in 1 .. Len(t) : line[i + j] = t[j]
LineAt(file, e) ==
  LET b == CHOOSE b \in 0 .. e - 1 : (b = 0 \/ file[b] = NL) /\ \A i \in b + 1 .. e - 1 : file[i] # NL
  IN  SubSeq(file, b + 1, e - 1)
Found(file, t) ==
  Flat([e \in 1 .. Len(file) + 1 |->
          IF (e = Len(file) + 1 \/ file[e] = NL) /\ Contains(LineAt(file, e), t)
          THEN <<LineAt(file, e)>> ELSE <<>>])
ShortLines(file) ==
  \A b \in 0 .. Len(file) - GrepBuf - 1 : \E i \in 1 .. GrepBuf + 1 : file[b + i] = NL

(* grep prints just the lines with the text, whole and in order, wherever  *)
(* the reads cut them, when no line is longer than the buffer; unless the  *)
(* byte behind the buffer, which it looks at before anybody wrote it, is a *)
(* newline and the file does not fit the buffer.  A failure ends it and    *)
(* its exit status says so (ece391grep.c:9-97).                            *)
Failures == {"none", "directory", "entry", "open", "read", "close"}
Contents == UNION {[1 .. n -> {97, 98, NL}] : n \in 0 .. MaxFile}
GrepInputs == [kind : {"file"}, file : Contents, t : {<<>>, <<97>>, <<97, 98>>}, g : {NL, 7},
               fails : Failures]
GrepRight ==
  input.kind = "file" =>
    LET file  == input.file
        right == Found(file, input.t)
        fails == input.fails
        dir   == <<[name |-> <<Dot>>, file |-> <<97>>, fails |-> "none"],
                   [name |-> <<100>>, file |-> <<>>, fails |-> fails],
                   [name |-> <<99>>, file |-> file, fails |-> "none"]>>
    IN  /\ ShortLines(file)
        /\ input.g # NL \/ Len(file) <= GrepBuf
        => grep(CString(input.t), fails # "directory", dir, input.g) =
             IF input.t = <<>> THEN [exit |-> 3, out |-> <<>>]
             ELSE IF fails = "none"
             THEN [exit |-> 0, out |-> [i \in 1 .. Len(right) |-> <<<<99>>, right[i]>>]]
             ELSE [exit |-> IF fails = "directory" THEN 2 ELSE 3, out |-> <<>>]
=============================================================================
