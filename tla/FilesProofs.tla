---------------------------- MODULE FilesProofs -----------------------------
(***************************************************************************)
(* Proofs about FileTable and SysErr, for every image, table length,       *)
(* number of terminals and depth of programs: shells keep their table,     *)
(* every error test passes on a terminal whose shell started clean, and    *)
(* the descriptors implement FileStreams.                                  *)
(*                                                                         *)
(* ShellTableKept is not inductive: execute runs initFOTP on the table,    *)
(* which must leave that of a shell alone (StdStart), a first shell that   *)
(* halts is replaced by one with the same table (BasesAreShells), and a    *)
(* read must find an inode that exists (TablesGood).  These and CleanStart *)
(* form Inv.                                                               *)
(*                                                                         *)
(* TestsPass needs to know which descriptors err_open_lots holds after     *)
(* each of its calls (Holds), that the table is the one the tester was     *)
(* started with anywhere else, and what the table of a program run from    *)
(* such a shell is (CleanStart).  The refinement needs that no position is *)
(* past the end of its file, in the table and in every PCB (TablesFine),   *)
(* and that a shell finds the table it had at the call (ShellTableKept).   *)
(***************************************************************************)
EXTENDS SysErr, TLAPS, WellFoundedInduction, SequenceTheorems, FiniteSetTheorems

(* FileTable.                                                              *)
GoodTable(t) == t \in Tables /\ \A i \in Fds : t[i].fotp = "file" => t[i].inode \in DOMAIN Inodes

TablesGood == GoodTable(fd) /\ \A k \in 1 .. Len(chain) : GoodTable(chain[k].fd)
BasesAreShells ==
  /\ chain[1].base
  /\ \A k \in 1 .. Len(chain) : chain[k].base => chain[k].prog = Shell
StdStart == \A k \in 1 .. Len(chain) : initFOTP(chain[k].fd) = chain[k].fd
CleanStart == \A k \in 1 .. Len(chain) : FromCleanShell(chain, k) => OnlyStd(chain[k].fd)

Inv == TypeOK /\ TablesGood /\ BasesAreShells /\ StdStart /\ ShellTableKept /\ CleanStart
-----------------------------------------------------------------------------
LEMMA TableFacts ==
  /\ NumFds \in Nat /\ NumFds >= 3
  /\ Shell \in Quiet /\ Shell \in STRING /\ "" \in STRING
  /\ OpenNames \cup RunNames \subseteq STRING /\ Args \subseteq STRING
  /\ Counts \subseteq Int
BY TableAssumption, Zenon

LEMMA ImageFacts ==
  /\ BlockSize \in Nat \ {0} /\ Huge \in Nat
  /\ \A n \in DOMAIN Inodes : Inodes[n].length \in 0 .. Huge
BY ImageAssumption, Zenon

LEMMA FdFacts == 0 \in Fds /\ 1 \in Fds /\ \A i \in 2 .. NumFds - 1 : i \in Fds
<1>1. NumFds \in Nat /\ NumFds >= 3
  BY TableFacts
<1> QED BY <1>1, SMT DEF Fds

LEMMA NoFilesGood == GoodTable(NoFiles) /\ \A i \in Fds : NoFiles[i].flags = 0
BY SMT DEF GoodTable, NoFiles, NoFile, Tables, Files, Kinds

(* initFOTP: the two standard descriptors, nothing else.                   *)
LEMMA InitFOTP ==
  ASSUME NEW t, GoodTable(t)
  PROVE  /\ GoodTable(initFOTP(t))
         /\ initFOTP(t)[0].flags = 1 /\ initFOTP(t)[1].flags = 1
         /\ \A i \in Fds : i \notin {0, 1} => initFOTP(t)[i] = t[i]
<1>1. t \in [Fds -> Files]
  BY DEF GoodTable, Tables
<1> DEFINE s0 == [fotp |-> "stdin",  inode |-> 0, fposition |-> 0, flags |-> 1]
           s1 == [fotp |-> "stdout", inode |-> 0, fposition |-> 1, flags |-> 1]
<1>2. s0 \in Files /\ s1 \in Files /\ s0.fotp # "file" /\ s1.fotp # "file" /\ s0.flags = 1 /\ s1.flags = 1
  BY SMT DEF Files, Kinds
<1>3. initFOTP(t) = [t EXCEPT ![0] = s0, ![1] = s1]
  BY DEF initFOTP
<1> HIDE DEF s0, s1
<1>4. /\ initFOTP(t) \in [Fds -> Files] /\ initFOTP(t)[0] = s0 /\ initFOTP(t)[1] = s1
      /\ \A i \in Fds : i \notin {0, 1} => initFOTP(t)[i] = t[i]
  BY <1>1, <1>2, <1>3, FdFacts, SMT
<1>5. \A i \in Fds : initFOTP(t)[i].fotp = "file" => initFOTP(t)[i].inode \in DOMAIN Inodes
  BY <1>2, <1>4 DEF GoodTable
<1> QED BY <1>2, <1>4, <1>5 DEF GoodTable, Tables

LEMMA InitTwice == ASSUME NEW t, GoodTable(t) PROVE initFOTP(initFOTP(t)) = initFOTP(t)
<1>1. t \in [Fds -> Files]
  BY DEF GoodTable, Tables
<1> DEFINE s0 == [fotp |-> "stdin",  inode |-> 0, fposition |-> 0, flags |-> 1]
           s1 == [fotp |-> "stdout", inode |-> 0, fposition |-> 1, flags |-> 1]
           u == [t EXCEPT ![0] = s0, ![1] = s1]
<1>2. initFOTP(t) = u /\ initFOTP(u) = [u EXCEPT ![0] = s0, ![1] = s1]
  BY DEF initFOTP
<1>u. u \in [Fds -> Files]
  <2>1. initFOTP(t) \in [Fds -> Files]
    BY InitFOTP DEF GoodTable, Tables
  <2> HIDE DEF u
  <2> QED BY <1>2, <2>1, Zenon
<1> HIDE DEF s0, s1
<1>3. u[0] = s0 /\ u[1] = s1
  BY <1>1, FdFacts
<1> HIDE DEF u
<1>4. [u EXCEPT ![0] = s0, ![1] = s1] = u
  BY <1>u, <1>3, FdFacts
<1> QED BY <1>2, <1>4

LEMMA Single ==
  ASSUME NEW S, NEW x \in S
  PROVE  <<x>> \in Seq(S) /\ Len(<<x>>) = 1 /\ <<x>>[1] = x /\ <<x>> # <<>>
OBVIOUS

LEMMA ReplaceLast ==
  ASSUME NEW S, NEW s \in Seq(S), s # <<>>, NEW x \in S
  PROVE  LET t == [s EXCEPT ![Len(s)] = x] IN
         /\ t \in Seq(S) /\ Len(t) = Len(s) /\ Len(s) \in Nat \ {0} /\ t[Len(s)] = x
         /\ \A k \in 1 .. Len(s) : k # Len(s) => t[k] = s[k]
<1> DEFINE n == Len(s)
           t == [s EXCEPT ![n] = x]
<1>1. n \in Nat \ {0} /\ s \in [1 .. n -> S]
  OBVIOUS
<1> HIDE DEF n
<1>2. n \in 1 .. n
  BY <1>1
<1>3. t \in [1 .. n -> S] /\ t[n] = x /\ \A k \in 1 .. n : k # n => t[k] = s[k]
  BY <1>1, <1>2
<1>4. t \in Seq(S) /\ Len(t) = n
  BY <1>1, <1>3
<1> QED BY <1>1, <1>3, <1>4 DEF n

(* The chain c with the table t: what Inv says of them.                    *)
Kept(c, t) ==
  \A k \in 1 .. Len(c) : c[k].prog = Shell => (IF k = Len(c) THEN t ELSE c[k + 1].fd) = c[k].fd
EachGood(c) == \A k \in 1 .. Len(c) : GoodTable(c[k].fd) /\ initFOTP(c[k].fd) = c[k].fd
Shells(c) == c[1].base /\ \A k \in 1 .. Len(c) : c[k].base => c[k].prog = Shell
Clean(c) == \A k \in 1 .. Len(c) : FromCleanShell(c, k) => OnlyStd(c[k].fd)
ChainOK(c, t) ==
  /\ c \in Seq(Progs) /\ c # <<>> /\ GoodTable(t)
  /\ EachGood(c) /\ Shells(c) /\ Kept(c, t) /\ Clean(c)

LEMMA InvIs == Inv => ChainOK(chain, fd)
BY DEF Inv, TypeOK, TablesGood, BasesAreShells, StdStart, ShellTableKept, After, CleanStart,
       ChainOK, EachGood, Shells, Kept, Clean

LEMMA InvFrom ==
  ASSUME ChainOK(chain, fd), arg \in STRING, ret.val \in Int, wild \in BOOLEAN
  PROVE  Inv
<1>1. TypeOK
  BY DEF TypeOK, ChainOK, GoodTable
<1>2. TablesGood /\ BasesAreShells /\ StdStart /\ ShellTableKept /\ CleanStart
  BY DEF TablesGood, BasesAreShells, StdStart, ShellTableKept, After, CleanStart,
         ChainOK, EachGood, Shells, Kept, Clean
<1> QED BY <1>1, <1>2 DEF Inv

LEMMA InvNext ==
  ASSUME ChainOK(chain', fd'), arg' \in STRING, ret'.val \in Int, wild' \in BOOLEAN
  PROVE  Inv'
<1>1. TypeOK'
  BY DEF TypeOK, ChainOK, GoodTable
<1>2. TablesGood' /\ BasesAreShells' /\ StdStart'
  BY DEF TablesGood, BasesAreShells, StdStart, ChainOK, EachGood, Shells
<1>3. ShellTableKept' /\ CleanStart'
  BY DEF ShellTableKept, After, CleanStart, ChainOK, Kept, Clean
<1> QED BY <1>1, <1>2, <1>3 DEF Inv

LEMMA LenFacts ==
  ASSUME NEW c, NEW t, ChainOK(c, t)
  PROVE  /\ c \in Seq(Progs) /\ Len(c) \in Nat \ {0} /\ Len(c) \in 1 .. Len(c) /\ 1 \in 1 .. Len(c)
         /\ GoodTable(t) /\ GoodTable(initFOTP(t))
<1>1. c \in Seq(Progs) /\ c # <<>> /\ GoodTable(t)
  BY DEF ChainOK
<1>2. Len(c) \in Nat \ {0}
  BY <1>1
<1> QED BY <1>1, <1>2, InitFOTP

(* FromCleanShell looks at the programs up to k only.                      *)
LEMMA FromSame ==
  ASSUME NEW c, NEW d, NEW k \in Nat, FromCleanShell(d, k),
         \A j \in 1 .. k : c[j].base = d[j].base /\ c[j].fd = d[j].fd /\ c[j].prog = d[j].prog
  PROVE  FromCleanShell(c, k)
<1>1. PICK b \in 1 .. k : d[b].base /\ OnlyStd(d[b].fd) /\ \A j \in b .. k - 1 : d[j].prog = Shell
  BY Zenon DEF FromCleanShell
<1>2. \A j \in b .. k - 1 : j \in 1 .. k
  BY <1>1
<1>3. c[b].base /\ OnlyStd(c[b].fd) /\ \A j \in b .. k - 1 : c[j].prog = Shell
  BY <1>1, <1>2, Zenon
<1> QED BY <1>1, <1>3, Zenon DEF FromCleanShell

LEMMA FromBelow ==
  ASSUME NEW c, NEW k \in Nat \ {0}, FromCleanShell(c, k), ~OnlyStd(c[k].fd)
  PROVE  k - 1 \in Nat \ {0} /\ c[k - 1].prog = Shell /\ FromCleanShell(c, k - 1)
<1>1. PICK b \in 1 .. k : c[b].base /\ OnlyStd(c[b].fd) /\ \A j \in b .. k - 1 : c[j].prog = Shell
  BY Zenon DEF FromCleanShell
<1>2. b # k
  BY <1>1, Zenon
<1>3. b \in 1 .. k - 1 /\ k - 1 \in b .. k - 1 /\ k - 1 \in Nat \ {0}
      /\ \A j \in b .. k - 1 - 1 : j \in b .. k - 1
  BY <1>1, <1>2
<1> QED BY <1>1, <1>3, Zenon DEF FromCleanShell

(* execute(), Alt-Fn on a new terminal.                                    *)
LEMMA PushOK ==
  ASSUME NEW c, NEW t, ChainOK(c, t), NEW p \in Progs, p.fd = initFOTP(t), p.base => p.prog = Shell
  PROVE  ChainOK(Append(c, p), initFOTP(t))
<1> DEFINE n == Len(c)
           d == Append(c, p)
           u == initFOTP(t)
<1>0. c \in Seq(Progs) /\ n \in Nat \ {0} /\ n \in 1 .. n /\ 1 \in 1 .. n /\ GoodTable(t) /\ GoodTable(u)
  BY LenFacts, Zenon
<1>1. d \in Seq(Progs) /\ Len(d) = n + 1 /\ d[n + 1] = p /\ \A k \in 1 .. n : d[k] = c[k]
  BY <1>0, AppendProperties
<1>2. EachGood(c) /\ Shells(c) /\ Kept(c, t) /\ Clean(c)
  BY DEF ChainOK
<1>3. initFOTP(u) = u
  BY <1>0, InitTwice
<1> HIDE DEF n, d, u
<1>4. /\ \A k \in 1 .. n + 1 : k = n + 1 \/ k \in 1 .. n
      /\ \A k \in 1 .. n : k # n => k + 1 \in 1 .. n
      /\ \A k \in 1 .. n : k # n + 1 /\ k \in Nat /\ k \in 1 .. n + 1 /\ \A j \in 1 .. k : j \in 1 .. n
      /\ n + 1 - 1 = n
  BY <1>0
<1>5. ASSUME c[n].prog = Shell PROVE u = c[n].fd
  <2>1. t = c[n].fd
    BY <1>0, <1>2, <1>5 DEF Kept, n
  <2> QED BY <1>0, <1>2, <2>1, Zenon DEF EachGood, u, n
<1>6. EachGood(d)
  <2>1. ASSUME NEW k \in 1 .. n + 1 PROVE GoodTable(d[k].fd) /\ initFOTP(d[k].fd) = d[k].fd
    <3>1. CASE k = n + 1
      BY <1>0, <1>1, <1>3, <3>1, Zenon DEF u
    <3>2. CASE k \in 1 .. n
      BY <1>1, <1>2, <3>2, Zenon DEF EachGood, n
    <3> QED BY <1>4, <3>1, <3>2
  <2> QED BY <1>1, <2>1, Zenon DEF EachGood
<1>7. Shells(d)
  <2>1. d[1].base
    BY <1>0, <1>1, <1>2, Zenon DEF Shells
  <2>2. ASSUME NEW k \in 1 .. n + 1, d[k].base PROVE d[k].prog = Shell
    <3>1. CASE k = n + 1
      BY <1>1, <2>2, <3>1, Zenon
    <3>2. CASE k \in 1 .. n
      BY <1>1, <1>2, <2>2, <3>2, Zenon DEF Shells, n
    <3> QED BY <1>4, <3>1, <3>2
  <2> QED BY <1>1, <2>1, <2>2, Zenon DEF Shells
<1>8. Kept(d, u)
  <2>1. ASSUME NEW k \in 1 .. n + 1, d[k].prog = Shell
        PROVE  (IF k = n + 1 THEN u ELSE d[k + 1].fd) = d[k].fd
    <3>1. CASE k = n + 1
      BY <1>1, <3>1, Zenon DEF u
    <3>2. CASE k = n
      <4>1. d[k + 1].fd = u /\ c[n].prog = Shell /\ d[n].fd = c[n].fd
        BY <1>0, <1>1, <2>1, <3>2, Zenon DEF u
      <4> QED BY <1>4, <1>5, <3>2, <4>1, <1>0
    <3>3. CASE k \in 1 .. n /\ k # n
      <4>1. c[k].prog = Shell /\ d[k].fd = c[k].fd /\ d[k + 1].fd = c[k + 1].fd
        BY <1>1, <1>4, <2>1, <3>3, Zenon
      <4>2. c[k + 1].fd = c[k].fd
        BY <1>2, <3>3, <4>1 DEF Kept, n
      <4> QED BY <1>4, <3>3, <4>1, <4>2, Zenon
    <3> QED BY <1>4, <3>1, <3>2, <3>3
  <2> QED BY <1>1, <2>1, Zenon DEF Kept
<1>9. Clean(d)
  <2>1. ASSUME NEW k \in 1 .. n, FromCleanShell(d, k) PROVE OnlyStd(d[k].fd)
    <3>1. k \in Nat /\ \A j \in 1 .. k : c[j] = d[j]
      BY <1>1, <1>4, Zenon
    <3>2. FromCleanShell(c, k)
      BY <2>1, <3>1, FromSame, Zenon
    <3> QED BY <1>1, <1>2, <3>2, Zenon DEF Clean, n
  <2>2. ASSUME FromCleanShell(d, n + 1) PROVE OnlyStd(d[n + 1].fd)
    <3> SUFFICES ASSUME ~OnlyStd(d[n + 1].fd) PROVE FALSE
      OBVIOUS
    <3>1. n + 1 \in Nat \ {0}
      BY <1>0
    <3>2. d[n].prog = Shell /\ FromCleanShell(d, n)
      <4> DEFINE k == n + 1
      <4>1. k \in Nat \ {0} /\ k - 1 = n
        BY <1>0, <1>4, <3>1
      <4>3. FromCleanShell(d, k) /\ ~OnlyStd(d[k].fd)
        BY <2>2, Zenon
      <4> HIDE DEF k
      <4>2. d[k - 1].prog = Shell /\ FromCleanShell(d, k - 1)
        BY <4>1, <4>3, FromBelow, Zenon
      <4> QED BY <4>1, <4>2, Zenon
    <3>3. OnlyStd(d[n].fd) /\ d[n] = c[n]
      BY <1>0, <1>1, <2>1, <3>2, Zenon
    <3>4. d[n + 1].fd = u /\ u = c[n].fd
      BY <1>1, <1>5, <3>2, <3>3, Zenon DEF u
    <3> QED BY <3>3, <3>4, Zenon
  <2> QED BY <1>1, <1>4, <2>1, <2>2, Zenon DEF Clean
<1>10. d # <<>>
  BY <1>0, <1>1
<1> QED BY <1>0, <1>1, <1>6, <1>7, <1>8, <1>9, <1>10, Zenon DEF ChainOK, d, u

(* halt() of a first shell: its successor has the same table.              *)
LEMMA ReplaceOK ==
  ASSUME NEW c, NEW t, ChainOK(c, t), c[Len(c)].base,
         NEW p \in Progs, p.fd = initFOTP(t), p.base = TRUE, p.prog = Shell
  PROVE  ChainOK([c EXCEPT ![Len(c)] = p], initFOTP(t))
<1> DEFINE n == Len(c)
           d == [c EXCEPT ![n] = p]
           u == initFOTP(t)
<1>0. c \in Seq(Progs) /\ c # <<>> /\ n \in Nat \ {0} /\ n \in 1 .. n /\ 1 \in 1 .. n /\ GoodTable(t) /\ GoodTable(u)
  BY LenFacts, Zenon DEF ChainOK
<1>1. d \in Seq(Progs) /\ Len(d) = n /\ d[n] = p /\ \A k \in 1 .. n : k # n => d[k] = c[k]
  BY <1>0, ReplaceLast
<1>2. EachGood(c) /\ Shells(c) /\ Kept(c, t) /\ Clean(c)
  BY DEF ChainOK
<1> HIDE DEF n, d, u
<1>3. c[n].prog = Shell /\ c[n].base
  BY <1>0, <1>2, Zenon DEF Shells, n
<1>4. u = c[n].fd /\ t = u
  <2>1. t = c[n].fd
    BY <1>0, <1>2, <1>3 DEF Kept, n
  <2> QED BY <1>0, <1>2, <2>1, Zenon DEF EachGood, u, n
<1>5. \A k \in 1 .. n : d[k].fd = c[k].fd /\ d[k].prog = c[k].prog /\ c[k].base = d[k].base
  <2>1. p.base = c[n].base
    <3>1. c[n] \in Progs
      BY <1>0, ElementOfSeq DEF n
    <3>2. c[n].base \in BOOLEAN
      BY <3>1 DEF Progs
    <3> QED BY <1>3, <3>2
  <2> QED BY <1>1, <1>3, <1>4, <2>1, Zenon DEF u
<1>6. EachGood(d) /\ Shells(d)
  BY <1>0, <1>1, <1>2, <1>5, Zenon DEF EachGood, Shells, n
<1>7. Kept(d, u)
  <2>1. \A k \in 1 .. n : k # n => k + 1 \in 1 .. n
    BY <1>0
  <2>2. \A k \in 1 .. n : d[k].prog = Shell => (IF k = n THEN u ELSE d[k + 1].fd) = d[k].fd
    BY <1>2, <1>4, <1>5, <2>1, Zenon DEF Kept, n
  <2> QED BY <1>1, <2>2, Zenon DEF Kept
<1>8. Clean(d)
  <2>1. ASSUME NEW k \in 1 .. n, FromCleanShell(d, k) PROVE OnlyStd(d[k].fd)
    <3>1. k \in Nat /\ \A j \in 1 .. k : j \in 1 .. n
      BY <1>0
    <3>2. FromCleanShell(c, k)
      BY <1>5, <2>1, <3>1, FromSame, Zenon
    <3> QED BY <1>2, <1>5, <3>2, Zenon DEF Clean, n
  <2> QED BY <1>1, <2>1, Zenon DEF Clean
<1>9. d # <<>>
  BY <1>0, <1>1
<1> QED BY <1>0, <1>1, <1>6, <1>7, <1>8, <1>9, Zenon DEF ChainOK, d, u, n

(* halt() of any other program.                                            *)
LEMMA PopOK ==
  ASSUME NEW c, NEW t, ChainOK(c, t), Len(c) # 1
  PROVE  ChainOK(SubSeq(c, 1, Len(c) - 1), c[Len(c) - 1].fd)
<1> DEFINE n == Len(c)
           d == SubSeq(c, 1, n - 1)
           m == n - 1
<1>0. c \in Seq(Progs) /\ n \in Nat \ {0} /\ n # 1
  BY LenFacts, Zenon
<1>1. m \in Nat \ {0} /\ n = m + 1 /\ m \in 1 .. n /\ m \in 1 .. m /\ 1 \in 1 .. m /\ \A k \in 1 .. m : k \in 1 .. n /\ k # n
  <2> HIDE DEF n
  <2> QED BY <1>0
<1>2. d \in Seq(Progs) /\ Len(d) = m /\ \A k \in 1 .. m : d[k] = c[k]
  <2>1. \A k \in 1 .. m : SubSeq(c, 1, m)[k] = c[k]
    <3> HIDE DEF m
    <3> QED BY <1>0, <1>1
  <2>2. SubSeq(c, 1, m) \in Seq(Progs) /\ Len(SubSeq(c, 1, m)) = m
    <3> HIDE DEF m
    <3> QED BY <1>0, <1>1
  <2> QED BY <2>1, <2>2
<1>3. EachGood(c) /\ Shells(c) /\ Kept(c, t) /\ Clean(c)
  BY DEF ChainOK
<1> HIDE DEF m, d, n
<1>4. EachGood(d) /\ Shells(d) /\ GoodTable(c[m].fd)
  BY <1>1, <1>2, <1>3, Zenon DEF EachGood, Shells, n
<1>5. Kept(d, c[m].fd)
  <2>1. \A k \in 1 .. m : k # m => k + 1 \in 1 .. m
    BY <1>1
  <2>2. \A k \in 1 .. m : d[k].prog = Shell => (IF k = m THEN c[m].fd ELSE d[k + 1].fd) = d[k].fd
    BY <1>1, <1>2, <1>3, <2>1, Zenon DEF Kept, n
  <2> QED BY <1>2, <2>2, Zenon DEF Kept
<1>6. Clean(d)
  <2>1. ASSUME NEW k \in 1 .. m, FromCleanShell(d, k) PROVE OnlyStd(d[k].fd)
    <3>1. k \in Nat /\ \A j \in 1 .. k : j \in 1 .. m
      BY <1>1
    <3>2. FromCleanShell(c, k)
      BY <1>2, <2>1, <3>1, FromSame, Zenon
    <3> QED BY <1>1, <1>2, <1>3, <3>2, Zenon DEF Clean, n
  <2> QED BY <1>2, <2>1, Zenon DEF Clean
<1>7. d # <<>>
  BY <1>1, <1>2
<1> QED BY <1>2, <1>4, <1>5, <1>6, <1>7, Zenon DEF ChainOK, d, m, n

(* A call that leaves the chain alone.                                     *)
LEMMA SameOK ==
  ASSUME NEW c, NEW t, ChainOK(c, t), NEW u, GoodTable(u), u = t \/ c[Len(c)].prog # Shell
  PROVE  ChainOK(c, u)
BY DEF ChainOK, Kept

LEMMA ValueFacts == Value(0).val \in Int /\ Value(-1).val \in Int
BY DEF Value

LEMMA InitInv == Init => Inv
<1> SUFFICES ASSUME Init PROVE Inv
  OBVIOUS
<1> DEFINE c == [prog |-> Shell, fd |-> initFOTP(NoFiles), base |-> TRUE]
           t == initFOTP(NoFiles)
<1>1. GoodTable(t) /\ initFOTP(t) = t
  BY NoFilesGood, InitFOTP, InitTwice
<1>2. OnlyStd(t)
  BY NoFilesGood, InitFOTP DEF OnlyStd
<1>3. chain = <<c>> /\ arg = "" /\ ret = Value(0) /\ fd = t /\ wild = FALSE
  BY DEF Init
<1>4. c \in Progs
  <2>1. Shell \in STRING /\ t \in Tables
    BY <1>1, TableFacts DEF GoodTable
  <2> QED BY <2>1, Zenon DEF Progs
<1>5. c.prog = Shell /\ c.base /\ c.fd = t
  OBVIOUS
<1> HIDE DEF c, t
<1>6. Len(chain) = 1 /\ chain[1] = c /\ chain \in Seq(Progs) /\ chain # <<>>
  BY <1>3, <1>4, Single, Zenon
<1>7. \A k \in 1 .. Len(chain) : k = 1
  BY <1>6
<1>8. ChainOK(chain, fd)
  <2>1. EachGood(chain) /\ Shells(chain) /\ Kept(chain, fd) /\ Clean(chain)
    BY <1>1, <1>2, <1>3, <1>5, <1>6, <1>7, Zenon DEF EachGood, Shells, Kept, Clean
  <2> QED BY <1>1, <1>3, <1>6, <2>1, Zenon DEF ChainOK
<1>9. arg \in STRING /\ ret.val \in Int /\ wild \in BOOLEAN
  <2>1. ret.val \in Int
    BY <1>3, ValueFacts, Zenon
  <2> QED BY <1>3, <2>1, TableFacts, Zenon
<1> QED BY <1>8, <1>9, InvFrom
-----------------------------------------------------------------------------
(* The calls that leave the chain alone: what they must keep of the table. *)
LEMMA SameChainInv ==
  ASSUME Inv, chain' = chain, arg' = arg, wild' = wild, GoodTable(fd'), ret'.val \in Int,
         fd' = fd \/ Running.prog # Shell
  PROVE  Inv'
<1>1. ChainOK(chain, fd)
  BY InvIs
<1>2. ChainOK(chain', fd')
  BY <1>1, SameOK, Zenon DEF Running
<1>3. arg' \in STRING /\ wild' \in BOOLEAN
  BY DEF Inv, TypeOK
<1> QED BY <1>2, <1>3, InvNext

(* A program as createPCB makes it.                                        *)
LEMMA StartedFacts ==
  ASSUME GoodTable(fd), NEW p \in STRING, NEW b \in BOOLEAN
  PROVE  LET c == Started(p, b) IN c \in Progs /\ c.fd = initFOTP(fd) /\ c.prog = p /\ c.base = b
<1>1. initFOTP(fd) \in Tables
  BY InitFOTP, Zenon DEF GoodTable
<1>2. Started(p, b) = [prog |-> p, fd |-> initFOTP(fd), base |-> b]
  BY DEF Started
<1>3. Started(p, b) \in Progs
  BY <1>1, <1>2, SMT DEF Progs
<1> QED BY <1>2, <1>3

LEMMA InvFacts == ASSUME Inv PROVE GoodTable(fd) /\ arg \in STRING /\ wild \in BOOLEAN /\ ChainOK(chain, fd)
BY InvIs DEF Inv, TypeOK, TablesGood

LEMMA ExecuteInv ==
  ASSUME Inv, NEW name \in RunNames, NEW a \in Args, Execute(name, a)
  PROVE  Inv'
<1>1. GoodTable(fd) /\ name \in STRING /\ a \in STRING /\ FALSE \in BOOLEAN /\ wild \in BOOLEAN /\ ChainOK(chain, fd)
  BY TableFacts, InvFacts, Zenon
<1> DEFINE c == Started(name, FALSE)
<1>2. c \in Progs /\ c.fd = initFOTP(fd) /\ ~c.base
  BY <1>1, StartedFacts, Zenon
<1>3. chain' = Append(chain, c) /\ fd' = initFOTP(fd) /\ arg' = a /\ ret' = Value(0) /\ wild' = wild
  BY DEF Execute, ParseArg
<1> HIDE DEF c
<1>4. ChainOK(chain', fd')
  BY <1>1, <1>2, <1>3, PushOK, Zenon
<1>5. ret'.val \in Int
  BY <1>3, ValueFacts, Zenon
<1> QED BY <1>1, <1>3, <1>4, <1>5, InvNext, Zenon

LEMMA AltFirstInv == ASSUME Inv, AltFirst PROVE Inv'
<1>1. GoodTable(fd) /\ Shell \in STRING /\ "" \in STRING /\ TRUE \in BOOLEAN /\ wild \in BOOLEAN /\ ChainOK(chain, fd)
  BY TableFacts, InvFacts, Zenon
<1> DEFINE c == Started(Shell, TRUE)
<1>2. c \in Progs /\ c.fd = initFOTP(fd) /\ c.prog = Shell
  BY <1>1, StartedFacts, Zenon
<1>3. chain' = Append(chain, c) /\ fd' = initFOTP(fd) /\ arg' = "" /\ ret' = Value(0) /\ wild' = wild
  BY DEF AltFirst, ParseArg
<1> HIDE DEF c
<1>4. ChainOK(chain', fd')
  BY <1>1, <1>2, <1>3, PushOK, Zenon
<1>5. ret'.val \in Int
  BY <1>3, ValueFacts, Zenon
<1> QED BY <1>1, <1>3, <1>4, <1>5, InvNext, Zenon

(* halt() of the first shell of a terminal.                                *)
LEMMA HaltBaseInv == ASSUME Inv, HaltBase PROVE Inv'
<1>1. GoodTable(fd) /\ Shell \in STRING /\ "" \in STRING /\ TRUE \in BOOLEAN /\ wild \in BOOLEAN /\ ChainOK(chain, fd)
  BY TableFacts, InvFacts, Zenon
<1> DEFINE c == Started(Shell, TRUE)
<1>2. c \in Progs /\ c.fd = initFOTP(fd) /\ c.prog = Shell /\ c.base = TRUE
  BY <1>1, StartedFacts, Zenon
<1>3. /\ chain' = [chain EXCEPT ![Len(chain)] = c] /\ fd' = initFOTP(fd) /\ arg' = "" /\ ret' = Value(0)
      /\ wild' = wild /\ chain[Len(chain)].base
  BY DEF HaltBase, ParseArg, Running
<1> HIDE DEF c
<1>4. ChainOK(chain', fd')
  BY <1>1, <1>2, <1>3, ReplaceOK, Zenon
<1>5. ret'.val \in Int
  BY <1>3, ValueFacts, Zenon
<1> QED BY <1>1, <1>3, <1>4, <1>5, InvNext, Zenon

(* halt() of a program that is not a first shell.                          *)
LEMMA HaltInv == ASSUME Inv, Halt PROVE Inv'
<1>1. wild \in BOOLEAN /\ arg \in STRING /\ ChainOK(chain, fd)
  BY InvFacts
<1>2. Len(chain) # 1
  BY Zenon DEF Halt, Inv, BasesAreShells, Running
<1>3. /\ chain' = SubSeq(chain, 1, Len(chain) - 1) /\ fd' = chain[Len(chain) - 1].fd
      /\ arg' = arg /\ ret' = Value(0) /\ wild' = wild
  BY DEF Halt, FdOnHalt, Callers
<1>4. ChainOK(chain', fd')
  BY <1>1, <1>2, <1>3, PopOK, Zenon
<1>5. ret'.val \in Int
  BY <1>3, ValueFacts, Zenon
<1> QED BY <1>1, <1>3, <1>4, <1>5, InvNext, Zenon

(* execute() that fails: only the argument changes.                        *)
LEMMA FailsInv ==
  ASSUME Inv, NEW name \in RunNames, NEW a \in Args, ExecuteFails(name, a)
  PROVE  Inv'
<1>1. wild \in BOOLEAN /\ a \in STRING /\ ChainOK(chain, fd)
  BY TableFacts, InvFacts, Zenon
<1>2. fd' = fd /\ arg' = a /\ chain' = chain /\ wild' = wild
  BY DEF ExecuteFails, ParseArg
<1>3. ret'.val \in Int
  <2>1. ret' = Value(0) \/ ret' = Value(-1)
    BY Zenon DEF ExecuteFails
  <2> QED BY <2>1, ValueFacts, Zenon
<1>4. ChainOK(chain', fd')
  BY <1>1, <1>2, Zenon
<1> QED BY <1>1, <1>2, <1>3, <1>4, InvNext, Zenon
-----------------------------------------------------------------------------
(* One descriptor replaced.                                                *)
LEMMA UpdateFile ==
  ASSUME GoodTable(fd), NEW i \in Fds, NEW f \in Files, f.fotp = "file" => f.inode \in DOMAIN Inodes
  PROVE  GoodTable([fd EXCEPT ![i] = f])
BY DEF GoodTable, Tables

(* What read_data returns is a number.                                     *)
LEMMA ReadFacts ==
  ASSUME NEW inode \in DOMAIN Inodes, NEW off \in Int, NEW n \in Int
  PROVE  read_data(inode, off, n).val \in Int
<1>1. Inodes[inode].length \in Int
  BY ImageFacts
<1>2. BytesRead(inode, off, n) \in Int
  BY <1>1 DEF BytesRead
<1> DEFINE d == [k \in 1 .. BytesRead(inode, off, n) |-> Byte(inode, off + k - 1)]
<1>3. \/ read_data(inode, off, n) = [val |-> -1, data |-> <<>>]
      \/ read_data(inode, off, n) = [val |-> 0, data |-> <<>>]
      \/ read_data(inode, off, n) = [val |-> BytesRead(inode, off, n), data |-> d]
  BY Zenon DEF read_data
<1> HIDE DEF d
<1> QED BY <1>2, <1>3

LEMMA EntryFacts ==
  ASSUME NEW i \in 1 .. Len(Dentries)
  PROVE  Entry(i).ftype \in {0, 1, 2} /\ Entry(i).inode \in DOMAIN Inodes /\ Entry(i).inode \in Nat
<1> DEFINE D == [name : STRING, ftype : {0, 1, 2}, inode : DOMAIN Inodes]
<1>1. Dentries[i].ftype \in {0, 1, 2} /\ Dentries[i].inode \in DOMAIN Inodes
  <2>1. Dentries \in Seq(D)
    BY ImageAssumption, Zenon
  <2>2. Dentries[i] \in D
    <3> HIDE DEF D
    <3> QED BY <2>1
  <2> QED BY <2>2, Zenon
<1>2. Dentries[i].inode \in 0 .. 255
  <2>1. NInodes \in 0 .. 256 /\ DOMAIN Inodes = 0 .. NInodes - 1
    BY ImageAssumption, Zenon
  <2>2. \A x \in 0 .. NInodes - 1 : x \in 0 .. 255
    BY <2>1
  <2>3. \A x \in DOMAIN Inodes : x \in 0 .. 255
    BY <2>1, <2>2
  <2>4. Dentries[i].inode \in DOMAIN Inodes
    BY <1>1, Zenon
  <2> QED BY <2>3, <2>4, Zenon
<1>3. Dentries[i].ftype % 256 = Dentries[i].ftype /\ Dentries[i].inode % 256 = Dentries[i].inode
  <2>1. \A x \in 0 .. 255 : x % 256 = x
    OBVIOUS
  <2>2. Dentries[i].ftype \in 0 .. 255
    BY <1>1
  <2> QED BY <1>2, <2>1, <2>2, Zenon
<1>4. Entry(i).ftype = Dentries[i].ftype /\ Entry(i).inode = Dentries[i].inode
  BY <1>3 DEF Entry
<1>5. Dentries[i].inode \in Nat
  <2>1. \A x \in 0 .. 255 : x \in Nat
    OBVIOUS
  <2> QED BY <1>2, <2>1, Zenon
<1> QED BY <1>1, <1>4, <1>5, Zenon

(* A set of numbers has a least element.                                   *)
LEMMA Least ==
  ASSUME NEW T \in SUBSET Nat, T # {}
  PROVE  \E i \in T : \A j \in T : i <= j
<1> DEFINE R == OpToRel(<, Nat)
<1>1. IsWellFoundedOn(R, Nat)
  BY NatLessThanWellFounded
<1>2. \A x, y \in Nat : <<y, x>> \notin R => x <= y
  BY SMT DEF OpToRel
<1> HIDE DEF R
<1>3. \E x \in T : \A y \in T : ~(<<y, x>> \in R)
  BY <1>1, WFMin, Zenon
<1> QED BY <1>2, <1>3

LEMMA FirstFreeFacts ==
  ASSUME NEW t, FreeIn(t) # {}
  PROVE  FirstFree(t) \in 2 .. NumFds - 1
<1>1. FreeIn(t) \in SUBSET Nat /\ FreeIn(t) \subseteq 2 .. NumFds - 1
  <2>1. NumFds \in Nat
    BY TableFacts
  <2> QED BY <2>1, SMT DEF FreeIn
<1>2. \E i \in FreeIn(t) : \A j \in FreeIn(t) : i <= j
  BY <1>1, Least
<1>3. FirstFree(t) \in FreeIn(t)
  BY <1>2 DEF FirstFree
<1> QED BY <1>1, <1>3

(* The calls on files.                                                     *)
LEMMA OpenInv ==
  ASSUME Inv, NEW name, Open(name), Running.prog # Shell
  PROVE  Inv'
<1> DEFINE dt == read_dentry_by_name(name)
           i  == FirstFree(fd)
           f  == NewFile(dt, fd[i])
<1>0. GoodTable(fd) /\ chain' = chain /\ arg' = arg /\ wild' = wild
  BY DEF Inv, TablesGood, Open
<1>1. CASE ~dt.found \/ FreeIn(fd) = {}
  <2>1. fd' = fd /\ ret' = Value(-1)
    BY <1>1 DEF Open
  <2> QED BY <1>0, <2>1, ValueFacts, SameChainInv, Zenon
<1>2. CASE ~(~dt.found \/ FreeIn(fd) = {})
  <2>1. fd' = [fd EXCEPT ![i] = f] /\ ret' = Value(i)
    <3>1. fd' = [fd EXCEPT ![i] = NewFile(dt, @)] /\ ret' = Value(i)
      BY <1>2, Zenon DEF Open
    <3> QED BY <3>1
  <2>2. i \in 2 .. NumFds - 1 /\ i \in Fds /\ i \in Int
    <3>1. i \in 2 .. NumFds - 1
      BY <1>2, FirstFreeFacts, Zenon
    <3>2. NumFds \in Nat
      BY TableFacts
    <3> HIDE DEF i
    <3> QED BY <3>1, <3>2, FdFacts
  <2>3. dt.ftype \in {0, 1, 2} /\ dt.inode \in DOMAIN Inodes /\ dt.inode \in Nat
    <3> DEFINE hits == {k \in 1 .. Len(Dentries) : Dentries[k].name = name}
               h == CHOOSE k \in hits : \A j \in hits : k <= j
    <3>1. hits # {} /\ dt = Entry(h)
      <4>1. ~None.found
        BY DEF None
      <4> QED BY <1>2, <4>1, Zenon DEF read_dentry_by_name
    <3>2. hits \in SUBSET Nat /\ hits \subseteq 1 .. Len(Dentries)
      OBVIOUS
    <3>3. \E k \in hits : \A j \in hits : k <= j
      <4> HIDE DEF hits
      <4> QED BY <3>1, <3>2, Least, Zenon
    <3>4. h \in 1 .. Len(Dentries)
      <4> HIDE DEF hits
      <4> QED BY <3>2, <3>3, Zenon
    <3> HIDE DEF h
    <3> QED BY <3>1, <3>4, EntryFacts, Zenon
  <2> HIDE DEF dt, i
  <2>4. f \in Files /\ f.inode \in DOMAIN Inodes
    <3>1. FotpOf(dt.ftype) \in Kinds
      BY <2>3 DEF FotpOf, Kinds
    <3>2. 0 \in DOMAIN Inodes
      <4>1. NInodes \in 0 .. 256 /\ DOMAIN Inodes = 0 .. NInodes - 1
        BY ImageAssumption, Zenon
      <4> QED BY <2>3, <4>1
    <3> DEFINE v == IF dt.ftype = 2 THEN dt.inode ELSE 0
    <3>3. v \in DOMAIN Inodes /\ v \in Nat
      BY <2>3, <3>2
    <3>4. f = [fotp |-> FotpOf(dt.ftype), inode |-> v, fposition |-> 0, flags |-> 1]
      BY DEF NewFile
    <3> HIDE DEF v, f
    <3> QED BY <3>1, <3>3, <3>4 DEF Files
  <2> HIDE DEF f
  <2>5. GoodTable(fd')
    BY <1>0, <2>1, <2>2, <2>4, UpdateFile
  <2>6. ret'.val \in Int
    <3>1. Value(i).val = i
      BY DEF Value
    <3> QED BY <2>1, <2>2, <3>1, Zenon
  <2> QED BY <1>0, <2>5, <2>6, SameChainInv, Zenon
<1> QED BY <1>1, <1>2, Zenon

LEMMA CloseInv ==
  ASSUME Inv, NEW i, Close(i), Running.prog # Shell
  PROVE  Inv'
<1>0. GoodTable(fd) /\ chain' = chain /\ arg' = arg /\ wild' = wild
  BY DEF Inv, TablesGood, Close
<1>1. CASE i \in 2 .. NumFds - 1 /\ fd[i].flags # 0
  <2>1. i \in Fds
    BY <1>1, FdFacts, Zenon
  <2>2. fd' = [fd EXCEPT ![i] = [fd[i] EXCEPT !.flags = 0]] /\ ret' = Value(0)
    BY <1>1 DEF Close
  <2> DEFINE f == [fd[i] EXCEPT !.flags = 0]
  <2>3. fd[i] \in Files /\ (fd[i].fotp = "file" => fd[i].inode \in DOMAIN Inodes)
    BY <1>0, <2>1 DEF GoodTable, Tables
  <2>4. f \in Files /\ f.fotp = fd[i].fotp /\ f.inode = fd[i].inode
    BY <2>3 DEF Files
  <2>5. fd' = [fd EXCEPT ![i] = f]
    BY <2>2, Zenon
  <2> HIDE DEF f
  <2>6. GoodTable(fd')
    BY <1>0, <2>1, <2>3, <2>4, <2>5, UpdateFile
  <2> QED BY <1>0, <2>2, <2>6, ValueFacts, SameChainInv, Zenon
<1>2. CASE ~(i \in 2 .. NumFds - 1 /\ fd[i].flags # 0)
  <2>1. fd' = fd /\ ret' = Value(-1)
    BY <1>2, Zenon DEF Close
  <2> QED BY <1>0, <2>1, ValueFacts, SameChainInv, Zenon
<1> QED BY <1>1, <1>2, Zenon

(* A descriptor moved on by any number.                                    *)
LEMMA AdvanceGood ==
  ASSUME GoodTable(fd), NEW i \in Fds, NEW n \in Int
  PROVE  GoodTable(Advance(i, n))
<1> DEFINE f == [fd[i] EXCEPT !.fposition = @ + n]
<1>1. fd[i] \in Files /\ (fd[i].fotp = "file" => fd[i].inode \in DOMAIN Inodes)
  BY DEF GoodTable, Tables
<1>2. f \in Files /\ f.fotp = fd[i].fotp /\ f.inode = fd[i].inode
  BY <1>1 DEF Files
<1>3. Advance(i, n) = [fd EXCEPT ![i] = f]
  BY DEF Advance
<1> HIDE DEF f
<1> QED BY <1>1, <1>2, <1>3, UpdateFile

LEMMA ReadInv ==
  ASSUME Inv, NEW i, NEW n \in Int, Read(i, n), Running.prog # Shell
  PROVE  Inv'
<1>0. GoodTable(fd) /\ chain' = chain /\ arg' = arg /\ wild' = wild
  BY DEF Inv, TablesGood, Read
<1>1. CASE Usable(i) /\ fd[i].fotp = "file"
  <2> DEFINE r == read_data(fd[i].inode, fd[i].fposition, Unsigned(n))
  <2>1. i \in Fds /\ ret' = r /\ fd' = Advance(i, r.val)
    BY <1>1 DEF Usable, Read, FileRead
  <2>2. fd[i].inode \in DOMAIN Inodes /\ fd[i].fposition \in Int
    BY <1>0, <1>1, <2>1 DEF GoodTable, Tables, Files
  <2>3. Unsigned(n) \in Int
    <3>1. Huge \in Int
      BY ImageFacts
    <3> QED BY <3>1 DEF Unsigned
  <2>4. r.val \in Int
    BY <2>2, <2>3, ReadFacts, Zenon
  <2> HIDE DEF r
  <2>5. GoodTable(fd')
    BY <1>0, <2>1, <2>4, AdvanceGood, Zenon
  <2> QED BY <1>0, <2>1, <2>4, <2>5, SameChainInv, Zenon
<1>2. CASE ~(Usable(i) /\ fd[i].fotp = "file") /\ Usable(i) /\ fd[i].fotp = "dir"
  <2>1. i \in Fds /\ DirectoryRead(i)
    BY <1>2 DEF Usable, Read
  <2> DEFINE d == read_dentry_by_index(fd[i].fposition)
  <2>2. CASE d.found
    <3>1. ret' = [val |-> 32, data |-> <<d.name>>] /\ fd' = Advance(i, 1)
      BY <2>1, <2>2 DEF DirectoryRead
    <3>2. ret'.val \in Int
      BY <3>1
    <3>3. GoodTable(fd')
      BY <1>0, <2>1, <3>1, AdvanceGood
    <3> QED BY <1>0, <3>2, <3>3, SameChainInv, Zenon
  <2>3. CASE ~d.found
    <3>1. ret' = Value(0) /\ fd' = fd
      BY <2>1, <2>3 DEF DirectoryRead
    <3> QED BY <1>0, <3>1, ValueFacts, SameChainInv, Zenon
  <2> QED BY <2>2, <2>3
<1>3. CASE ~(Usable(i) /\ fd[i].fotp = "file") /\ ~(Usable(i) /\ fd[i].fotp = "dir")
  <2>1. fd' = fd /\ (ret' = Value(0) \/ ret' = Value(-1))
    BY <1>3 DEF Read
  <2> QED BY <1>0, <2>1, ValueFacts, SameChainInv, Zenon
<1> QED BY <1>1, <1>2, <1>3, Zenon

(* write and getargs change nothing but what they return.                  *)
LEMMA QuietCallInv ==
  ASSUME Inv, UNCHANGED <<fd, arg, chain, wild>>, ret' = Value(0) \/ ret' = Value(-1)
  PROVE  Inv'
<1>1. GoodTable(fd') /\ chain' = chain /\ arg' = arg /\ wild' = wild /\ fd' = fd
  BY DEF Inv, TablesGood
<1> QED BY <1>1, ValueFacts, SameChainInv, Zenon

LEMMA FileCallInv == ASSUME Inv, FileCall, Running.prog \notin Quiet PROVE Inv'
<1>0. Running.prog # Shell
  BY TableFacts, Zenon
<1>1. CASE \E name \in OpenNames : Open(name)
  BY <1>0, <1>1, OpenInv, Zenon
<1>2. CASE \E i \in Given : Close(i)
  BY <1>0, <1>2, CloseInv, Zenon
<1>3. CASE \E i \in Given : Write(i)
  <2>1. UNCHANGED <<fd, arg, chain, wild>> /\ (ret' = Value(0) \/ ret' = Value(-1))
    BY <1>3 DEF Write
  <2> QED BY <2>1, QuietCallInv, Zenon
<1>4. CASE \E i \in Given : \E n \in Counts : Read(i, n)
  BY <1>0, <1>4, TableFacts, ReadInv, Zenon
<1>5. CASE \E n \in Counts : GetArgs(n)
  <2>1. UNCHANGED <<fd, arg, chain, wild>> /\ (ret' = Value(0) \/ ret' = Value(-1))
    BY <1>5 DEF GetArgs
  <2> QED BY <2>1, QuietCallInv, Zenon
<1>6. CASE \E i \in Given : ClosePast(i)
  <2>1. fd' = fd /\ arg' = arg /\ chain' = chain /\ ret' = ret /\ wild' \in BOOLEAN
    BY <1>6 DEF ClosePast
  <2>2. ChainOK(chain', fd') /\ arg' \in STRING /\ ret'.val \in Int
    BY <2>1, InvFacts, Zenon DEF Inv, TypeOK
  <2> QED BY <2>1, <2>2, InvNext, Zenon
<1> QED BY <1>1, <1>2, <1>3, <1>4, <1>5, <1>6, Zenon DEF FileCall

LEMMA StutterInv == ASSUME Inv, UNCHANGED vars PROVE Inv'
<1>1. fd' = fd /\ arg' = arg /\ chain' = chain /\ ret' = ret /\ wild' = wild
  BY DEF vars
<1>2. ChainOK(chain', fd') /\ arg' \in STRING /\ ret'.val \in Int /\ wild' \in BOOLEAN
  BY <1>1, InvFacts, Zenon DEF Inv, TypeOK
<1> QED BY <1>2, InvNext

LEMMA NextInv == Inv /\ [Next]_vars => Inv'
<1> SUFFICES ASSUME Inv, [Next]_vars PROVE Inv'
  OBVIOUS
<1>1. CASE Running.prog \notin Quiet /\ FileCall
  BY <1>1, FileCallInv
<1>2. CASE \E name \in RunNames, a \in Args : Execute(name, a)
  BY <1>2, ExecuteInv, Zenon
<1>3. CASE \E name \in RunNames, a \in Args : ExecuteFails(name, a)
  BY <1>3, FailsInv, Zenon
<1>4. CASE AltFirst
  BY <1>4, AltFirstInv
<1>5. CASE HaltBase
  BY <1>5, HaltBaseInv
<1>6. CASE Halt
  BY <1>6, HaltInv
<1>7. CASE UNCHANGED vars
  BY <1>7, StutterInv
<1> QED BY <1>1, <1>2, <1>3, <1>4, <1>5, <1>6, <1>7, Zenon DEF Next

LEMMA InvAlways == Spec => []Inv
BY InitInv, NextInv, PTL DEF Spec
-----------------------------------------------------------------------------
(* The table, the argument and the chain keep their shape: apart from the  *)
(* close of descriptor 8, where the model stops, no call stores outside    *)
(* the eight entries (syscall.c:51-132, 303).                              *)
THEOREM TypeCorrect == Spec => []TypeOK
<1>1. Inv => TypeOK
  BY DEF Inv
<1> QED BY <1>1, InvAlways, PTL

(* A shell keeps the table it was started with, whatever it runs and       *)
(* however that ends, on every terminal (syscall.c:93, 97, 256, 334).      *)
THEOREM ShellTableAlways == Spec => []ShellTableKept
<1>1. Inv => ShellTableKept
  BY DEF Inv
<1> QED BY <1>1, InvAlways, PTL

(* A program run by shells from a terminal whose first shell found no      *)
(* files open starts with stdin and stdout and nothing else, whatever was  *)
(* run and killed on that terminal before (the assumption of               *)
(* ece391syserr.c:103, 173; syscall.c:97, 334).                            *)
THEOREM CleanStartAlways == Spec => []CleanStart
<1>1. Inv => CleanStart
  BY DEF Inv
<1> QED BY <1>1, InvAlways, PTL
-----------------------------------------------------------------------------
(* SysErr.                                                                 *)
(* The table: the standard descriptors, and positions within the files.    *)
Size(f) ==
  IF f.fotp = "file" THEN Inodes[f.inode].length ELSE IF f.fotp = "dir" THEN Len(Dentries) ELSE 0
Fine(t) ==
  /\ t[0].fotp = "stdin" /\ t[1].fotp = "stdout"
  /\ \A i \in 2 .. NumFds - 1 : t[i].flags # 0 => t[i].fposition \in 0 .. Size(t[i])
TablesFine == Fine(fd) /\ \A k \in 1 .. Len(chain) : Fine(chain[k].fd)

(* How many calls of err_open_lots a test has made, the descriptors it has *)
(* open then and the opens that were refused.                              *)
LotsLen == 2 * NumFds - 2
LotsFrom(n) == IF n = 0 THEN 6 ELSE 0
DoneAt(n, k) ==
  LET d == k - 1 - LotsFrom(n)
  IN  IF n \notin {0, 3} \/ d < 0 THEN 0 ELSE IF d > LotsLen THEN LotsLen ELSE d
Holds(t, j) ==
  \A i \in 2 .. NumFds - 1 : t[i].flags = IF j - NumFds + 2 < i /\ i <= j + 1 THEN 1 ELSE 0
Missed(j) == IF j >= NumFds - 1 THEN 1 ELSE 0

InTest ==
  /\ sel \in 0 .. 8 /\ at \in Nat \ {0}
  /\ phase # "off" => Running.prog = Tester
  /\ phase = "select" => sel = 0 /\ at = 1
  /\ phase # "off" /\ FromCleanShell(chain, Len(chain)) =>
       ~failed /\ cnt = Missed(DoneAt(sel, at)) /\ Holds(fd, DoneAt(sel, at))

TInv == Inv /\ TablesFine /\ InTest
-----------------------------------------------------------------------------
(* FlattenSeq, from a solution of its equation.                            *)
Solves(g, s, n) == g = [i \in 1 .. n |-> IF i = 1 THEN s[i] ELSE g[i - 1] \o s[i]]
LEMMA Flatten ==
  ASSUME NEW n \in Nat \ {0}, NEW s, Len(s) = n, NEW g, Solves(g, s, n)
  PROVE  FlattenSeq(s) = g[n]
<1> DEFINE fl[i \in 1 .. Len(s)] == IF i = 1 THEN s[i] ELSE fl[i - 1] \o s[i]
<1>1. FlattenSeq(s) = fl[n]
  <2>1. Len(s) # 0
    OBVIOUS
  <2> QED BY <2>1 DEF FlattenSeq
<1>2. fl = [i \in 1 .. n |-> IF i = 1 THEN s[i] ELSE fl[i - 1] \o s[i]]
  <2>1. fl = CHOOSE f : f = [i \in 1 .. n |-> IF i = 1 THEN s[i] ELSE f[i - 1] \o s[i]]
    BY Zenon DEF fl
  <2> QED BY <2>1, Zenon DEF Solves
<1> HIDE DEF fl
<1>3. \A i \in 1 .. n : fl[i] = g[i]
  <2> DEFINE T == {i \in 1 .. n : fl[i] # g[i]}
  <2> SUFFICES ASSUME T # {} PROVE FALSE
    OBVIOUS
  <2>1. T \in SUBSET Nat
    OBVIOUS
  <2>2. PICK i \in T : \A j \in T : i <= j
    <3> HIDE DEF T
    <3> QED BY <2>1, Least
  <2>3. i \in 1 .. n /\ fl[i] # g[i]
    OBVIOUS
  <2>4. i # 1
    BY <1>2, <2>3, Zenon DEF Solves
  <2>5. i - 1 \in 1 .. n /\ i - 1 < i
    BY <2>3, <2>4
  <2>6. fl[i - 1] = g[i - 1]
    BY <2>2, <2>5
  <2>7. fl[i] = fl[i - 1] \o s[i] /\ g[i] = g[i - 1] \o s[i]
    BY <1>2, <2>3, <2>4, Zenon DEF Solves
  <2> QED BY <2>3, <2>6, <2>7, Zenon
<1> QED BY <1>1, <1>3
-----------------------------------------------------------------------------
(* The calls of the tests: those of err_open_lots, and calls that must be  *)
(* refused by a table in which only the standard descriptors are open.     *)
Ops   == {"open", "close", "read", "write", "vidmap", "number", "cnt"}
Words == {".", "helloo", "shel", ""}
Wants == {"Fails", "Counted", "Ignored"}
Calls == [op : Ops, x : Int \cup Words, want : Wants]
LotsCall(p) ==
  IF p < NumFds THEN C("open", ".", "Counted")
  ELSE IF p < LotsLen THEN C("close", p - NumFds + 2, "Ignored")
  ELSE C("cnt", 1, "Ignored")
Refused(c) ==
  /\ c.want = "Fails"
  /\ \/ c.op = "read" /\ c.x \in Int \ {0}
     \/ c.op = "write" /\ c.x \in Int \ {1}
     \/ c.op = "close"
     \/ c.op = "open" /\ c.x \in {"helloo", "shel", ""}
     \/ c.op = "vidmap" /\ c.x \in {0, KernelPtr}
     \/ c.op = "number" /\ c.x \in {Big, -Big, 0}

Plain(s) == s \in Seq(Calls) /\ \A k \in 1 .. Len(s) : Refused(s[k])
HasLots(s, off) ==
  /\ s \in Seq(Calls) /\ off \in Nat /\ Len(s) >= off + LotsLen
  /\ \A k \in 1 .. Len(s) :
       IF k - off \in 1 .. LotsLen THEN s[k] = LotsCall(k - off) ELSE Refused(s[k])

LEMMA LotsLenFacts == LotsLen \in Nat /\ LotsLen = 2 * NumFds - 2 /\ NumFds \in Nat /\ NumFds >= 3
<1>1. NumFds \in Nat /\ NumFds >= 3
  BY TableFacts
<1> QED BY <1>1 DEF LotsLen

LEMMA PlainPlain ==
  ASSUME NEW s, NEW t, Plain(s), Plain(t)
  PROVE  Plain(s \o t) /\ Len(s \o t) = Len(s) + Len(t)
<1>1. s \in Seq(Calls) /\ t \in Seq(Calls) /\ Len(s) \in Nat /\ Len(t) \in Nat
  BY DEF Plain
<1>2. /\ s \o t \in Seq(Calls) /\ Len(s \o t) = Len(s) + Len(t)
      /\ \A k \in 1 .. Len(s) + Len(t) : (s \o t)[k] = IF k <= Len(s) THEN s[k] ELSE t[k - Len(s)]
  BY <1>1, ConcatProperties
<1>3. ASSUME NEW k \in 1 .. Len(s) + Len(t) PROVE Refused((s \o t)[k])
  <2>1. CASE k <= Len(s)
    BY <1>1, <1>2, <2>1 DEF Plain
  <2>2. CASE k > Len(s)
    <3>1. k - Len(s) \in 1 .. Len(t) /\ ~(k <= Len(s))
      BY <1>1, <2>2
    <3> QED BY <1>2, <3>1, Zenon DEF Plain
  <2> QED BY <1>1, <2>1, <2>2
<1> QED BY <1>2, <1>3 DEF Plain

LEMMA PlainLots ==
  ASSUME NEW s, NEW t, Plain(s), HasLots(t, 0)
  PROVE  HasLots(s \o t, Len(s)) /\ Len(s \o t) = Len(s) + Len(t)
<1> DEFINE n == Len(s)
           m == Len(t)
           u == s \o t
<1>1. s \in Seq(Calls) /\ t \in Seq(Calls) /\ n \in Nat /\ m \in Nat /\ m >= LotsLen /\ LotsLen \in Nat
  BY LotsLenFacts DEF Plain, HasLots
<1>2. /\ u \in Seq(Calls) /\ Len(u) = n + m
      /\ \A k \in 1 .. n + m : u[k] = IF k <= n THEN s[k] ELSE t[k - n]
  BY <1>1, ConcatProperties
<1>3. \A k \in 1 .. n : Refused(s[k])
  BY DEF Plain
<1>4. \A k \in 1 .. m : IF k \in 1 .. LotsLen THEN t[k] = LotsCall(k) ELSE Refused(t[k])
  <2>1. \A k \in 1 .. m : k - 0 = k
    BY <1>1
  <2> QED BY <2>1, Zenon DEF HasLots
<1> HIDE DEF n, m, u
<1>5. ASSUME NEW k \in 1 .. n + m
      PROVE  IF k - n \in 1 .. LotsLen THEN u[k] = LotsCall(k - n) ELSE Refused(u[k])
  <2>1. CASE k <= n
    <3>1. k \in 1 .. n /\ k - n \notin 1 .. LotsLen
      BY <1>1, <2>1
    <3> QED BY <1>2, <1>3, <2>1, <3>1, Zenon
  <2>2. CASE k > n
    <3>1. k - n \in 1 .. m /\ ~(k <= n)
      BY <1>1, <2>2
    <3> QED BY <1>2, <1>4, <3>1, Zenon
  <2> QED BY <1>1, <2>1, <2>2
<1>6. Len(u) >= n + LotsLen
  BY <1>1, <1>2
<1> QED BY <1>1, <1>2, <1>5, <1>6 DEF HasLots, n, m, u

LEMMA LotsPlain ==
  ASSUME NEW s, NEW t, NEW off, HasLots(s, off), Plain(t)
  PROVE  HasLots(s \o t, off) /\ Len(s \o t) = Len(s) + Len(t)
<1> DEFINE n == Len(s)
           m == Len(t)
           u == s \o t
<1>1. s \in Seq(Calls) /\ t \in Seq(Calls) /\ n \in Nat /\ m \in Nat /\ n >= off + LotsLen
      /\ LotsLen \in Nat /\ off \in Nat
  BY LotsLenFacts DEF Plain, HasLots
<1>2. /\ u \in Seq(Calls) /\ Len(u) = n + m
      /\ \A k \in 1 .. n + m : u[k] = IF k <= n THEN s[k] ELSE t[k - n]
  BY <1>1, ConcatProperties
<1>3. \A k \in 1 .. m : Refused(t[k])
  BY DEF Plain
<1>4. \A k \in 1 .. n : IF k - off \in 1 .. LotsLen THEN s[k] = LotsCall(k - off) ELSE Refused(s[k])
  BY DEF HasLots
<1> HIDE DEF n, m, u
<1>5. ASSUME NEW k \in 1 .. n + m
      PROVE  IF k - off \in 1 .. LotsLen THEN u[k] = LotsCall(k - off) ELSE Refused(u[k])
  <2>1. CASE k <= n
    <3>1. k \in 1 .. n
      BY <1>1, <2>1
    <3> QED BY <1>2, <1>4, <2>1, <3>1, Zenon
  <2>2. CASE k > n
    <3>1. k - n \in 1 .. m /\ ~(k <= n) /\ k - off \notin 1 .. LotsLen
      BY <1>1, <2>2
    <3> QED BY <1>2, <1>3, <3>1, Zenon
  <2> QED BY <1>1, <2>1, <2>2
<1>6. Len(u) >= off + LotsLen
  BY <1>1, <1>2
<1> QED BY <1>1, <1>2, <1>5, <1>6 DEF HasLots, n, m, u

LEMMA CallFacts ==
  ASSUME NEW op \in Ops, NEW x \in Int \cup Words, NEW want \in Wants
  PROVE  /\ C(op, x, want) \in Calls
         /\ C(op, x, want).op = op /\ C(op, x, want).x = x /\ C(op, x, want).want = want
BY DEF C, Calls

LEMMA FCallFacts ==
  ASSUME NEW op \in Ops, NEW x \in Int \cup Words
  PROVE  F(op, x) \in Calls /\ F(op, x).op = op /\ F(op, x).x = x /\ F(op, x).want = "Fails"
<1>1. "Fails" \in Wants
  BY DEF Wants
<1> DEFINE c == C(op, x, "Fails")
<1>2. c \in Calls /\ c.op = op /\ c.x = x /\ c.want = "Fails"
  BY <1>1, CallFacts
<1>3. F(op, x) = c
  BY DEF F
<1> HIDE DEF c
<1> QED BY <1>2, <1>3

LEMMA BigFacts ==
  /\ Big \in Int \ {0, 1} /\ -Big \in Int \ {0, 1}
  /\ KernelPtr \in Int /\ RefusedPtr(0) /\ RefusedPtr(KernelPtr)
  /\ ~Dispatched(Big) /\ ~Dispatched(-Big) /\ ~Dispatched(0)
BY SMT DEF Big, KernelPtr, RefusedPtr, EXEC_LOCATION, USER_VIDEO, Dispatched

LEMMA Three ==
  ASSUME NEW a, NEW b, NEW c, a \in Calls, b \in Calls, c \in Calls, Refused(a), Refused(b), Refused(c)
  PROVE  Plain(<<a, b, c>>) /\ Len(<<a, b, c>>) = 3
<1> DEFINE s == <<a, b, c>>
<1>1. s \in Seq(Calls) /\ Len(s) = 3 /\ s[1] = a /\ s[2] = b /\ s[3] = c
  OBVIOUS
<1> HIDE DEF s
<1>2. \A k \in 1 .. 3 : k = 1 \/ k = 2 \/ k = 3
  OBVIOUS
<1>3. \A k \in 1 .. 3 : Refused(s[k])
  BY <1>1, <1>2, Zenon
<1> QED BY <1>1, <1>3 DEF Plain, s

LEMMA Two ==
  ASSUME NEW a, NEW b, a \in Calls, b \in Calls, Refused(a), Refused(b)
  PROVE  Plain(<<a, b>>) /\ Len(<<a, b>>) = 2
<1> DEFINE s == <<a, b>>
<1>1. s \in Seq(Calls) /\ Len(s) = 2 /\ s[1] = a /\ s[2] = b
  OBVIOUS
<1> HIDE DEF s
<1>2. \A k \in 1 .. 2 : k = 1 \/ k = 2
  OBVIOUS
<1>3. \A k \in 1 .. 2 : Refused(s[k])
  BY <1>1, <1>2, Zenon
<1> QED BY <1>1, <1>3 DEF Plain, s

(* One call refused, by kind.                                              *)
LEMMA RefusedCalls ==
  /\ \A x \in Int \ {0} : F("read", x) \in Calls /\ Refused(F("read", x))
  /\ \A x \in Int \ {1} : F("write", x) \in Calls /\ Refused(F("write", x))
  /\ \A x \in Int : F("close", x) \in Calls /\ Refused(F("close", x))
  /\ \A x \in {"helloo", "shel", ""} : F("open", x) \in Calls /\ Refused(F("open", x))
  /\ \A x \in {0, KernelPtr} : F("vidmap", x) \in Calls /\ Refused(F("vidmap", x))
  /\ \A x \in {Big, -Big, 0} : F("number", x) \in Calls /\ Refused(F("number", x))
<1>1. ASSUME NEW x \in Int \ {0} PROVE F("read", x) \in Calls /\ Refused(F("read", x))
  <2>1. "read" \in Ops /\ x \in Int \cup Words
    BY BigFacts DEF Ops, Words
  <2>2. F("read", x) \in Calls /\ F("read", x).op = "read" /\ F("read", x).x = x /\ F("read", x).want = "Fails"
    BY <2>1, FCallFacts, Zenon
  <2> QED BY <2>2, Zenon DEF Refused
<1>2. ASSUME NEW x \in Int \ {1} PROVE F("write", x) \in Calls /\ Refused(F("write", x))
  <2>1. "write" \in Ops /\ x \in Int \cup Words
    BY BigFacts DEF Ops, Words
  <2>2. F("write", x) \in Calls /\ F("write", x).op = "write" /\ F("write", x).x = x /\ F("write", x).want = "Fails"
    BY <2>1, FCallFacts, Zenon
  <2> QED BY <2>2, Zenon DEF Refused
<1>3. ASSUME NEW x \in Int PROVE F("close", x) \in Calls /\ Refused(F("close", x))
  <2>1. "close" \in Ops /\ x \in Int \cup Words
    BY BigFacts DEF Ops, Words
  <2>2. F("close", x) \in Calls /\ F("close", x).op = "close" /\ F("close", x).x = x /\ F("close", x).want = "Fails"
    BY <2>1, FCallFacts, Zenon
  <2> QED BY <2>2, Zenon DEF Refused
<1>4. ASSUME NEW x \in {"helloo", "shel", ""} PROVE F("open", x) \in Calls /\ Refused(F("open", x))
  <2>1. "open" \in Ops /\ x \in Int \cup Words
    BY BigFacts DEF Ops, Words
  <2>2. F("open", x) \in Calls /\ F("open", x).op = "open" /\ F("open", x).x = x /\ F("open", x).want = "Fails"
    BY <2>1, FCallFacts, Zenon
  <2> QED BY <2>2, Zenon DEF Refused
<1>5. ASSUME NEW x \in {0, KernelPtr} PROVE F("vidmap", x) \in Calls /\ Refused(F("vidmap", x))
  <2>1. "vidmap" \in Ops /\ x \in Int \cup Words
    BY BigFacts DEF Ops, Words
  <2>2. F("vidmap", x) \in Calls /\ F("vidmap", x).op = "vidmap" /\ F("vidmap", x).x = x /\ F("vidmap", x).want = "Fails"
    BY <2>1, FCallFacts, Zenon
  <2> QED BY <2>2, Zenon DEF Refused
<1>6. ASSUME NEW x \in {Big, -Big, 0} PROVE F("number", x) \in Calls /\ Refused(F("number", x))
  <2>1. "number" \in Ops /\ x \in Int \cup Words
    BY BigFacts DEF Ops, Words
  <2>2. F("number", x) \in Calls /\ F("number", x).op = "number" /\ F("number", x).x = x /\ F("number", x).want = "Fails"
    BY <2>1, FCallFacts, Zenon
  <2> QED BY <2>2, Zenon DEF Refused
<1> QED BY <1>1, <1>2, <1>3, <1>4, <1>5, <1>6, Zenon

LEMMA EachPlain ==
  ASSUME NEW op, NEW lo \in Nat, lo <= NumFds,
         \A x \in Int : x >= lo => F(op, x) \in Calls /\ Refused(F(op, x))
  PROVE  Plain(Each(op, lo, "Fails"))
<1> DEFINE m == NumFds - lo
           s == [k \in 1 .. m |-> C(op, lo + k - 1, "Fails")]
<1>1. m \in Nat /\ \A k \in 1 .. m : lo + k - 1 \in Int /\ lo + k - 1 >= lo
  BY LotsLenFacts
<1>2. Each(op, lo, "Fails") = s
  BY DEF Each
<1> HIDE DEF m
<1>3. \A k \in 1 .. m : C(op, lo + k - 1, "Fails") \in Calls /\ Refused(C(op, lo + k - 1, "Fails"))
  BY <1>1, Zenon DEF F
<1>4. s \in [1 .. m -> Calls] /\ \A k \in 1 .. m : Refused(s[k])
  BY <1>3, Zenon
<1> HIDE DEF s
<1>5. s \in Seq(Calls) /\ Len(s) = m
  BY <1>1, <1>4
<1> QED BY <1>2, <1>4, <1>5 DEF Plain

(* The tests that only make calls to be refused.                           *)
LEMMA PlainTests ==
  /\ Plain(err_neg_fd) /\ Len(err_neg_fd) = 3 /\ Plain(err_big_fd) /\ Len(err_big_fd) = 3
  /\ Plain(err_open) /\ Plain(err_unopened) /\ Plain(err_vidmap) /\ Plain(err_stdin_out)
  /\ Plain(err_syscall_num)
<1>0. Big \in Int \ {0} /\ Big \in Int \ {1} /\ -Big \in Int \ {0} /\ -Big \in Int \ {1}
      /\ Big \in Int /\ -Big \in Int
  BY BigFacts, Zenon
<1>1. Plain(err_neg_fd) /\ Len(err_neg_fd) = 3
  BY <1>0, RefusedCalls, Three, Zenon DEF err_neg_fd
<1>2. Plain(err_big_fd) /\ Len(err_big_fd) = 3
  BY <1>0, RefusedCalls, Three, Zenon DEF err_big_fd
<1>3. Plain(err_open)
  BY RefusedCalls, Three, Zenon DEF err_open
<1>4. Plain(err_vidmap)
  BY RefusedCalls, Two, Zenon DEF err_vidmap
<1>5. Plain(err_stdin_out)
  <2>1. 0 \in Int \ {1} /\ 1 \in Int \ {0}
    OBVIOUS
  <2> QED BY <2>1, RefusedCalls, Two, Zenon DEF err_stdin_out
<1>6. Plain(err_syscall_num)
  BY RefusedCalls, Three, Zenon DEF err_syscall_num
<1>7. Plain(err_unopened)
  <2>0. 0 \in Nat /\ 2 \in Nat /\ 0 <= NumFds /\ 2 <= NumFds
        /\ (\A x \in Int : x >= 2 => x \in Int \ {0} /\ x \in Int \ {1})
    BY LotsLenFacts
  <2>1. Plain(Each("close", 0, "Fails"))
    BY <2>0, RefusedCalls, EachPlain, Zenon
  <2>2. Plain(Each("read", 2, "Fails"))
    BY <2>0, RefusedCalls, EachPlain, Zenon
  <2>3. Plain(Each("write", 2, "Fails"))
    BY <2>0, RefusedCalls, EachPlain, Zenon
  <2>4. Plain(Each("close", 0, "Fails") \o Each("read", 2, "Fails"))
    BY <2>1, <2>2, PlainPlain, Zenon
  <2>5. Plain((Each("close", 0, "Fails") \o Each("read", 2, "Fails")) \o Each("write", 2, "Fails"))
    BY <2>3, <2>4, PlainPlain, Zenon
  <2> QED BY <2>5 DEF err_unopened
<1> QED BY <1>1, <1>2, <1>3, <1>4, <1>5, <1>6, <1>7

(* err_open_lots: seven opens, six closes and the count.                   *)
LEMMA LotsTest == HasLots(err_open_lots, 0)
<1> DEFINE n == NumFds
           a == [k \in 1 .. n - 1 |-> C("open", ".", "Counted")]
           b == Each("close", 2, "Ignored")
           e == <<C("cnt", 1, "Ignored")>>
<1>0. n \in Nat /\ n >= 3 /\ LotsLen = 2 * n - 2
  BY LotsLenFacts
<1>1. C("open", ".", "Counted") \in Calls /\ C("cnt", 1, "Ignored") \in Calls
      /\ \A x \in Int : C("close", x, "Ignored") \in Calls
  <2>1. "open" \in Ops /\ "close" \in Ops /\ "cnt" \in Ops /\ "Counted" \in Wants /\ "Ignored" \in Wants
        /\ "." \in Int \cup Words /\ 1 \in Int \cup Words
        /\ \A x \in Int : x \in Int \cup Words
    BY DEF Ops, Wants, Words
  <2> QED BY <2>1, CallFacts, Zenon
<1>2. a \in Seq(Calls) /\ Len(a) = n - 1 /\ \A k \in 1 .. n - 1 : a[k] = C("open", ".", "Counted")
  BY <1>0, <1>1
<1>3. b \in Seq(Calls) /\ Len(b) = n - 2 /\ \A k \in 1 .. n - 2 : b[k] = C("close", k + 1, "Ignored")
  <2>1. b = [k \in 1 .. n - 2 |-> C("close", 2 + k - 1, "Ignored")]
    BY DEF Each
  <2>2. \A k \in 1 .. n - 2 : 2 + k - 1 = k + 1 /\ k + 1 \in Int
    BY <1>0
  <2>3. b = [k \in 1 .. n - 2 |-> C("close", k + 1, "Ignored")]
    BY <2>1, <2>2
  <2>4. \A k \in 1 .. n - 2 : C("close", k + 1, "Ignored") \in Calls
    BY <1>1, <2>2, Zenon
  <2>5. b \in [1 .. n - 2 -> Calls] /\ \A k \in 1 .. n - 2 : b[k] = C("close", k + 1, "Ignored")
    BY <2>3, <2>4, Zenon
  <2> HIDE DEF b
  <2> QED BY <1>0, <2>5
<1>4. e \in Seq(Calls) /\ Len(e) = 1 /\ e[1] = C("cnt", 1, "Ignored")
  BY <1>1
<1> HIDE DEF a, b, e
<1>5. /\ a \o b \in Seq(Calls) /\ Len(a \o b) = n - 1 + (n - 2)
      /\ \A k \in 1 .. n - 1 + (n - 2) : (a \o b)[k] = IF k <= n - 1 THEN a[k] ELSE b[k - (n - 1)]
  BY <1>2, <1>3, ConcatProperties
<1> DEFINE ab == a \o b
           abe == ab \o e
<1>6. /\ ab \in Seq(Calls) /\ Len(ab) = 2 * n - 3
      /\ \A k \in 1 .. 2 * n - 3 : ab[k] = IF k <= n - 1 THEN a[k] ELSE b[k - (n - 1)]
  <2>1. n - 1 + (n - 2) = 2 * n - 3
    BY <1>0
  <2> QED BY <1>5, <2>1, Zenon
<1> HIDE DEF ab
<1>7. /\ abe \in Seq(Calls) /\ Len(abe) = 2 * n - 3 + 1
      /\ \A k \in 1 .. 2 * n - 3 + 1 : abe[k] = IF k <= 2 * n - 3 THEN ab[k] ELSE e[k - (2 * n - 3)]
  <2>1. ab \in Seq(Calls) /\ e \in Seq(Calls)
    BY <1>4, <1>6
  <2>2. /\ abe \in Seq(Calls) /\ Len(abe) = Len(ab) + Len(e)
        /\ \A k \in 1 .. Len(ab) + Len(e) : abe[k] = IF k <= Len(ab) THEN ab[k] ELSE e[k - Len(ab)]
    BY <2>1, ConcatProperties
  <2>3. Len(ab) = 2 * n - 3 /\ Len(e) = 1
    BY <1>4, <1>6
  <2> QED BY <2>2, <2>3, Zenon
<1> HIDE DEF abe
<1>8. err_open_lots = abe
  BY DEF err_open_lots, abe, ab, a, b, e
<1>9. Len(abe) = LotsLen
  BY <1>0, <1>7
<1>10. ASSUME NEW k \in 1 .. LotsLen PROVE abe[k] = LotsCall(k)
  <2>1. CASE k < n
    <3>1. k <= n - 1 /\ k \in 1 .. n - 1 /\ k \in 1 .. 2 * n - 3 /\ k <= 2 * n - 3 /\ k \in 1 .. 2 * n - 3 + 1
      BY <1>0, <2>1
    <3> QED BY <1>2, <1>6, <1>7, <2>1, <3>1, Zenon DEF LotsCall
  <2>2. CASE ~(k < n) /\ k < LotsLen
    <3>1. ~(k <= n - 1) /\ k - (n - 1) \in 1 .. n - 2 /\ k \in 1 .. 2 * n - 3 /\ k <= 2 * n - 3
          /\ k \in 1 .. 2 * n - 3 + 1 /\ k - (n - 1) + 1 = k - n + 2
      BY <1>0, <2>2
    <3>2. abe[k] = C("close", k - (n - 1) + 1, "Ignored")
      BY <1>3, <1>6, <1>7, <3>1, Zenon
    <3> QED BY <2>2, <3>1, <3>2, Zenon DEF LotsCall
  <2>3. CASE ~(k < LotsLen)
    <3>1. ~(k <= 2 * n - 3) /\ k \in 1 .. 2 * n - 3 + 1 /\ k - (2 * n - 3) = 1 /\ ~(k < n)
      BY <1>0, <2>3
    <3> QED BY <1>4, <1>7, <2>3, <3>1, Zenon DEF LotsCall
  <2> QED BY <2>1, <2>2, <2>3, Zenon
<1>11. \A k \in 1 .. LotsLen : k - 0 = k
  BY LotsLenFacts
<1>12. 0 \in Nat /\ 0 + LotsLen = LotsLen /\ LotsLen >= LotsLen
  BY LotsLenFacts
<1> QED BY <1>7, <1>8, <1>9, <1>10, <1>11, <1>12, Zenon DEF HasLots

(* All eight in a row.                                                     *)
LEMMA AllTests == HasLots(FlattenSeq(Numbered), 6)
<1> DEFINE g1 == err_neg_fd
           g2 == g1 \o err_big_fd
           g3 == g2 \o err_open_lots
           g4 == g3 \o err_open
           g5 == g4 \o err_unopened
           g6 == g5 \o err_vidmap
           g7 == g6 \o err_stdin_out
           g8 == g7 \o err_syscall_num
           g  == <<g1, g2, g3, g4, g5, g6, g7, g8>>
<1>1. Plain(g2) /\ Len(g2) = 6
  <2>1. 3 + 3 = 6
    OBVIOUS
  <2> QED BY <2>1, PlainTests, PlainPlain, Zenon
<1> HIDE DEF g2
<1>2. HasLots(g3, 6)
  BY <1>1, LotsTest, PlainLots, Zenon
<1> HIDE DEF g3
<1>3. HasLots(g4, 6)
  BY <1>2, PlainTests, LotsPlain, Zenon
<1> HIDE DEF g4
<1>4. HasLots(g5, 6)
  BY <1>3, PlainTests, LotsPlain, Zenon
<1> HIDE DEF g5
<1>5. HasLots(g6, 6)
  BY <1>4, PlainTests, LotsPlain, Zenon
<1> HIDE DEF g6
<1>6. HasLots(g7, 6)
  BY <1>5, PlainTests, LotsPlain, Zenon
<1> HIDE DEF g7
<1>7. HasLots(g8, 6)
  BY <1>6, PlainTests, LotsPlain, Zenon
<1> HIDE DEF g8
<1>8. /\ Len(Numbered) = 8 /\ Numbered[1] = g1 /\ Numbered[2] = err_big_fd
      /\ Numbered[3] = err_open_lots /\ Numbered[4] = err_open /\ Numbered[5] = err_unopened
      /\ Numbered[6] = err_vidmap /\ Numbered[7] = err_stdin_out /\ Numbered[8] = err_syscall_num
  BY DEF Numbered
<1> HIDE DEF g1
<1>9. /\ g[1] = g1 /\ g[2] = g2 /\ g[3] = g3 /\ g[4] = g4 /\ g[5] = g5 /\ g[6] = g6
      /\ g[7] = g7 /\ g[8] = g8 /\ DOMAIN g = 1 .. 8 /\ g = [i \in 1 .. 8 |-> g[i]]
  OBVIOUS
<1> HIDE DEF g
<1>10. \A i \in 1 .. 8 : g[i] = IF i = 1 THEN Numbered[i] ELSE g[i - 1] \o Numbered[i]
  <2>1. \A i \in 1 .. 8 : i = 1 \/ i = 2 \/ i = 3 \/ i = 4 \/ i = 5 \/ i = 6 \/ i = 7 \/ i = 8
    OBVIOUS
  <2>2. 2 - 1 = 1 /\ 3 - 1 = 2 /\ 4 - 1 = 3 /\ 5 - 1 = 4 /\ 6 - 1 = 5 /\ 7 - 1 = 6 /\ 8 - 1 = 7
        /\ 2 # 1 /\ 3 # 1 /\ 4 # 1 /\ 5 # 1 /\ 6 # 1 /\ 7 # 1 /\ 8 # 1
    OBVIOUS
  <2>3. /\ g2 = g1 \o err_big_fd /\ g3 = g2 \o err_open_lots /\ g4 = g3 \o err_open
        /\ g5 = g4 \o err_unopened /\ g6 = g5 \o err_vidmap /\ g7 = g6 \o err_stdin_out
        /\ g8 = g7 \o err_syscall_num
    BY DEF g2, g3, g4, g5, g6, g7, g8
  <2> SUFFICES ASSUME NEW i \in 1 .. 8
               PROVE  g[i] = IF i = 1 THEN Numbered[i] ELSE g[i - 1] \o Numbered[i]
    OBVIOUS
  <2>c1. CASE i = 1
    BY <1>8, <1>9, <2>2, <2>3, <2>c1, Zenon
  <2>c2. CASE i = 2
    BY <1>8, <1>9, <2>2, <2>3, <2>c2, Zenon
  <2>c3. CASE i = 3
    BY <1>8, <1>9, <2>2, <2>3, <2>c3, Zenon
  <2>c4. CASE i = 4
    BY <1>8, <1>9, <2>2, <2>3, <2>c4, Zenon
  <2>c5. CASE i = 5
    BY <1>8, <1>9, <2>2, <2>3, <2>c5, Zenon
  <2>c6. CASE i = 6
    BY <1>8, <1>9, <2>2, <2>3, <2>c6, Zenon
  <2>c7. CASE i = 7
    BY <1>8, <1>9, <2>2, <2>3, <2>c7, Zenon
  <2>c8. CASE i = 8
    BY <1>8, <1>9, <2>2, <2>3, <2>c8, Zenon
  <2> QED BY <2>1, <2>c1, <2>c2, <2>c3, <2>c4, <2>c5, <2>c6, <2>c7, <2>c8, Zenon
<1>11. Solves(g, Numbered, 8)
  BY <1>9, <1>10 DEF Solves
<1>12. FlattenSeq(Numbered) = g[8]
  <2>1. 8 \in Nat \ {0}
    OBVIOUS
  <2> QED BY <1>8, <1>11, <2>1, Flatten, Zenon
<1> QED BY <1>7, <1>9, <1>12, Zenon

LEMMA ScriptShape ==
  ASSUME NEW n \in 0 .. 8
  PROVE  /\ n \in {0, 3} => HasLots(Script[n], LotsFrom(n))
         /\ n \notin {0, 3} => Plain(Script[n])
<1>1. /\ Len(Numbered) = 8 /\ Numbered[1] = err_neg_fd /\ Numbered[2] = err_big_fd
      /\ Numbered[3] = err_open_lots /\ Numbered[4] = err_open /\ Numbered[5] = err_unopened
      /\ Numbered[6] = err_vidmap /\ Numbered[7] = err_stdin_out /\ Numbered[8] = err_syscall_num
  BY DEF Numbered
<1>2. Script[n] = IF n = 0 THEN FlattenSeq(Numbered) ELSE Numbered[n]
  BY <1>1, Zenon DEF Script
<1>3. n = 0 \/ n = 1 \/ n = 2 \/ n = 3 \/ n = 4 \/ n = 5 \/ n = 6 \/ n = 7 \/ n = 8
  OBVIOUS
<1>4. CASE n = 0
  BY <1>2, <1>4, AllTests, Zenon DEF LotsFrom
<1>5. CASE n = 3
  <2>1. n # 0
    BY <1>5
  <2> QED BY <1>1, <1>2, <1>5, <2>1, LotsTest, Zenon DEF LotsFrom
<1>6. CASE n \notin {0, 3}
  <2>1. n # 0 /\ Script[n] = Numbered[n]
    BY <1>2, <1>6, Zenon
  <2> QED BY <1>1, <1>3, <1>6, <2>1, PlainTests, Zenon
<1> QED BY <1>4, <1>5, <1>6, Zenon
-----------------------------------------------------------------------------
(* What each call does to the table and the chain.                         *)
LEMMA SizeNat == ASSUME NEW f \in Files, f.fotp = "file" => f.inode \in DOMAIN Inodes PROVE Size(f) \in Nat
<1>1. f.fotp = "file" => Inodes[f.inode].length \in Nat
  BY ImageFacts
<1>2. Len(Dentries) \in Nat
  <2> DEFINE D == [name : STRING, ftype : {0, 1, 2}, inode : DOMAIN Inodes]
  <2>1. Dentries \in Seq(D)
    BY ImageAssumption, Zenon
  <2> HIDE DEF D
  <2> QED BY <2>1
<1> QED BY <1>1, <1>2 DEF Size

LEMMA Update ==
  ASSUME NEW t \in Tables, NEW i \in Fds, NEW f
  PROVE  LET u == [t EXCEPT ![i] = f] IN
         u[i] = f /\ (\A k \in Fds : k # i => u[k] = t[k]) /\ DOMAIN u = Fds
BY DEF Tables

LEMMA FreeFacts == ASSUME NEW t, NEW i \in FreeIn(t) PROVE i \in 2 .. NumFds - 1 /\ i \in Fds /\ i \in Int /\ i >= 2
<1>1. i \in 2 .. NumFds - 1
  BY DEF FreeIn
<1>2. NumFds \in Nat
  BY TableFacts
<1> QED BY <1>1, <1>2, FdFacts

LEMMA DirFacts == Len(Dentries) \in Nat /\ \A h \in 1 .. Len(Dentries) : Dentries[h].name \in Names
<1> DEFINE D == [name : STRING, ftype : {0, 1, 2}, inode : DOMAIN Inodes]
<1>1. Dentries \in Seq(D)
  BY ImageAssumption, Zenon
<1> HIDE DEF D
<1>2. Len(Dentries) \in Nat
  BY <1>1
<1> QED BY <1>2, Zenon DEF Names

LEMMA NewFacts ==
  ASSUME NEW h \in 1 .. Len(Dentries), NEW old
  PROVE  LET f == NewFile(Entry(h), NoFile) IN
         /\ NewFile(Entry(h), old) = f
         /\ f \in Files /\ f.fposition = 0 /\ f.flags = 1 /\ f.inode \in DOMAIN Inodes
<1> DEFINE dt == Entry(h)
           v  == IF dt.ftype = 2 THEN dt.inode ELSE 0
           f  == NewFile(dt, NoFile)
<1>1. dt.ftype \in {0, 1, 2} /\ dt.inode \in DOMAIN Inodes /\ dt.inode \in Nat
  BY EntryFacts
<1> HIDE DEF dt
<1>2. FotpOf(dt.ftype) \in Kinds
  BY <1>1 DEF FotpOf, Kinds
<1>3. 0 \in DOMAIN Inodes
  <2>1. NInodes \in 0 .. 256 /\ DOMAIN Inodes = 0 .. NInodes - 1
    BY ImageAssumption, Zenon
  <2> QED BY <1>1, <2>1
<1>4. v \in DOMAIN Inodes /\ v \in Nat
  BY <1>1, <1>3
<1>5. f = [fotp |-> FotpOf(dt.ftype), inode |-> v, fposition |-> 0, flags |-> 1]
      /\ NewFile(dt, old) = f
  BY DEF NewFile
<1> HIDE DEF v, f
<1>6. f \in Files /\ f.fposition = 0 /\ f.flags = 1 /\ f.inode = v
  BY <1>2, <1>4, <1>5 DEF Files
<1> QED BY <1>4, <1>5, <1>6 DEF dt, f

OpenDid(name) ==
  \/ fd' = fd /\ ret' = Value(-1) /\ (name \notin Names \/ FreeIn(fd) = {})
  \/ \E i \in FreeIn(fd), h \in 1 .. Len(Dentries) :
       /\ \A j \in FreeIn(fd) : i <= j
       /\ fd' = [fd EXCEPT ![i] = NewFile(Entry(h), NoFile)] /\ ret' = Value(i)
       /\ name \in Names
LEMMA OpenDoes == ASSUME NEW name, Open(name) PROVE OpenDid(name)
<1> DEFINE dt == read_dentry_by_name(name)
           hits == {k \in 1 .. Len(Dentries) : Dentries[k].name = name}
           h == CHOOSE k \in hits : \A j \in hits : k <= j
<1>1. CASE ~dt.found
  <2>1. fd' = fd /\ ret' = Value(-1)
    BY <1>1, Zenon DEF Open
  <2>2. ASSUME name \in Names PROVE FALSE
    <3>1. PICK k \in 1 .. Len(Dentries) : name = Dentries[k].name
      BY <2>2, Zenon DEF Names
    <3>2. hits # {}
      BY <3>1
    <3>3. dt = Entry(h)
      BY <3>2, Zenon DEF read_dentry_by_name
    <3>4. Entry(h).found
      <4> HIDE DEF h
      <4> QED BY DEF Entry
    <3> QED BY <1>1, <3>3, <3>4, Zenon
  <2> QED BY <2>1, <2>2, Zenon DEF OpenDid
<1>2. CASE dt.found /\ FreeIn(fd) = {}
  <2>1. fd' = fd /\ ret' = Value(-1)
    BY <1>2, Zenon DEF Open
  <2> QED BY <1>2, <2>1, Zenon DEF OpenDid
<1>3. CASE dt.found /\ FreeIn(fd) # {}
  <2> DEFINE i == FirstFree(fd)
  <2>1. fd' = [fd EXCEPT ![i] = NewFile(dt, fd[i])] /\ ret' = Value(i)
    <3>1. fd' = [fd EXCEPT ![i] = NewFile(dt, @)] /\ ret' = Value(i)
      BY <1>3, Zenon DEF Open
    <3> QED BY <3>1
  <2>2. i \in FreeIn(fd) /\ \A j \in FreeIn(fd) : i <= j
    <3>1. FreeIn(fd) \in SUBSET Nat
      <4>1. NumFds \in Nat
        BY TableFacts
      <4> QED BY <4>1, SMT DEF FreeIn
    <3>2. \E k \in FreeIn(fd) : \A j \in FreeIn(fd) : k <= j
      BY <1>3, <3>1, Least, Zenon
    <3> QED BY <3>2, Zenon DEF FirstFree
  <2>3. hits # {} /\ dt = Entry(h)
    <3>1. ~None.found
      BY DEF None
    <3> QED BY <1>3, <3>1, Zenon DEF read_dentry_by_name
  <2>4. h \in 1 .. Len(Dentries) /\ name \in Names
    <3>1. hits \in SUBSET Nat /\ hits \subseteq 1 .. Len(Dentries)
      OBVIOUS
    <3>2. \A k \in hits : Dentries[k].name = name
      OBVIOUS
    <3> HIDE DEF hits
    <3>3. \E k \in hits : \A j \in hits : k <= j
      BY <2>3, <3>1, Least, Zenon
    <3>4. h \in hits
      BY <3>3, Zenon
    <3> HIDE DEF h
    <3> QED BY <3>1, <3>2, <3>4, DirFacts, Zenon
  <2> HIDE DEF h, dt, i
  <2>5. NewFile(dt, fd[i]) = NewFile(Entry(h), NoFile)
    BY <2>3, <2>4, NewFacts, Zenon
  <2> QED BY <2>1, <2>2, <2>4, <2>5, Zenon DEF OpenDid
<1> QED BY <1>1, <1>2, <1>3, Zenon

OpenFd(i) == i \in 2 .. NumFds - 1 /\ fd[i].flags # 0
CloseDid(i) ==
  \/ ~OpenFd(i) /\ fd' = fd /\ ret' = Value(-1)
  \/ OpenFd(i) /\ fd' = [fd EXCEPT ![i] = [fd[i] EXCEPT !.flags = 0]] /\ ret' = Value(0)
LEMMA CloseDoes == ASSUME NEW i, Close(i) PROVE CloseDid(i)
<1>1. (i \in 2 .. NumFds - 1 /\ fd[i].flags # 0) <=> OpenFd(i)
  BY DEF OpenFd
<1>2. CASE OpenFd(i)
  <2>1. fd' = [fd EXCEPT ![i].flags = 0] /\ ret' = Value(0)
    BY <1>1, <1>2, Zenon DEF Close
  <2>2. fd' = [fd EXCEPT ![i] = [fd[i] EXCEPT !.flags = 0]]
    BY <2>1
  <2> QED BY <1>2, <2>1, <2>2, Zenon DEF CloseDid
<1>3. CASE ~OpenFd(i)
  BY <1>1, <1>3, Zenon DEF Close, CloseDid
<1> QED BY <1>2, <1>3, Zenon

ByteAt(f, p) == IF f.fotp = "file" THEN Byte(f.inode, p - 1) ELSE Dentries[p].name
Moved(f, m) == [f EXCEPT !.fposition = f.fposition + m]
Delivered(i, m) ==
  /\ OpenFd(i) /\ fd[i].fotp \in {"file", "dir"} /\ m <= Size(fd[i]) - fd[i].fposition
  /\ fd[i].fotp = "dir" => m = 1
  /\ fd' = [fd EXCEPT ![i] = Moved(fd[i], m)]
  /\ ret'.data = [k \in 1 .. m |-> ByteAt(fd[i], fd[i].fposition + k)]
Nothing(i) == fd' = fd /\ ret'.data = <<>> /\ (OpenFd(i) \/ i = 0 \/ ret' = Value(-1))
ReadDid(i) == Nothing(i) \/ \E m \in Nat \ {0} : Delivered(i, m)

LEMMA Stays == ASSUME NEW i \in Fds, GoodTable(fd) PROVE Advance(i, 0) = fd
<1>1. fd \in [Fds -> Files] /\ fd[i] \in Files
  BY DEF GoodTable, Tables
<1>2. [fd[i] EXCEPT !.fposition = @ + 0] = fd[i]
  BY <1>1 DEF Files
<1>3. Advance(i, 0) = [fd EXCEPT ![i] = [fd[i] EXCEPT !.fposition = @ + 0]]
  BY DEF Advance
<1> QED BY <1>1, <1>2, <1>3

LEMMA FineFd ==
  ASSUME Fine(fd), GoodTable(fd), NEW i \in Fds, fd[i].flags # 0, fd[i].fotp \in {"file", "dir"}
  PROVE  /\ OpenFd(i) /\ fd[i] \in Files /\ fd[i].fposition \in Nat /\ Size(fd[i]) \in Nat
         /\ fd[i].fposition <= Size(fd[i])
<1>1. i # 0 /\ i # 1
  BY DEF Fine
<1>2. NumFds \in Nat
  BY TableFacts
<1>3. i \in 2 .. NumFds - 1
  BY <1>1, <1>2 DEF Fds
<1>4. OpenFd(i) /\ fd[i].fposition \in 0 .. Size(fd[i])
  BY <1>3, Zenon DEF OpenFd, Fine
<1>5. fd[i] \in Files /\ (fd[i].fotp = "file" => fd[i].inode \in DOMAIN Inodes)
  BY DEF GoodTable, Tables
<1>6. Size(fd[i]) \in Nat
  BY <1>5, SizeNat
<1> QED BY <1>4, <1>5, <1>6

LEMMA ValueData == ASSUME NEW v PROVE Value(v).data = <<>> /\ Value(v).val = v
BY DEF Value

LEMMA ResultFacts == \A v, x : [val |-> v, data |-> x].val = v /\ [val |-> v, data |-> x].data = x
OBVIOUS

LEMMA ByteAtFile == \A f, p : f.fotp = "file" => ByteAt(f, p) = Byte(f.inode, p - 1)
BY Zenon DEF ByteAt

LEMMA ReadDoes ==
  ASSUME NEW i, NEW n \in Int, Fine(fd), GoodTable(fd), Read(i, n)
  PROVE  ReadDid(i)
<1>1. CASE Usable(i) /\ fd[i].fotp = "file"
  <2> DEFINE f == fd[i]
             r == read_data(f.inode, f.fposition, Unsigned(n))
             m == BytesRead(f.inode, f.fposition, Unsigned(n))
             d == [k \in 1 .. m |-> Byte(f.inode, f.fposition + k - 1)]
             L == Inodes[f.inode].length
  <2>1. i \in Fds /\ ret' = r /\ fd' = Advance(i, r.val)
    BY <1>1 DEF Usable, Read, FileRead
  <2>2. OpenFd(i) /\ f \in Files /\ f.fposition \in Nat /\ Size(f) \in Nat /\ f.fposition <= Size(f)
    BY <1>1, <2>1, FineFd DEF Usable
  <2>3. f.inode \in DOMAIN Inodes /\ Size(f) = L
    BY <1>1, <2>1 DEF GoodTable, Size
  <2>4. Unsigned(n) \in Nat
    <3>1. Huge \in Nat
      BY ImageFacts
    <3> QED BY <3>1 DEF Unsigned
  <2>5. ~(NInodes < f.inode)
    <3>1. NInodes \in 0 .. 256 /\ DOMAIN Inodes = 0 .. NInodes - 1
      BY ImageAssumption, Zenon
    <3> QED BY <2>3, <3>1
  <2>6. /\ f.fposition >= L => r = [val |-> 0, data |-> <<>>]
        /\ ~(f.fposition >= L) => r = [val |-> m, data |-> d]
    BY <2>5, Zenon DEF read_data
  <2>7. m \in Int /\ m <= L - f.fposition /\ (~(f.fposition >= L) => m \in Nat)
    BY <2>2, <2>3, <2>4 DEF BytesRead
  <2>8. CASE f.fposition >= L \/ m = 0
    <3>1. r.val = 0 /\ r.data = <<>>
      <4>1. CASE f.fposition >= L
        BY <2>6, <4>1, ResultFacts, Zenon
      <4>2. CASE ~(f.fposition >= L)
        <5>1. r.val = m /\ r.data = d
          <6>1. r = [val |-> m, data |-> d]
            BY <2>6, <4>2, Zenon
          <6> HIDE DEF r, m, d
          <6> QED BY <6>1
        <5>2. m = 0
          BY <2>8, <4>2, Zenon
        <5>3. d = <<>>
          BY <5>2
        <5> QED BY <5>1, <5>2, <5>3, Zenon
      <4> QED BY <4>1, <4>2, Zenon
    <3> HIDE DEF r
    <3> QED BY <2>1, <2>2, <3>1, Stays, Zenon DEF ReadDid, Nothing
  <2>9. CASE ~(f.fposition >= L) /\ m # 0
    <3>1. r.val = m /\ r.data = d
      <4>1. r = [val |-> m, data |-> d]
        BY <2>6, <2>9, Zenon
      <4> HIDE DEF r, m, d
      <4> QED BY <4>1
    <3>2. m \in Nat \ {0} /\ m <= Size(f) - f.fposition
      BY <2>3, <2>7, <2>9
    <3>3. d = [k \in 1 .. m |-> ByteAt(f, f.fposition + k)]
      <4>1. \A k \in 1 .. m : ByteAt(f, f.fposition + k) = Byte(f.inode, f.fposition + k - 1)
        <5>1. f.fotp = "file"
          BY <1>1
        <5> HIDE DEF m, f
        <5> TAKE k \in 1 .. m
        <5> DEFINE p == f.fposition + k
        <5>2. ByteAt(f, p) = Byte(f.inode, p - 1)
          <6> HIDE DEF p
          <6> QED BY <5>1, ByteAtFile
        <5>3. p - 1 = f.fposition + k - 1
          BY <2>2, <2>7
        <5> QED BY <5>2, <5>3, Zenon
      <4> QED BY <4>1, Zenon
    <3>4. Advance(i, m) = [fd EXCEPT ![i] = Moved(f, m)]
      BY DEF Advance, Moved
    <3>5. f.fotp # "dir" /\ f.fotp \in {"file", "dir"}
      BY <1>1
    <3> HIDE DEF r, m, d
    <3>6. Delivered(i, m)
      BY <2>1, <2>2, <3>1, <3>2, <3>3, <3>4, <3>5, Zenon DEF Delivered
    <3> QED BY <3>2, <3>6, Zenon DEF ReadDid
  <2> QED BY <2>8, <2>9, Zenon
<1>2. CASE ~(Usable(i) /\ fd[i].fotp = "file") /\ Usable(i) /\ fd[i].fotp = "dir"
  <2> DEFINE f == fd[i]
             d == read_dentry_by_index(f.fposition)
  <2>1. i \in Fds /\ DirectoryRead(i)
    BY <1>2, Zenon DEF Usable, Read
  <2>2. OpenFd(i) /\ f \in Files /\ f.fposition \in Nat /\ Size(f) \in Nat /\ f.fposition <= Size(f)
    BY <1>2, <2>1, FineFd DEF Usable
  <2>3. Size(f) = Len(Dentries)
    BY <1>2 DEF Size
  <2>4. CASE IndexInDirectory(f.fposition)
    <3>1. d = Entry(f.fposition + 1)
      BY <2>4, Zenon DEF read_dentry_by_index
    <3>2. d.found /\ d.name = Dentries[f.fposition + 1].name
      BY <3>1 DEF Entry
    <3> HIDE DEF d
    <3>3. ret' = [val |-> 32, data |-> <<d.name>>] /\ fd' = Advance(i, 1)
      BY <2>1, <3>2, Zenon DEF DirectoryRead, d
    <3>4. ret'.data = [k \in 1 .. 1 |-> ByteAt(f, f.fposition + k)]
      <4>1. ret'.data = <<d.name>>
        BY <3>3, Zenon
      <4>2. ByteAt(f, f.fposition + 1) = d.name
        BY <1>2, <3>2, Zenon DEF ByteAt
      <4>3. [k \in 1 .. 1 |-> ByteAt(f, f.fposition + k)] = <<ByteAt(f, f.fposition + 1)>>
        OBVIOUS
      <4> QED BY <4>1, <4>2, <4>3, Zenon
    <3>5. 1 \in Nat \ {0} /\ 1 <= Size(f) - f.fposition
      BY <2>2, <2>3, <2>4 DEF IndexInDirectory
    <3>6. Advance(i, 1) = [fd EXCEPT ![i] = Moved(f, 1)]
      BY DEF Advance, Moved
    <3>7. f.fotp \in {"file", "dir"}
      BY <1>2
    <3>8. Delivered(i, 1)
      BY <2>2, <3>3, <3>4, <3>5, <3>6, <3>7, Zenon DEF Delivered
    <3> QED BY <3>5, <3>8, Zenon DEF ReadDid
  <2>5. CASE ~IndexInDirectory(f.fposition)
    <3>1. d = None
      BY <2>5, Zenon DEF read_dentry_by_index
    <3>2. ~None.found
      BY DEF None
    <3>3. ret' = Value(0) /\ fd' = fd
      BY <2>1, <3>1, <3>2, Zenon DEF DirectoryRead
    <3> QED BY <2>2, <3>3, ValueData, Zenon DEF ReadDid, Nothing
  <2> QED BY <2>4, <2>5, Zenon
<1>3. CASE ~(Usable(i) /\ fd[i].fotp = "file") /\ ~(Usable(i) /\ fd[i].fotp = "dir")
  <2>1. fd' = fd /\ ret' = Value(IF Usable(i) /\ fd[i].fotp # "stdout" THEN 0 ELSE -1)
    BY <1>3, Zenon DEF Read
  <2>2. ret'.data = <<>>
    BY <2>1, ValueData, Zenon
  <2>3. ASSUME ~OpenFd(i), i # 0 PROVE ret' = Value(-1)
    <3>1. NumFds \in Nat
      BY TableFacts
    <3>2. Usable(i) => i = 1
      BY <2>3, <3>1 DEF Usable, OpenFd, Fds
    <3>3. fd[1].fotp = "stdout"
      BY DEF Fine
    <3>4. ~(Usable(i) /\ fd[i].fotp # "stdout")
      BY <3>2, <3>3, Zenon
    <3> QED BY <2>1, <3>4, Zenon
  <2> QED BY <2>1, <2>2, <2>3, Zenon DEF ReadDid, Nothing
<1> QED BY <1>1, <1>2, <1>3, Zenon

(* The programs below stay as they are, with the same tables.              *)
SameBelow(n) == \A k \in 1 .. n : chain'[k].fd = chain[k].fd /\ chain'[k].prog = chain[k].prog
Pushed ==
  /\ Len(chain') = Len(chain) + 1 /\ SameBelow(Len(chain))
  /\ fd' = initFOTP(fd) /\ chain'[Len(chain) + 1].fd = fd' /\ ret' = Value(0)
Marked == Len(chain') = Len(chain) /\ SameBelow(Len(chain)) /\ fd' = fd /\ ret'.data = <<>>
Popped ==
  /\ Len(chain) > 1 /\ Len(chain') = Len(chain) - 1 /\ SameBelow(Len(chain) - 1)
  /\ fd' = chain[Len(chain) - 1].fd /\ ret' = Value(0)

LEMMA ChainFacts ==
  ASSUME Inv
  PROVE  chain \in Seq(Progs) /\ chain # <<>> /\ Len(chain) \in Nat \ {0} /\ GoodTable(fd)
<1>1. chain \in Seq(Progs) /\ chain # <<>> /\ GoodTable(fd)
  BY DEF Inv, TypeOK, TablesGood
<1> QED BY <1>1

LEMMA PushDoes ==
  ASSUME Inv, NEW p \in STRING, NEW b \in BOOLEAN,
         chain' = Append(chain, Started(p, b)), fd' = initFOTP(fd), ret' = Value(0)
  PROVE  Pushed /\ chain'[Len(chain) + 1].prog = p
<1> DEFINE n == Len(chain)
           c == Started(p, b)
<1>0. chain \in Seq(Progs) /\ chain # <<>> /\ n \in Nat \ {0} /\ GoodTable(fd)
  BY ChainFacts
<1>1. c \in Progs /\ c.fd = initFOTP(fd) /\ c.prog = p
  BY <1>0, StartedFacts
<1>2. chain' = Append(chain, c)
  OBVIOUS
<1> HIDE DEF c
<1>3. Len(chain') = n + 1 /\ chain'[n + 1] = c /\ \A k \in 1 .. n : chain'[k] = chain[k]
  BY <1>0, <1>1, <1>2, AppendProperties
<1> HIDE DEF n
<1> QED BY <1>1, <1>3, Zenon DEF Pushed, SameBelow, n

LEMMA FailsDoes ==
  ASSUME Inv, NEW name, NEW a, ExecuteFails(name, a)
  PROVE  Marked
<1>1. chain' = chain /\ fd' = fd /\ (ret' = Value(0) \/ ret' = Value(-1))
  BY Zenon DEF ExecuteFails
<1> QED BY <1>1, ValueData, Zenon DEF Marked, SameBelow

(* The shell that replaces a first shell has the table of that one.        *)
LEMMA HaltBaseDoes == ASSUME Inv, HaltBase PROVE Marked
<1> DEFINE n == Len(chain)
           c == Started(Shell, TRUE)
<1>0. chain \in Seq(Progs) /\ chain # <<>> /\ n \in Nat \ {0} /\ n \in 1 .. n /\ GoodTable(fd) /\ ChainOK(chain, fd)
  BY ChainFacts, InvFacts, LenFacts
<1>1. c \in Progs /\ c.fd = initFOTP(fd) /\ c.prog = Shell
  BY <1>0, TableFacts, StartedFacts, Zenon
<1>2. chain' = [chain EXCEPT ![n] = c] /\ fd' = initFOTP(fd) /\ ret' = Value(0) /\ chain[n].base
  BY DEF HaltBase, Running
<1> HIDE DEF c
<1>3. Len(chain') = n /\ chain'[n] = c /\ \A k \in 1 .. n : k # n => chain'[k] = chain[k]
  BY <1>0, <1>1, <1>2, ReplaceLast
<1>4. chain[n].prog = Shell
  BY <1>0, <1>2, Zenon DEF ChainOK, Shells
<1>5. fd = chain[n].fd /\ initFOTP(chain[n].fd) = chain[n].fd
  BY <1>0, <1>4 DEF ChainOK, Kept, EachGood
<1>6. \A k \in 1 .. n : chain'[k].fd = chain[k].fd /\ chain'[k].prog = chain[k].prog
  BY <1>1, <1>3, <1>4, <1>5, Zenon
<1> QED BY <1>2, <1>3, <1>5, <1>6, ValueData, Zenon DEF Marked, SameBelow

LEMMA HaltDoes == ASSUME Inv, Halt PROVE Popped
<1> DEFINE n == Len(chain)
<1>0. chain \in Seq(Progs) /\ chain # <<>> /\ n \in Nat \ {0}
  BY ChainFacts
<1>1. n # 1
  BY Zenon DEF Halt, Inv, BasesAreShells, Running
<1> HIDE DEF n
<1>2. chain' = SubSeq(chain, 1, n - 1) /\ fd' = chain[n - 1].fd /\ ret' = Value(0)
  BY DEF Halt, Callers, FdOnHalt, n
<1>3. Len(chain') = n - 1 /\ \A k \in 1 .. n - 1 : chain'[k] = chain[k]
  <2>1. n - 1 \in 1 .. n /\ n - 1 \in Nat \ {0} /\ \A k \in 1 .. n - 1 : k \in 1 .. n
    BY <1>0, <1>1
  <2>2. \A k \in 1 .. n - 1 : SubSeq(chain, 1, n - 1)[k] = chain[k]
    BY <1>0, <2>1 DEF n
  <2>3. Len(SubSeq(chain, 1, n - 1)) = n - 1
    BY <1>0, <2>1 DEF n
  <2> QED BY <1>2, <2>2, <2>3
<1>4. n > 1
  BY <1>0, <1>1
<1> QED BY <1>2, <1>3, <1>4, Zenon DEF Popped, SameBelow, n
-----------------------------------------------------------------------------
(* TablesFine is kept.                                                     *)
LEMMA FineUpdate ==
  ASSUME NEW t, GoodTable(t), Fine(t), NEW i \in 2 .. NumFds - 1, NEW f,
         f.flags # 0 => f.fposition \in 0 .. Size(f)
  PROVE  Fine([t EXCEPT ![i] = f])
<1> DEFINE u == [t EXCEPT ![i] = f]
<1>1. i \in Fds /\ i # 0 /\ i # 1
  <2>1. NumFds \in Nat
    BY TableFacts
  <2> QED BY <2>1, FdFacts
<1>2. u[i] = f /\ \A k \in Fds : k # i => u[k] = t[k]
  BY <1>1, Update DEF GoodTable
<1> HIDE DEF u
<1>3. u[0] = t[0] /\ u[1] = t[1]
  BY <1>1, <1>2, FdFacts, Zenon
<1>4. ASSUME NEW k \in 2 .. NumFds - 1, u[k].flags # 0 PROVE u[k].fposition \in 0 .. Size(u[k])
  <2>1. CASE k = i
    BY <1>2, <1>4, <2>1, Zenon
  <2>2. CASE k # i
    <3>1. u[k] = t[k]
      BY <1>2, <2>2, FdFacts, Zenon
    <3> QED BY <1>4, <3>1, Zenon DEF Fine
  <2> QED BY <2>1, <2>2
<1>5. Fine(u)
  BY <1>3, <1>4, Zenon DEF Fine
<1> QED BY <1>5 DEF u

LEMMA FineInit ==
  ASSUME NEW t, GoodTable(t), \A i \in 2 .. NumFds - 1 : t[i].flags # 0 => t[i].fposition \in 0 .. Size(t[i])
  PROVE  Fine(initFOTP(t)) /\ \A i \in 2 .. NumFds - 1 : initFOTP(t)[i] = t[i]
<1> DEFINE u == initFOTP(t)
<1>1. \A i \in Fds : i \notin {0, 1} => u[i] = t[i]
  BY InitFOTP, Zenon
<1>2. u[0].fotp = "stdin" /\ u[1].fotp = "stdout"
  <2>1. t \in [Fds -> Files]
    BY DEF GoodTable, Tables
  <2> QED BY <2>1, FdFacts DEF initFOTP
<1> HIDE DEF u
<1>3. \A i \in 2 .. NumFds - 1 : u[i] = t[i]
  <2>1. NumFds \in Nat
    BY TableFacts
  <2>2. \A i \in 2 .. NumFds - 1 : i \in Fds /\ i \notin {0, 1}
    BY <2>1, FdFacts
  <2> QED BY <1>1, <2>2, Zenon
<1>4. Fine(u)
  BY <1>2, <1>3, Zenon DEF Fine
<1> QED BY <1>3, <1>4 DEF u

LEMMA FineSame == ASSUME TablesFine, Fine(fd'), chain' = chain PROVE TablesFine'
BY DEF TablesFine, Fine, Size

LEMMA FineInitState == Init => TablesFine
<1> SUFFICES ASSUME Init PROVE TablesFine
  OBVIOUS
<1>1. GoodTable(NoFiles) /\ \A i \in Fds : NoFiles[i].flags = 0
  BY NoFilesGood
<1>2. \A i \in 2 .. NumFds - 1 : NoFiles[i].flags # 0 => NoFiles[i].fposition \in 0 .. Size(NoFiles[i])
  BY <1>1, FdFacts, Zenon
<1>3. Fine(initFOTP(NoFiles))
  BY <1>1, <1>2, FineInit
<1> DEFINE c == [prog |-> Shell, fd |-> initFOTP(NoFiles), base |-> TRUE]
<1>4. chain = <<c>> /\ fd = initFOTP(NoFiles) /\ c.fd = initFOTP(NoFiles)
  BY DEF Init
<1> HIDE DEF c
<1>5. \A k \in 1 .. Len(chain) : chain[k] = c
  BY <1>4
<1> QED BY <1>3, <1>4, <1>5, Zenon DEF TablesFine

LEMMA FinePos ==
  ASSUME NEW t, Fine(t)
  PROVE  \A i \in 2 .. NumFds - 1 : t[i].flags # 0 => t[i].fposition \in 0 .. Size(t[i])
BY DEF Fine

LEMMA ChainFine ==
  ASSUME Inv, TablesFine, Pushed \/ Marked \/ Popped
  PROVE  TablesFine'
<1> DEFINE n == Len(chain)
<1>0. n \in Nat \ {0} /\ GoodTable(fd)
  BY ChainFacts
<1>1. Fine(fd) /\ (\A k \in 1 .. n : Fine(chain[k].fd)) /\ Fine(initFOTP(fd))
  BY <1>0, FineInit, FinePos DEF TablesFine
<1>2. CASE Pushed
  <2>1. Len(chain') = n + 1 /\ SameBelow(n) /\ Fine(fd') /\ chain'[n + 1].fd = fd'
    BY <1>1, <1>2, Zenon DEF Pushed
  <2> HIDE DEF n
  <2>2. \A k \in 1 .. n + 1 : k \in 1 .. n \/ k = n + 1
    BY <1>0
  <2>3. \A k \in 1 .. n + 1 : Fine(chain'[k].fd)
    BY <1>1, <2>1, <2>2, Zenon DEF SameBelow
  <2> QED BY <2>1, <2>3 DEF TablesFine, Fine, Size
<1>3. CASE Marked
  <2>1. Len(chain') = n /\ SameBelow(n) /\ Fine(fd')
    BY <1>1, <1>3, Zenon DEF Marked
  <2>2. \A k \in 1 .. n : Fine(chain'[k].fd)
    BY <1>1, <2>1, Zenon DEF SameBelow
  <2> QED BY <2>1, <2>2 DEF TablesFine, Fine, Size
<1>5. CASE Popped
  <2>1. Len(chain') = n - 1 /\ SameBelow(n - 1) /\ fd' = chain[n - 1].fd /\ n > 1
    BY <1>5, Zenon DEF Popped
  <2> HIDE DEF n
  <2>2. (\A k \in 1 .. n - 1 : k \in 1 .. n) /\ n - 1 \in 1 .. n
    BY <1>0, <2>1
  <2>3. \A k \in 1 .. n - 1 : Fine(chain'[k].fd)
    BY <1>1, <2>1, <2>2, Zenon DEF SameBelow
  <2>4. Fine(fd')
    BY <1>1, <2>1, <2>2, Zenon
  <2> QED BY <2>1, <2>3, <2>4 DEF TablesFine, Fine, Size
<1> QED BY <1>2, <1>3, <1>5

LEMMA OpenFine == ASSUME Inv, TablesFine, NEW name, OpenDid(name), chain' = chain PROVE TablesFine'
<1>0. GoodTable(fd) /\ Fine(fd)
  BY DEF Inv, TablesGood, TablesFine
<1>1. CASE fd' = fd
  BY <1>0, <1>1, FineSame
<1>2. CASE \E i \in FreeIn(fd), h \in 1 .. Len(Dentries) :
              fd' = [fd EXCEPT ![i] = NewFile(Entry(h), NoFile)]
  <2>1. PICK i \in FreeIn(fd), h \in 1 .. Len(Dentries) :
               fd' = [fd EXCEPT ![i] = NewFile(Entry(h), NoFile)]
    BY <1>2, Zenon
  <2> DEFINE f == NewFile(Entry(h), NoFile)
  <2>2. f \in Files /\ f.fposition = 0 /\ f.inode \in DOMAIN Inodes
    BY NewFacts
  <2>3. i \in 2 .. NumFds - 1 /\ fd' = [fd EXCEPT ![i] = f]
    BY <2>1, FreeFacts
  <2> HIDE DEF f
  <2>4. f.fposition \in 0 .. Size(f)
    <3>1. Size(f) \in Nat
      BY <2>2, SizeNat
    <3> QED BY <2>2, <3>1
  <2>5. Fine(fd')
    BY <1>0, <2>3, <2>4, FineUpdate, Zenon
  <2> QED BY <2>5, FineSame
<1> QED BY <1>1, <1>2, Zenon DEF OpenDid

LEMMA CloseFine == ASSUME Inv, TablesFine, NEW i, CloseDid(i), chain' = chain PROVE TablesFine'
<1>0. GoodTable(fd) /\ Fine(fd)
  BY DEF Inv, TablesGood, TablesFine
<1>1. CASE fd' = fd
  BY <1>0, <1>1, FineSame
<1>2. CASE OpenFd(i) /\ fd' = [fd EXCEPT ![i] = [fd[i] EXCEPT !.flags = 0]]
  <2> DEFINE f == [fd[i] EXCEPT !.flags = 0]
  <2>1. i \in 2 .. NumFds - 1
    BY <1>2 DEF OpenFd
  <2>2. f.flags = 0
    <3>1. fd[i] \in Files
      BY <1>0, <2>1, FdFacts DEF GoodTable, Tables
    <3> QED BY <3>1 DEF Files
  <2>3. fd' = [fd EXCEPT ![i] = f]
    BY <1>2
  <2> HIDE DEF f
  <2>4. Fine(fd')
    BY <1>0, <2>1, <2>2, <2>3, FineUpdate, Zenon
  <2> QED BY <2>4, FineSame
<1> QED BY <1>1, <1>2, Zenon DEF CloseDid

LEMMA MovedFacts ==
  ASSUME NEW f \in Files, NEW m \in Nat
  PROVE  /\ Moved(f, m).fposition = f.fposition + m /\ Moved(f, m).fotp = f.fotp
         /\ Moved(f, m).inode = f.inode /\ Moved(f, m).flags = f.flags
         /\ Size(Moved(f, m)) = Size(f)
<1>1. /\ Moved(f, m).fposition = f.fposition + m /\ Moved(f, m).fotp = f.fotp
      /\ Moved(f, m).inode = f.inode /\ Moved(f, m).flags = f.flags
  BY DEF Moved, Files
<1> QED BY <1>1, Zenon DEF Size

LEMMA ReadFine == ASSUME Inv, TablesFine, NEW i, ReadDid(i), chain' = chain PROVE TablesFine'
<1>0. GoodTable(fd) /\ Fine(fd)
  BY DEF Inv, TablesGood, TablesFine
<1>1. CASE fd' = fd
  BY <1>0, <1>1, FineSame
<1>2. CASE \E m \in Nat \ {0} : Delivered(i, m)
  <2>1. PICK m \in Nat \ {0} : Delivered(i, m)
    BY <1>2, Zenon
  <2>2. OpenFd(i) /\ fd[i].fotp \in {"file", "dir"} /\ m <= Size(fd[i]) - fd[i].fposition
        /\ fd' = [fd EXCEPT ![i] = Moved(fd[i], m)]
    BY <2>1, Zenon DEF Delivered
  <2>3. i \in 2 .. NumFds - 1 /\ i \in Fds /\ fd[i].flags # 0
    BY <2>2, FdFacts, Zenon DEF OpenFd
  <2>4. fd[i] \in Files /\ fd[i].fposition \in Nat /\ Size(fd[i]) \in Nat
    BY <1>0, <2>2, <2>3, FineFd, Zenon
  <2> DEFINE f == Moved(fd[i], m)
  <2>5. f.fposition = fd[i].fposition + m /\ Size(f) = Size(fd[i])
    BY <2>4, MovedFacts
  <2>6. fd' = [fd EXCEPT ![i] = f]
    BY <2>2
  <2> HIDE DEF f
  <2>7. f.fposition \in 0 .. Size(f)
    BY <2>2, <2>4, <2>5
  <2>8. Fine(fd')
    BY <1>0, <2>3, <2>6, <2>7, FineUpdate, Zenon
  <2> QED BY <2>8, FineSame
<1> QED BY <1>1, <1>2, Zenon DEF ReadDid, Nothing
-----------------------------------------------------------------------------
(* One call of a test.                                                     *)
LEMMA DoInv ==
  ASSUME Inv, TablesFine, Running.prog # Shell, NEW c, c.op \in Ops, Do(c)
  PROVE  Inv' /\ TablesFine' /\ chain' = chain
<1>0. GoodTable(fd) /\ Fine(fd)
  BY DEF Inv, TablesGood, TablesFine
<1>1. CASE c.op = "open"
  <2>1. Open(c.x)
    BY <1>1 DEF Do
  <2>2. chain' = chain
    BY <2>1 DEF Open
  <2> QED BY <2>1, <2>2, OpenInv, OpenDoes, OpenFine, Zenon
<1>2. CASE c.op = "close"
  <2>1. Close(c.x)
    BY <1>2 DEF Do
  <2>2. chain' = chain
    BY <2>1 DEF Close
  <2> QED BY <2>1, <2>2, CloseInv, CloseDoes, CloseFine, Zenon
<1>3. CASE c.op = "read"
  <2>1. Read(c.x, 31) /\ 31 \in Int
    BY <1>3 DEF Do
  <2>2. chain' = chain
    BY <2>1 DEF Read
  <2> QED BY <1>0, <2>1, <2>2, ReadInv, ReadDoes, ReadFine, Zenon
<1>4. ASSUME UNCHANGED <<fd, arg, chain, wild>>, ret' = Value(0) \/ ret' = Value(-1)
      PROVE  Inv' /\ TablesFine' /\ chain' = chain
  BY <1>0, <1>4, QuietCallInv, FineSame
<1>5. CASE c.op = "write"
  <2>1. Write(c.x)
    BY <1>5 DEF Do
  <2> QED BY <1>4, <2>1, Zenon DEF Write
<1>6. CASE c.op = "vidmap"
  <2>1. Vidmap(c.x)
    BY <1>6 DEF Do
  <2> QED BY <1>4, <2>1, Zenon DEF Vidmap
<1>7. CASE c.op = "number"
  <2>1. Number(c.x)
    BY <1>7 DEF Do
  <2> QED BY <1>4, <2>1, Zenon DEF Number
<1>8. CASE c.op = "cnt"
  <2>1. UNCHANGED vars
    BY <1>8 DEF Do
  <2>2. fd' = fd /\ chain' = chain
    BY <2>1 DEF vars
  <2> QED BY <1>0, <2>1, <2>2, StutterInv, FineSame
<1> QED BY <1>1, <1>2, <1>3, <1>5, <1>6, <1>7, <1>8 DEF Ops

AllClosed == \A i \in 2 .. NumFds - 1 : fd[i].flags = 0
LEMMA RefusedDoes ==
  ASSUME Inv, TablesFine, AllClosed, NEW c, Refused(c), Do(c)
  PROVE  fd' = fd /\ ret'.val = -1
<1>0. GoodTable(fd) /\ Fine(fd) /\ \A i : ~OpenFd(i)
  BY DEF Inv, TablesGood, TablesFine, AllClosed, OpenFd
<1>1. CASE c.op = "read" /\ c.x \in Int \ {0}
  <2>1. Read(c.x, 31) /\ 31 \in Int /\ c.x # 0
    BY <1>1 DEF Do
  <2>2. ReadDid(c.x)
    BY <1>0, <2>1, ReadDoes, Zenon
  <2>3. fd' = fd /\ ret' = Value(-1)
    BY <1>0, <2>1, <2>2, Zenon DEF ReadDid, Nothing, Delivered
  <2> QED BY <2>3, ValueData, Zenon
<1>2. CASE c.op = "write" /\ c.x \in Int \ {1}
  <2>1. Write(c.x) /\ c.x # 1
    BY <1>2 DEF Do
  <2>2. Usable(c.x) => c.x = 0
    <3>1. NumFds \in Nat
      BY TableFacts
    <3> QED BY <2>1, <3>1 DEF Usable, Fds, AllClosed
  <2>3. ~(Usable(c.x) /\ fd[c.x].fotp # "stdin")
    BY <1>0, <2>2, Zenon DEF Fine
  <2> QED BY <2>1, <2>3, ValueData, Zenon DEF Write
<1>3. CASE c.op = "close"
  <2>1. Close(c.x)
    BY <1>3 DEF Do
  <2>2. CloseDid(c.x)
    BY <2>1, CloseDoes, Zenon
  <2> QED BY <1>0, <2>2, ValueData, Zenon DEF CloseDid
<1>4. CASE c.op = "open" /\ c.x \in {"helloo", "shel", ""}
  <2>1. Open(c.x)
    BY <1>4 DEF Do
  <2>2. OpenDid(c.x)
    BY <2>1, OpenDoes, Zenon
  <2>3. c.x \notin Names
    BY <1>4, TesterAssumption, Zenon
  <2> QED BY <2>2, <2>3, ValueData, Zenon DEF OpenDid
<1>5. CASE c.op = "vidmap" /\ c.x \in {0, KernelPtr}
  <2>1. Vidmap(c.x)
    BY <1>5 DEF Do
  <2>2. RefusedPtr(c.x)
    BY <1>5, BigFacts, Zenon
  <2> QED BY <2>1, <2>2, ValueData, Zenon DEF Vidmap
<1>6. CASE c.op = "number" /\ c.x \in {Big, -Big, 0}
  <2>1. Number(c.x)
    BY <1>6 DEF Do
  <2>2. ~Dispatched(c.x)
    BY <1>6, BigFacts, Zenon
  <2> QED BY <2>1, <2>2, ValueData, Zenon DEF Number
<1> QED BY <1>1, <1>2, <1>3, <1>4, <1>5, <1>6, Zenon DEF Refused

(* The calls of err_open_lots.                                             *)
Range2(j, i) == j - NumFds + 2 < i /\ i <= j + 1

LEMMA HoldsDef ==
  ASSUME NEW t, NEW j
  PROVE  Holds(t, j) <=> \A i \in 2 .. NumFds - 1 : t[i].flags = IF Range2(j, i) THEN 1 ELSE 0
BY Zenon DEF Holds, Range2

LEMMA HoldsUpdate ==
  ASSUME NEW t, GoodTable(t), NEW j, NEW j2, Holds(t, j), NEW i \in 2 .. NumFds - 1, NEW f,
         f.flags = IF Range2(j2, i) THEN 1 ELSE 0,
         \A k \in 2 .. NumFds - 1 : k # i => (Range2(j2, k) <=> Range2(j, k))
  PROVE  Holds([t EXCEPT ![i] = f], j2)
<1> DEFINE u == [t EXCEPT ![i] = f]
<1>1. u[i] = f /\ \A k \in 2 .. NumFds - 1 : k # i => u[k] = t[k]
  <2>1. i \in Fds
    BY FdFacts
  <2>2. u[i] = f /\ \A k \in Fds : k # i => u[k] = t[k]
    BY <2>1, Update DEF GoodTable
  <2> QED BY <2>2, FdFacts, Zenon
<1> HIDE DEF u
<1>2. \A k \in 2 .. NumFds - 1 : t[k].flags = IF Range2(j, k) THEN 1 ELSE 0
  BY HoldsDef
<1>3. \A k \in 2 .. NumFds - 1 : u[k].flags = IF Range2(j2, k) THEN 1 ELSE 0
  <2> TAKE k \in 2 .. NumFds - 1
  <2>1. CASE k = i
    BY <1>1, <2>1, Zenon
  <2>2. CASE k # i
    <3>1. u[k] = t[k] /\ (Range2(j2, k) <=> Range2(j, k))
      BY <1>1, <2>2, Zenon
    <3>2. t[k].flags = IF Range2(j, k) THEN 1 ELSE 0
      BY <1>2, Zenon
    <3> HIDE DEF Range2
    <3> QED BY <3>1, <3>2, Zenon
  <2> QED BY <2>1, <2>2
<1>4. Holds(u, j2)
  BY <1>3, HoldsDef, Zenon
<1> QED BY <1>4 DEF u

LEMMA LotsOpen ==
  ASSUME GoodTable(fd), NEW j \in 0 .. NumFds - 2, Holds(fd, j), OpenDid(".")
  PROVE  Holds(fd', j + 1) /\ (ret'.val = -1 <=> j = NumFds - 2)
<1>0. NumFds \in Nat /\ NumFds >= 3 /\ "." \in Names
  <2>1. "." \in Names
    BY TesterAssumption, Zenon
  <2> QED BY <2>1, LotsLenFacts
<1>1. \A i \in 2 .. NumFds - 1 : (Range2(j, i) <=> i <= j + 1) /\ (Range2(j + 1, i) <=> i <= j + 2)
  BY <1>0 DEF Range2
<1>2. \A i : i \in FreeIn(fd) <=> i \in 2 .. NumFds - 1 /\ i > j + 1
  <2>1. \A i \in 2 .. NumFds - 1 : fd[i].flags = IF Range2(j, i) THEN 1 ELSE 0
    BY HoldsDef
  <2>2. \A i \in 2 .. NumFds - 1 : fd[i].flags = 0 <=> ~Range2(j, i)
    BY <2>1
  <2>3. \A i \in 2 .. NumFds - 1 : i <= j + 1 <=> ~(i > j + 1)
    BY <1>0
  <2>4. \A i \in 2 .. NumFds - 1 : fd[i].flags = 0 <=> i > j + 1
    BY <1>1, <2>2, <2>3, Zenon
  <2> QED BY <2>4, Zenon DEF FreeIn
<1>3. CASE j = NumFds - 2
  <2>1. \A i : i \notin FreeIn(fd)
    BY <1>0, <1>2, <1>3
  <2>2. fd' = fd /\ ret' = Value(-1)
    BY <2>1, Zenon DEF OpenDid
  <2>3. \A i \in 2 .. NumFds - 1 : Range2(j + 1, i) <=> Range2(j, i)
    BY <1>0, <1>3 DEF Range2
  <2>4. Holds(fd', j + 1)
    BY <2>2, <2>3, HoldsDef, Zenon
  <2> QED BY <1>3, <2>2, <2>4, ValueData, Zenon
<1>4. CASE j # NumFds - 2
  <2>1. j + 2 \in FreeIn(fd)
    BY <1>0, <1>2, <1>4
  <2>2. FreeIn(fd) # {}
    BY <2>1
  <2>3. PICK i \in FreeIn(fd), h \in 1 .. Len(Dentries) :
               /\ \A k \in FreeIn(fd) : i <= k
               /\ fd' = [fd EXCEPT ![i] = NewFile(Entry(h), NoFile)] /\ ret' = Value(i)
    BY <1>0, <2>2, Zenon DEF OpenDid
  <2>4. i = j + 2 /\ i \in 2 .. NumFds - 1
    <3>1. i \in 2 .. NumFds - 1 /\ i > j + 1 /\ i <= j + 2
      BY <1>2, <2>1, <2>3, Zenon
    <3> QED BY <1>0, <3>1
  <2> DEFINE f == NewFile(Entry(h), NoFile)
  <2>5. f.flags = 1 /\ fd' = [fd EXCEPT ![i] = f]
    BY <2>3, NewFacts, Zenon
  <2> HIDE DEF f
  <2>6. Range2(j + 1, i) /\ \A k \in 2 .. NumFds - 1 : k # i => (Range2(j + 1, k) <=> Range2(j, k))
    BY <1>0, <1>4, <2>4 DEF Range2
  <2>7. Holds(fd', j + 1)
    <3>1. f.flags = IF Range2(j + 1, i) THEN 1 ELSE 0
      BY <2>5, <2>6, Zenon
    <3>2. i \in 2 .. NumFds - 1
      BY <2>4
    <3> QED BY <2>5, <2>6, <3>1, <3>2, HoldsUpdate, Zenon
  <2>8. ret'.val # -1
    <3>1. ret'.val = i
      BY <2>3, ValueData, Zenon
    <3> QED BY <1>0, <2>4, <3>1
  <2> QED BY <1>4, <2>7, <2>8, Zenon
<1> QED BY <1>3, <1>4, Zenon

LEMMA LotsClose ==
  ASSUME GoodTable(fd), NEW j \in NumFds - 1 .. 2 * NumFds - 4, Holds(fd, j), CloseDid(j + 1 - NumFds + 2)
  PROVE  Holds(fd', j + 1)
<1> DEFINE i == j + 1 - NumFds + 2
<1>0. NumFds \in Nat /\ NumFds >= 3
  BY LotsLenFacts
<1>1. i \in 2 .. NumFds - 1 /\ Range2(j, i) /\ ~Range2(j + 1, i)
      /\ \A k \in 2 .. NumFds - 1 : k # i => (Range2(j + 1, k) <=> Range2(j, k))
  BY <1>0 DEF Range2
<1>2. CloseDid(i)
  OBVIOUS
<1> HIDE DEF i
<1>3. OpenFd(i)
  <2>1. fd[i].flags = 1
    BY <1>1, HoldsDef, Zenon
  <2>2. fd[i].flags # 0
    BY <2>1
  <2> QED BY <1>1, <2>2, Zenon DEF OpenFd
<1> DEFINE f == [fd[i] EXCEPT !.flags = 0]
<1>4. fd' = [fd EXCEPT ![i] = f]
  BY <1>2, <1>3, Zenon DEF CloseDid
<1>5. f.flags = 0
  <2>1. fd[i] \in Files
    BY <1>1, FdFacts DEF GoodTable, Tables
  <2> QED BY <2>1 DEF Files
<1> HIDE DEF f
<1>6. f.flags = IF Range2(j + 1, i) THEN 1 ELSE 0
  BY <1>1, <1>5, Zenon
<1> QED BY <1>1, <1>4, <1>6, HoldsUpdate, Zenon

LEMMA ClosedEnds == ASSUME NEW j \in {0, LotsLen}, Holds(fd, j) PROVE AllClosed
<1>0. NumFds \in Nat /\ NumFds >= 3 /\ LotsLen = 2 * NumFds - 2
  BY LotsLenFacts
<1>1. \A i \in 2 .. NumFds - 1 : ~Range2(j, i)
  BY <1>0 DEF Range2
<1> QED BY <1>1, HoldsDef, Zenon DEF AllClosed

(* The next call of a test, and how far it brings err_open_lots.           *)
LEMMA NextCall ==
  ASSUME NEW n \in 0 .. 8, NEW k \in Nat \ {0}, k <= Len(Script[n])
  PROVE  \/ /\ Refused(Script[n][k]) /\ DoneAt(n, k + 1) = DoneAt(n, k)
            /\ DoneAt(n, k) \in {0, LotsLen}
         \/ \E p \in 1 .. LotsLen :
              Script[n][k] = LotsCall(p) /\ DoneAt(n, k) = p - 1 /\ DoneAt(n, k + 1) = p
<1> DEFINE s == Script[n]
           off == LotsFrom(n)
<1>0. LotsLen \in Nat /\ off \in Nat
  BY LotsLenFacts DEF LotsFrom
<1>1. CASE n \notin {0, 3}
  <2>1. Plain(s)
    BY <1>1, ScriptShape
  <2>2. Len(s) \in Nat
    BY <2>1 DEF Plain
  <2>3. k \in 1 .. Len(s)
    BY <2>2
  <2>4. Refused(s[k])
    BY <2>1, <2>3 DEF Plain
  <2>5. DoneAt(n, k + 1) = 0 /\ DoneAt(n, k) = 0
    BY <1>1, Zenon DEF DoneAt
  <2> QED BY <2>4, <2>5
<1>2. CASE n \in {0, 3}
  <2>1. HasLots(s, off)
    BY <1>2, ScriptShape
  <2>2. Len(s) \in Nat
    BY <2>1 DEF HasLots
  <2>3. k \in 1 .. Len(s)
    BY <2>2
  <2>4. IF k - off \in 1 .. LotsLen THEN s[k] = LotsCall(k - off) ELSE Refused(s[k])
    BY <2>1, <2>3, Zenon DEF HasLots
  <2>5. /\ DoneAt(n, k) = IF k - 1 - off < 0 THEN 0 ELSE IF k - 1 - off > LotsLen THEN LotsLen ELSE k - 1 - off
        /\ DoneAt(n, k + 1) = IF (k + 1) - 1 - off < 0 THEN 0
                              ELSE IF (k + 1) - 1 - off > LotsLen THEN LotsLen ELSE (k + 1) - 1 - off
    BY <1>2, Zenon DEF DoneAt
  <2> HIDE DEF off, s
  <2>6. CASE k - off \in 1 .. LotsLen
    <3>1. DoneAt(n, k) = (k - off) - 1 /\ DoneAt(n, k + 1) = k - off
      BY <1>0, <2>5, <2>6
    <3> QED BY <2>4, <2>6, <3>1, Zenon DEF s
  <2>7. CASE k - off \notin 1 .. LotsLen
    <3>1. DoneAt(n, k) \in {0, LotsLen} /\ DoneAt(n, k + 1) = DoneAt(n, k)
      BY <1>0, <2>5, <2>7
    <3> QED BY <2>4, <2>7, <3>1, Zenon DEF s
  <2> QED BY <2>6, <2>7
<1> QED BY <1>1, <1>2

LEMMA LotsCallFacts ==
  ASSUME NEW p
  PROVE  LET c == LotsCall(p) IN
         /\ p < NumFds => c.op = "open" /\ c.x = "." /\ c.want = "Counted"
         /\ ~(p < NumFds) /\ p < LotsLen => c.op = "close" /\ c.x = p - NumFds + 2 /\ c.want = "Ignored"
         /\ ~(p < NumFds) /\ ~(p < LotsLen) => c.op = "cnt" /\ c.x = 1 /\ c.want = "Ignored"
<1>1. CASE p < NumFds
  BY <1>1 DEF LotsCall, C
<1>2. CASE ~(p < NumFds) /\ p < LotsLen
  BY <1>2 DEF LotsCall, C
<1>3. CASE ~(p < NumFds) /\ ~(p < LotsLen)
  BY <1>3 DEF LotsCall, C
<1> QED BY <1>1, <1>2, <1>3, Zenon

(* A call keeps what is known of the test.                                 *)
LEMMA CallKeeps ==
  ASSUME Inv, TablesFine, NEW n \in 0 .. 8, NEW k \in Nat \ {0}, k <= Len(Script[n]),
         NEW c, c = Script[n][k], Do(c), ~failed, cnt = Missed(DoneAt(n, k)), Holds(fd, DoneAt(n, k)),
         cnt' = cnt + IF c.want = "Counted" /\ ret'.val = -1 THEN 1 ELSE 0,
         failed' = (failed \/ (c.want = "Fails" /\ ret'.val # -1) \/ (c.op = "cnt" /\ cnt # c.x))
  PROVE  ~failed' /\ cnt' = Missed(DoneAt(n, k + 1)) /\ Holds(fd', DoneAt(n, k + 1))
<1>0. GoodTable(fd) /\ NumFds \in Nat /\ NumFds >= 3 /\ LotsLen = 2 * NumFds - 2
  BY LotsLenFacts DEF Inv, TablesGood
<1>1. CASE Refused(c) /\ DoneAt(n, k + 1) = DoneAt(n, k) /\ DoneAt(n, k) \in {0, LotsLen}
  <2>1. AllClosed
    BY <1>1, ClosedEnds
  <2>2. fd' = fd /\ ret'.val = -1
    BY <1>1, <2>1, RefusedDoes, Zenon
  <2>3. c.want = "Fails" /\ c.op # "cnt"
    BY <1>1 DEF Refused
  <2>4. cnt' = cnt
    <3>1. ~(c.want = "Counted" /\ ret'.val = -1)
      BY <2>3
    <3>2. cnt \in Int
      BY DEF Missed
    <3> QED BY <3>1, <3>2
  <2>5. ~failed'
    BY <2>2, <2>3, Zenon
  <2> QED BY <1>1, <2>2, <2>4, <2>5, Zenon
<1>2. CASE \E p \in 1 .. LotsLen : c = LotsCall(p) /\ DoneAt(n, k) = p - 1 /\ DoneAt(n, k + 1) = p
  <2>1. PICK p \in 1 .. LotsLen : c = LotsCall(p) /\ DoneAt(n, k) = p - 1 /\ DoneAt(n, k + 1) = p
    BY <1>2, Zenon
  <2> DEFINE j == p - 1
  <2>2. j + 1 = p /\ j \in 0 .. LotsLen - 1 /\ cnt = Missed(j) /\ Holds(fd, j) /\ cnt \in Int
    <3>1. cnt = Missed(j) /\ Holds(fd, j)
      BY <2>1, Zenon
    <3>2. cnt \in Int
      BY DEF Missed
    <3> QED BY <1>0, <3>1, <3>2
  <2> HIDE DEF j
  <2>3. CASE p < NumFds
    <3>1. c.op = "open" /\ c.x = "." /\ c.want = "Counted"
      BY <2>1, <2>3, LotsCallFacts, Zenon
    <3>2. Open(".")
      BY <3>1 DEF Do
    <3>3. j \in 0 .. NumFds - 2
      BY <1>0, <2>2, <2>3
    <3>4. OpenDid(".")
      BY <3>2, OpenDoes, Zenon
    <3>5. Holds(fd', j + 1) /\ (ret'.val = -1 <=> j = NumFds - 2)
      BY <1>0, <2>2, <3>3, <3>4, LotsOpen, Zenon
    <3>6. cnt' = Missed(j + 1)
      <4>1. cnt' = cnt + IF j = NumFds - 2 THEN 1 ELSE 0
        BY <3>1, <3>5, Zenon
      <4> QED BY <1>0, <2>2, <3>3, <4>1 DEF Missed
    <3>7. ~failed'
      BY <3>1
    <3> QED BY <2>1, <2>2, <3>5, <3>6, <3>7, Zenon
  <2>4. CASE ~(p < NumFds) /\ p < LotsLen
    <3>1. c.op = "close" /\ c.x = p - NumFds + 2 /\ c.want = "Ignored"
      BY <2>1, <2>4, LotsCallFacts, Zenon
    <3>2. Close(c.x)
      BY <3>1 DEF Do
    <3>3. j \in NumFds - 1 .. 2 * NumFds - 4 /\ p - NumFds + 2 = j + 1 - NumFds + 2
      BY <1>0, <2>2, <2>4
    <3>4. CloseDid(j + 1 - NumFds + 2)
      BY <3>1, <3>2, <3>3, CloseDoes, Zenon
    <3>5. Holds(fd', j + 1)
      BY <1>0, <2>2, <3>3, <3>4, LotsClose, Zenon
    <3>6. cnt' = Missed(j + 1)
      <4>1. ~(c.want = "Counted" /\ ret'.val = -1)
        BY <3>1
      <4>2. cnt' = cnt
        BY <2>2, <4>1
      <4> QED BY <1>0, <2>2, <3>3, <4>2 DEF Missed
    <3>7. ~failed'
      BY <3>1
    <3> QED BY <2>1, <2>2, <3>5, <3>6, <3>7, Zenon
  <2>5. CASE ~(p < NumFds) /\ ~(p < LotsLen)
    <3>1. c.op = "cnt" /\ c.x = 1 /\ c.want = "Ignored"
      BY <2>1, <2>5, LotsCallFacts, Zenon
    <3>2. fd' = fd
      BY <3>1 DEF Do, vars
    <3>3. j = 2 * NumFds - 3
      BY <1>0, <2>2, <2>5
    <3>4. cnt = 1
      BY <1>0, <2>2, <3>3 DEF Missed
    <3>5. cnt' = cnt
      <4>1. ~(c.want = "Counted" /\ ret'.val = -1)
        BY <3>1
      <4> QED BY <2>2, <4>1
    <3>6. cnt' = Missed(j + 1)
      BY <1>0, <3>3, <3>4, <3>5 DEF Missed
    <3>7. \A i \in 2 .. NumFds - 1 : Range2(j + 1, i) <=> Range2(j, i)
      BY <1>0, <3>3 DEF Range2
    <3>8. Holds(fd', j + 1)
      BY <2>2, <3>2, <3>7, HoldsDef, Zenon
    <3>9. ~failed'
      BY <3>1, <3>4
    <3> QED BY <2>1, <2>2, <3>6, <3>8, <3>9, Zenon
  <2> QED BY <2>3, <2>4, <2>5, Zenon
<1> QED BY <1>1, <1>2, NextCall, Zenon

LEMMA CallOps ==
  ASSUME NEW n \in 0 .. 8, NEW k \in Nat \ {0}, k <= Len(Script[n])
  PROVE  Script[n][k].op \in Ops
<1> DEFINE c == Script[n][k]
<1>1. Refused(c) \/ \E p \in 1 .. LotsLen : c = LotsCall(p)
  BY NextCall, Zenon
<1> HIDE DEF c
<1>2. ASSUME Refused(c) PROVE c.op \in Ops
  BY <1>2 DEF Refused, Ops
<1>3. ASSUME \E p \in 1 .. LotsLen : c = LotsCall(p) PROVE c.op \in Ops
  <2>1. c.op = "open" \/ c.op = "close" \/ c.op = "cnt"
    BY <1>3, LotsCallFacts, Zenon
  <2> QED BY <2>1 DEF Ops
<1> QED BY <1>1, <1>2, <1>3 DEF c

LEMMA SameShells ==
  ASSUME chain' = chain
  PROVE  (FromCleanShell(chain, Len(chain)))' <=> FromCleanShell(chain, Len(chain))
BY DEF FromCleanShell

LEMMA TesterFacts == Tester \in Quiet /\ Tester # Shell
BY TesterAssumption, Zenon

LEMMA StepInv == ASSUME TInv, Step PROVE TInv'
<1> DEFINE c == Script[sel][at]
<1>1. Inv /\ TablesFine /\ InTest /\ sel \in 0 .. 8 /\ at \in Nat \ {0} /\ Running.prog = Tester
  BY DEF TInv, InTest, Step
<1>2. /\ phase = "run" /\ at <= Len(Script[sel]) /\ Do(c) /\ at' = at + 1 /\ phase' = phase /\ sel' = sel
      /\ cnt' = cnt + IF c.want = "Counted" /\ ret'.val = -1 THEN 1 ELSE 0
      /\ failed' = (failed \/ (c.want = "Fails" /\ ret'.val # -1) \/ (c.op = "cnt" /\ cnt # c.x))
  BY DEF Step
<1>3. c.op \in Ops /\ Running.prog # Shell
  BY <1>1, <1>2, CallOps, TesterFacts, Zenon
<1> HIDE DEF c
<1>4. Inv' /\ TablesFine' /\ chain' = chain
  BY <1>1, <1>2, <1>3, DoInv, Zenon
<1>5. sel' \in 0 .. 8 /\ at' \in Nat \ {0} /\ phase' # "select" /\ Running'.prog = Tester
  BY <1>1, <1>2, <1>4 DEF Running
<1>6. ASSUME (FromCleanShell(chain, Len(chain)))'
      PROVE  ~failed' /\ cnt' = Missed(DoneAt(sel, at + 1)) /\ Holds(fd', DoneAt(sel, at + 1))
  <2>1. FromCleanShell(chain, Len(chain))
    BY <1>4, <1>6, SameShells, Zenon
  <2>2. phase # "off"
    BY <1>2
  <2>3. ~failed /\ cnt = Missed(DoneAt(sel, at)) /\ Holds(fd, DoneAt(sel, at))
    BY <1>1, <2>1, <2>2, Zenon DEF InTest
  <2>4. c = Script[sel][at]
    BY DEF c
  <2> QED BY <1>1, <1>2, <2>3, <2>4, CallKeeps, Zenon
<1>7. InTest'
  BY <1>2, <1>5, <1>6, Zenon DEF InTest, Holds, Missed, DoneAt, LotsFrom
<1> QED BY <1>4, <1>7 DEF TInv

LEMMA SelectInv == ASSUME TInv, Select PROVE TInv'
<1>1. Inv /\ TablesFine /\ InTest /\ fd' = fd /\ chain' = chain /\ UNCHANGED vars
  BY DEF TInv, Select, vars
<1>2. Inv' /\ TablesFine'
  <2>1. Fine(fd)
    BY <1>1 DEF TablesFine
  <2> QED BY <1>1, <2>1, StutterInv, FineSame
<1>3. phase = "select" /\ phase' = "run" /\ at' = 1 /\ cnt' = cnt /\ failed' = failed /\ sel = 0 /\ at = 1
  BY <1>1 DEF Select, InTest
<1>4. sel' \in 0 .. 8 /\ at' \in Nat \ {0}
  <2>1. Len(Numbered) = 8
    BY DEF Numbered
  <2>2. \E n \in 0 .. 8 : sel' = n
    BY <2>1, Zenon DEF Select
  <2> QED BY <1>3, <2>2
<1>5. DoneAt(0, 1) = 0 /\ DoneAt(sel', 1) = 0
  <2>1. \A n \in 0 .. 8 : DoneAt(n, 1) = 0
    <3> TAKE n \in 0 .. 8
    <3>1. LotsFrom(n) \in {0, 6}
      BY DEF LotsFrom
    <3>2. 1 - 1 - LotsFrom(n) < 0 \/ 1 - 1 - LotsFrom(n) = 0
      BY <3>1
    <3>3. ~(0 > LotsLen) /\ ~(0 < 0)
      BY LotsLenFacts
    <3> QED BY <3>2, <3>3, Zenon DEF DoneAt
  <2>2. 0 \in 0 .. 8
    OBVIOUS
  <2> QED BY <1>4, <2>1, <2>2, Zenon
<1>6. phase # "off" /\ Running' = Running /\ phase' # "off" /\ phase' # "select"
  BY <1>1, <1>3 DEF Running
<1>7. ASSUME (FromCleanShell(chain, Len(chain)))'
      PROVE  ~failed' /\ cnt' = Missed(DoneAt(sel', at')) /\ Holds(fd', DoneAt(sel', at'))
  <2>1. FromCleanShell(chain, Len(chain))
    BY <1>1, <1>7, SameShells, Zenon
  <2>2. ~failed /\ cnt = Missed(DoneAt(sel, at)) /\ Holds(fd, DoneAt(sel, at))
    BY <1>1, <1>6, <2>1, Zenon DEF InTest
  <2> QED BY <1>1, <1>3, <1>5, <2>2, Zenon
<1>8. InTest'
  <2>1. Running'.prog = Tester
    BY <1>1, <1>6, Zenon DEF InTest
  <2> QED BY <1>4, <1>6, <1>7, <2>1, Zenon DEF InTest, Holds, Missed, DoneAt, LotsFrom
<1> QED BY <1>2, <1>8 DEF TInv

(* The tester is not running: what a step leaves to show.                  *)
LEMMA OffInTest == ASSUME phase' = "off", sel' \in 0 .. 8, at' \in Nat \ {0} PROVE InTest'
BY DEF InTest

LEMMA StopFacts == ASSUME Stop PROVE phase' = "off" /\ sel' \in 0 .. 8 /\ at' \in Nat \ {0}
BY TesterFacts DEF Stop, Begin

(* A call of another program.                                              *)
LEMMA FileCallFine == ASSUME Inv, TablesFine, FileCall PROVE TablesFine' /\ chain' = chain
<1>0. GoodTable(fd) /\ Fine(fd) /\ Counts \subseteq Int
  BY TableFacts DEF Inv, TablesGood, TablesFine
<1>1. CASE \E name \in OpenNames : Open(name)
  <2>1. PICK name \in OpenNames : Open(name)
    BY <1>1
  <2>2. chain' = chain /\ OpenDid(name)
    BY <2>1, OpenDoes, Zenon DEF Open
  <2> QED BY <2>2, OpenFine, Zenon
<1>2. CASE \E i \in Given : Close(i)
  <2>1. PICK i \in Given : Close(i)
    BY <1>2
  <2>2. chain' = chain /\ CloseDid(i)
    BY <2>1, CloseDoes, Zenon DEF Close
  <2> QED BY <2>2, CloseFine, Zenon
<1>3. CASE \E i \in Given : \E n \in Counts : Read(i, n)
  <2>1. PICK i \in Given : \E n \in Counts : Read(i, n)
    BY <1>3
  <2>2. PICK n \in Counts : Read(i, n)
    BY <2>1
  <2>3. chain' = chain /\ n \in Int
    BY <1>0, <2>2, Zenon DEF Read
  <2>4. ReadDid(i)
    BY <1>0, <2>2, <2>3, ReadDoes, Zenon
  <2> QED BY <2>3, <2>4, ReadFine, Zenon
<1>4. CASE (\E i \in Given : Write(i) \/ ClosePast(i)) \/ (\E n \in Counts : GetArgs(n))
  <2>1. fd' = fd /\ chain' = chain
    BY <1>4 DEF Write, GetArgs, ClosePast
  <2> QED BY <1>0, <2>1, FineSame
<1> QED BY <1>1, <1>2, <1>3, <1>4, Zenon DEF FileCall

LEMMA ExecutePushes ==
  ASSUME Inv, NEW name \in RunNames, NEW a \in Args, Execute(name, a)
  PROVE  Pushed /\ chain'[Len(chain) + 1].prog = name
<1>1. name \in STRING /\ a \in STRING /\ FALSE \in BOOLEAN
  BY TableFacts, Zenon
<1>2. chain' = Append(chain, Started(name, FALSE)) /\ fd' = initFOTP(fd) /\ ret' = Value(0)
  BY DEF Execute
<1> QED BY <1>1, <1>2, PushDoes, Zenon

LEMMA AltFirstPushes == ASSUME Inv, AltFirst PROVE Pushed
<1>1. Shell \in STRING /\ "" \in STRING /\ TRUE \in BOOLEAN
  BY TableFacts, Zenon
<1>2. chain' = Append(chain, Started(Shell, TRUE)) /\ fd' = initFOTP(fd) /\ ret' = Value(0)
  BY DEF AltFirst
<1> QED BY <1>1, <1>2, PushDoes, Zenon

(* The tester starts.                                                      *)
LEMMA ExecuteTInv ==
  ASSUME TInv, NEW name \in RunNames, NEW a \in Args, Execute(name, a), Begin(name)
  PROVE  TInv'
<1> DEFINE n == Len(chain)
<1>1. Inv /\ Inv' /\ Pushed /\ chain'[n + 1].prog = name /\ n \in Nat \ {0}
  BY ExecuteInv, ExecutePushes, ChainFacts DEF TInv
<1>2. TablesFine'
  BY <1>1, ChainFine DEF TInv
<1>3. sel' = 0 /\ at' = 1 /\ cnt' = 0 /\ ~failed' /\ (phase' # "off" => name = Tester)
  BY DEF Begin
<1>4. Len(chain') = n + 1 /\ chain'[n + 1].fd = fd' /\ Running'.prog = name
  BY <1>1, Zenon DEF Pushed, Running
<1>5. DoneAt(0, 1) = 0 /\ Missed(0) = 0
  BY LotsLenFacts DEF DoneAt, LotsFrom, Missed
<1>6. ASSUME (FromCleanShell(chain, Len(chain)))' PROVE Holds(fd', 0)
  <2>1. OnlyStd(fd')
    <3>1. CleanStart'
      BY <1>1 DEF Inv
    <3>2. n + 1 \in 1 .. n + 1
      BY <1>1
    <3> QED BY <1>4, <1>6, <3>1, <3>2 DEF CleanStart, FromCleanShell, OnlyStd
  <2>2. NumFds \in Nat
    BY TableFacts
  <2>3. \A i \in 2 .. NumFds - 1 : i \in Fds /\ i \notin {0, 1} /\ ~Range2(0, i)
    BY <2>2, FdFacts DEF Range2
  <2>4. \A i \in 2 .. NumFds - 1 : fd'[i].flags = IF Range2(0, i) THEN 1 ELSE 0
    BY <2>1, <2>3, Zenon DEF OnlyStd
  <2> QED BY <2>4, HoldsDef, Zenon
<1>7. InTest'
  <2>1. 0 \in 0 .. 8 /\ 1 \in Nat \ {0}
    OBVIOUS
  <2> QED BY <1>3, <1>4, <1>5, <1>6, <2>1, Zenon DEF InTest, Holds, Missed, DoneAt, LotsFrom
<1> QED BY <1>1, <1>2, <1>7 DEF TInv

LEMMA TInitInv == TInit => TInv
<1> SUFFICES ASSUME TInit PROVE TInv
  OBVIOUS
<1>1. Inv /\ TablesFine
  BY InitInv, FineInitState DEF TInit
<1>2. InTest
  BY DEF TInit, InTest
<1> QED BY <1>1, <1>2 DEF TInv

LEMMA TNextInv == TInv /\ [TNext]_allvars => TInv'
<1> SUFFICES ASSUME TInv, [TNext]_allvars PROVE TInv'
  OBVIOUS
<1>0. Inv /\ TablesFine /\ InTest /\ sel \in 0 .. 8 /\ at \in Nat \ {0}
  BY DEF TInv, InTest
<1>1. CASE Select
  BY <1>1, SelectInv
<1>2. CASE Step
  BY <1>2, StepInv
<1>3. CASE Running.prog \notin Quiet /\ FileCall /\ UNCHANGED test
  <2>1. Inv' /\ TablesFine'
    BY <1>0, <1>3, FileCallInv, FileCallFine
  <2>2. phase' = "off" /\ sel' = sel /\ at' = at
    BY <1>0, <1>3, TesterFacts, Zenon DEF InTest, test
  <2>3. InTest'
    BY <1>0, <2>2, OffInTest, Zenon
  <2> QED BY <2>1, <2>3 DEF TInv
<1>4. CASE phase = "off" /\ \E name \in RunNames, a \in Args : Execute(name, a) /\ Begin(name)
  BY <1>4, ExecuteTInv, Zenon
<1>5. CASE phase = "off" /\ \E name \in RunNames, a \in Args : ExecuteFails(name, a) /\ UNCHANGED test
  <2>1. Inv'
    BY <1>0, <1>5, FailsInv, Zenon
  <2>2. Marked
    BY <1>0, <1>5, FailsDoes, Zenon
  <2>3. phase' = "off" /\ sel' = sel /\ at' = at
    BY <1>5, Zenon DEF test
  <2>4. InTest'
    BY <1>0, <2>3, OffInTest, Zenon
  <2> QED BY <1>0, <2>1, <2>2, <2>4, ChainFine, Zenon DEF TInv
<1>6. CASE (AltFirst \/ HaltBase \/ Halt) /\ Stop
  <2>1. InTest'
    BY <1>6, StopFacts, OffInTest, Zenon
  <2>2. Inv' /\ TablesFine'
    BY <1>0, <1>6, AltFirstInv, HaltBaseInv, HaltInv, AltFirstPushes, HaltBaseDoes, HaltDoes, ChainFine, Zenon
  <2> QED BY <2>1, <2>2 DEF TInv
<1>7. CASE UNCHANGED allvars
  <2>1. UNCHANGED vars /\ UNCHANGED test /\ fd' = fd /\ chain' = chain
    BY <1>7 DEF allvars, vars
  <2>2. Inv' /\ TablesFine'
    BY <1>0, <2>1, StutterInv, FineSame DEF TablesFine
  <2>3. InTest'
    BY <1>0, <2>1 DEF InTest, test, Running, FromCleanShell, Holds, Missed, DoneAt, LotsFrom
  <2> QED BY <2>2, <2>3 DEF TInv
<1> QED BY <1>1, <1>2, <1>3, <1>4, <1>5, <1>6, <1>7, Zenon DEF TNext

LEMMA TInvAlways == TSpec => []TInv
BY TInitInv, TNextInv, PTL DEF TSpec
-----------------------------------------------------------------------------
(* Every error test passes when the tester is run by shells from a         *)
(* terminal whose first shell found no files open: six files can be opened *)
(* and not seven, every descriptor outside the table or not open is        *)
(* refused, and nothing a test did or a program that ran before on the     *)
(* terminal left is in the way of the next (ece391syserr.c:36-293,         *)
(* syscall.c:51-132).                                                      *)
THEOREM TestsPassAlways == TSpec => []TestsPass
<1>1. TInv => TestsPass
  BY DEF TInv, InTest, TestsPass
<1> QED BY <1>1, TInvAlways, PTL
-----------------------------------------------------------------------------
(* The bytes of a file as read_data computes them and as its blocks in     *)
(* order.                                                                  *)
LEMMA DivMod ==
  ASSUME NEW B \in Nat \ {0}, NEW q \in Nat, NEW r \in 0 .. B - 1
  PROVE  (q * B + r) \div B = q /\ (q * B + r) % B = r
<1>1. (q * B + r) \div B = q
  BY SMT
<1>2. (q * B + r) % B = r
  BY SMT
<1> QED BY <1>1, <1>2

LEMMA BlocksEnough ==
  ASSUME NEW B \in Nat \ {0}, NEW l \in Nat, NEW m \in Nat, l = 0 \/ (l - 1) \div B <= m - 1
  PROVE  l <= m * B
BY SMT

LEMMA TimesNext == ASSUME NEW B \in Nat \ {0}, NEW i \in Nat PROVE i * B \in Nat /\ i * B + B = (i + 1) * B
BY SMT

Cut(w, a, b) == [k \in 1 .. b - a |-> w[a + k]]
LEMMA SubSeqOf ==
  ASSUME NEW S, NEW w \in Seq(S), NEW a \in Nat, NEW b \in Nat, a <= b, b <= Len(w)
  PROVE  SubSeq(w, a + 1, b) = Cut(w, a, b)
<1> DEFINE u == SubSeq(w, a + 1, b)
<1>1. \A i \in a + 1 .. b : w[i] \in S
  OBVIOUS
<1>2. /\ u \in Seq(S) /\ Len(u) = IF a + 1 <= b THEN b - (a + 1) + 1 ELSE 0
      /\ \A i \in 1 .. b - (a + 1) + 1 : u[i] = w[(a + 1) + (i - 1)]
  BY <1>1, SubSeqProperties
<1> HIDE DEF u
<1>3. Len(u) = b - a /\ b - (a + 1) + 1 = b - a /\ \A i \in 1 .. b - a : (a + 1) + (i - 1) = a + i
  BY <1>2
<1>4. \A i \in 1 .. b - a : u[i] = w[a + i]
  BY <1>2, <1>3, Zenon
<1>5. u = [k \in 1 .. b - a |-> u[k]]
  BY <1>2, <1>3
<1>6. u = [k \in 1 .. b - a |-> w[a + k]]
  BY <1>4, <1>5
<1> QED BY <1>6 DEF u, Cut

Prefix(n, a) == [k \in 1 .. a |-> Byte(n, k - 1)]
Part(n, a, b) == [k \in 1 .. b |-> Byte(n, a + (k - 1))]
BlockOf(n, b) == [k \in 1 .. BlockSize |-> Blocks[Inodes[n].dblock[b - 1]][k - 1]]

LEMMA ByteOfBlock ==
  ASSUME NEW n, NEW q \in Nat, NEW r \in 0 .. BlockSize - 1
  PROVE  Byte(n, q * BlockSize + r) = Blocks[Inodes[n].dblock[q]][r]
<1>1. (q * BlockSize + r) \div BlockSize = q /\ (q * BlockSize + r) % BlockSize = r
  BY ImageFacts, DivMod, Zenon
<1> QED BY <1>1, Zenon DEF Byte

LEMMA BlockIsPart ==
  ASSUME NEW n, NEW q \in Nat
  PROVE  BlockOf(n, q + 1) = Part(n, q * BlockSize, BlockSize)
<1>1. \A k \in 1 .. BlockSize : k - 1 \in 0 .. BlockSize - 1
  BY ImageFacts
<1>2. (q + 1) - 1 = q
  OBVIOUS
<1>3. \A k \in 1 .. BlockSize : Blocks[Inodes[n].dblock[(q + 1) - 1]][k - 1] = Byte(n, q * BlockSize + (k - 1))
  <2> TAKE k \in 1 .. BlockSize
  <2> DEFINE r == k - 1
  <2>1. r \in 0 .. BlockSize - 1
    BY <1>1
  <2> HIDE DEF r
  <2>2. Byte(n, q * BlockSize + r) = Blocks[Inodes[n].dblock[q]][r]
    BY <2>1, ByteOfBlock, Zenon
  <2> QED BY <1>2, <2>2, Zenon DEF r
<1> QED BY <1>3, Zenon DEF BlockOf, Part

LEMMA PrefixSeq ==
  ASSUME NEW n, NEW a \in Nat
  PROVE  /\ Prefix(n, a) \in Seq({Byte(n, o) : o \in Int}) /\ Len(Prefix(n, a)) = a
         /\ \A k \in 1 .. a : Prefix(n, a)[k] = Byte(n, k - 1)
<1> DEFINE S == {Byte(n, o) : o \in Int}
<1>1. \A k \in 1 .. a : k - 1 \in Int
  OBVIOUS
<1>2. \A k \in 1 .. a : Byte(n, k - 1) \in S
  BY <1>1, Zenon
<1>3. Prefix(n, a) \in [1 .. a -> S] /\ \A k \in 1 .. a : Prefix(n, a)[k] = Byte(n, k - 1)
  BY <1>2, Zenon DEF Prefix
<1> HIDE DEF S
<1>4. Prefix(n, a) \in Seq(S) /\ Len(Prefix(n, a)) = a
  BY <1>3
<1> QED BY <1>3, <1>4 DEF S

LEMMA PartSeq ==
  ASSUME NEW n, NEW a \in Nat, NEW b \in Nat
  PROVE  /\ Part(n, a, b) \in Seq({Byte(n, o) : o \in Int}) /\ Len(Part(n, a, b)) = b
         /\ \A k \in 1 .. b : Part(n, a, b)[k] = Byte(n, a + (k - 1))
<1> DEFINE S == {Byte(n, o) : o \in Int}
<1>1. \A k \in 1 .. b : a + (k - 1) \in Int
  OBVIOUS
<1>2. \A k \in 1 .. b : Byte(n, a + (k - 1)) \in S
  BY <1>1, Zenon
<1>3. Part(n, a, b) \in [1 .. b -> S] /\ \A k \in 1 .. b : Part(n, a, b)[k] = Byte(n, a + (k - 1))
  BY <1>2, Zenon DEF Part
<1> HIDE DEF S
<1>4. Part(n, a, b) \in Seq(S) /\ Len(Part(n, a, b)) = b
  BY <1>3
<1> QED BY <1>3, <1>4 DEF S

LEMMA PrefixPart ==
  ASSUME NEW n, NEW a \in Nat, NEW b \in Nat
  PROVE  Prefix(n, a) \o Part(n, a, b) = Prefix(n, a + b)
<1> DEFINE S == {Byte(n, o) : o \in Int}
           u == Prefix(n, a)
           v == Part(n, a, b)
           w == Prefix(n, a + b)
<1>1. u \in Seq(S) /\ Len(u) = a /\ \A k \in 1 .. a : u[k] = Byte(n, k - 1)
  BY PrefixSeq
<1>2. v \in Seq(S) /\ Len(v) = b /\ \A k \in 1 .. b : v[k] = Byte(n, a + (k - 1))
  BY PartSeq
<1>3. a + b \in Nat
  OBVIOUS
<1>4. w \in Seq(S) /\ Len(w) = a + b /\ \A k \in 1 .. a + b : w[k] = Byte(n, k - 1)
  BY <1>3, PrefixSeq
<1> HIDE DEF S, u, v, w
<1>5. /\ u \o v \in Seq(S) /\ Len(u \o v) = a + b
      /\ \A k \in 1 .. a + b : (u \o v)[k] = IF k <= a THEN u[k] ELSE v[k - a]
  <2>1. /\ u \o v \in Seq(S) /\ Len(u \o v) = Len(u) + Len(v)
        /\ \A k \in 1 .. Len(u) + Len(v) : (u \o v)[k] = IF k <= Len(u) THEN u[k] ELSE v[k - Len(u)]
    BY <1>1, <1>2, ConcatProperties
  <2>2. Len(u) = a /\ Len(v) = b
    BY <1>1, <1>2
  <2> QED BY <2>1, <2>2, Zenon
<1>6. ASSUME NEW k \in 1 .. a + b PROVE (u \o v)[k] = w[k]
  <2>1. CASE k <= a
    <3>1. k \in 1 .. a
      BY <2>1
    <3> QED BY <1>1, <1>4, <1>5, <2>1, <3>1, Zenon
  <2>2. CASE ~(k <= a)
    <3>1. k - a \in 1 .. b /\ a + ((k - a) - 1) = k - 1
      BY <2>2
    <3>2. v[k - a] = Byte(n, a + ((k - a) - 1))
      BY <1>2, <3>1, Zenon
    <3> QED BY <1>4, <1>5, <2>2, <3>1, <3>2, Zenon
  <2> QED BY <2>1, <2>2
<1>7. u \o v = w
  <2>1. Len(u \o v) = Len(w) /\ \A k \in 1 .. Len(u \o v) : (u \o v)[k] = w[k]
    BY <1>4, <1>5, <1>6, Zenon
  <2> QED BY <1>4, <1>5, <2>1, SeqEqual, Zenon
<1> QED BY <1>7 DEF u, v, w

LEMMA BlocksThere ==
  ASSUME NEW n \in DOMAIN Inodes, NEW b \in 0 .. (Inodes[n].length - 1) \div BlockSize
  PROVE  b \in DOMAIN Inodes[n].dblock
<1>1. \A k \in DOMAIN Inodes : \A c \in 0 .. (Inodes[k].length - 1) \div BlockSize :
        c \in DOMAIN Inodes[k].dblock /\ Inodes[k].dblock[c] \in DOMAIN Blocks
  BY ImageAssumption, Zenon
<1> QED BY <1>1, Zenon

(* The number of blocks of a node.                                         *)
LEMMA BlockCount ==
  ASSUME NEW n \in DOMAIN Inodes
  PROVE  \E m \in Nat : /\ Cardinality(DOMAIN Inodes[n].dblock) = m
                        /\ Inodes[n].length \in Nat /\ Inodes[n].length <= m * BlockSize
<1>1. PICK m \in 0 .. 1023 : DOMAIN Inodes[n].dblock = 0 .. m - 1
  BY ImageAssumption, Zenon
<1>2. m \in Nat /\ Inodes[n].length \in Nat /\ BlockSize \in Nat \ {0}
  BY ImageFacts
<1>3. Cardinality(0 .. m - 1) = m
  <2>1. 0 \in Int /\ m - 1 \in Int
    BY <1>2
  <2>2. Cardinality(0 .. m - 1) = IF 0 > m - 1 THEN 0 ELSE m - 1 - 0 + 1
    BY <2>1, FS_Interval
  <2> QED BY <1>2, <2>2
<1> DEFINE l == Inodes[n].length
<1>4. l = 0 \/ (l - 1) \div BlockSize <= m - 1
  <2> SUFFICES ASSUME l # 0 PROVE (l - 1) \div BlockSize <= m - 1
    OBVIOUS
  <2> DEFINE b == (l - 1) \div BlockSize
  <2>1. b \in 0 .. b
    <3> HIDE DEF l
    <3>1. l - 1 \in Nat
      BY <1>2 DEF l
    <3>2. b \in Nat
      BY <1>2, <3>1, SMT
    <3> HIDE DEF b
    <3> QED BY <3>2
  <2>2. \A c \in 0 .. b : c \in DOMAIN Inodes[n].dblock
    BY BlocksThere
  <2> HIDE DEF b
  <2>3. b \in 0 .. m - 1
    BY <1>1, <2>1, <2>2, Zenon
  <2>4. b <= m - 1
    BY <1>2, <2>3
  <2> QED BY <2>4 DEF b
<1>5. l <= m * BlockSize
  <2> HIDE DEF l
  <2>1. l \in Nat
    BY <1>2 DEF l
  <2> QED BY <1>2, <1>4, <2>1, BlocksEnough, Zenon
<1> QED BY <1>1, <1>2, <1>3, <1>5, Zenon

LEMMA ContentIs == ASSUME NEW n \in DOMAIN Inodes PROVE Content[n] = Prefix(n, Inodes[n].length)
<1> DEFINE L == Inodes[n].length
           B == BlockSize
<1>0. B \in Nat \ {0}
  BY ImageFacts
<1>1. PICK m \in Nat : Cardinality(DOMAIN Inodes[n].dblock) = m /\ L \in Nat /\ L <= m * B
  BY BlockCount, Zenon
<1> DEFINE s == [b \in 1 .. m |-> BlockOf(n, b)]
           g == [i \in 1 .. m |-> Prefix(n, i * B)]
<1>2. Content[n] = SubSeq(FlattenSeq(s), 1, L)
  BY <1>1, Zenon DEF Content, BlockOf
<1>3. Len(s) = m
  BY <1>1
<1> HIDE DEF L, B
<1>4. CASE m = 0
  <2>1. L = 0
    BY <1>0, <1>1, <1>4
  <2>2. Content[n] = <<>>
    BY <1>2, <2>1
  <2>3. Prefix(n, 0) = <<>>
    BY DEF Prefix
  <2> QED BY <2>1, <2>2, <2>3, Zenon DEF L
<1>5. CASE m # 0
  <2>1. ASSUME NEW i \in 1 .. m PROVE g[i] = IF i = 1 THEN s[i] ELSE g[i - 1] \o s[i]
    <3>0. g[i] = Prefix(n, i * B) /\ s[i] = BlockOf(n, i)
      BY Zenon
    <3>1. i - 1 \in Nat /\ (i - 1) + 1 = i
      BY <1>1
    <3>2. (i - 1) * B \in Nat /\ (i - 1) * B + B = i * B
      BY <1>0, <3>1, TimesNext, Zenon
    <3>3. s[i] = Part(n, (i - 1) * B, B)
      BY <3>0, <3>1, BlockIsPart, Zenon DEF B
    <3>4. Prefix(n, (i - 1) * B) \o s[i] = Prefix(n, i * B)
      <4>1. B \in Nat
        BY <1>0
      <4> QED BY <3>2, <3>3, <4>1, PrefixPart, Zenon
    <3>5. CASE i = 1
      <4>1. (i - 1) * B = 0
        BY <1>0, <3>5
      <4>2. Prefix(n, i * B) = s[i]
        <5>1. \A k \in 1 .. B : 0 + (k - 1) = k - 1
          BY <1>0
        <5>2. i * B = B
          BY <1>0, <3>5
        <5>3. s[i] = Part(n, 0, B)
          BY <3>3, <4>1, Zenon
        <5>4. Part(n, 0, B) = Prefix(n, B)
          BY <5>1, Zenon DEF Part, Prefix
        <5> QED BY <5>2, <5>3, <5>4, Zenon
      <4> QED BY <3>0, <3>5, <4>2, Zenon
    <3>6. CASE i # 1
      <4>1. i - 1 \in 1 .. m
        BY <1>1, <3>6
      <4>2. g[i - 1] = Prefix(n, (i - 1) * B)
        BY <4>1, Zenon
      <4> QED BY <3>0, <3>4, <3>6, <4>2, Zenon
    <3> QED BY <3>5, <3>6
  <2>2. Solves(g, s, m)
    BY <2>1 DEF Solves
  <2>3. m \in Nat \ {0} /\ m \in 1 .. m
    BY <1>5
  <2>4. FlattenSeq(s) = Prefix(n, m * B)
    <3>1. g[m] = Prefix(n, m * B)
      BY <2>3, Zenon
    <3> HIDE DEF g, s
    <3> QED BY <1>3, <2>2, <2>3, <3>1, Flatten, Zenon
  <2>5. SubSeq(Prefix(n, m * B), 1, L) = Prefix(n, L)
    <3>1. m * B \in Nat
      BY <1>0, TimesNext, Zenon
    <3>2. Prefix(n, m * B) \in Seq({Byte(n, o) : o \in Int}) /\ Len(Prefix(n, m * B)) = m * B
          /\ \A k \in 1 .. m * B : Prefix(n, m * B)[k] = Byte(n, k - 1)
      BY <3>1, PrefixSeq
    <3>3. L \in Nat /\ L <= m * B
      BY <1>1 DEF B
    <3> DEFINE N == m * B
               p == Prefix(n, N)
               S == {Byte(n, o) : o \in Int}
    <3>4. N \in Nat /\ L <= N /\ p \in Seq(S) /\ Len(p) = N
          /\ \A k \in 1 .. N : p[k] = Byte(n, k - 1)
      BY <3>1, <3>2, <3>3
    <3> HIDE DEF N, p, S
    <3>5. SubSeq(p, 0 + 1, L) = Cut(p, 0, L)
      <4>1. 0 \in Nat /\ 0 <= L /\ L <= Len(p)
        BY <3>3, <3>4
      <4> QED BY <3>3, <3>4, <4>1, SubSeqOf, Zenon
    <3>6. 0 + 1 = 1 /\ L - 0 = L /\ \A k \in 1 .. L : 0 + k = k /\ k \in 1 .. N
      BY <3>3, <3>4
    <3>7. \A k \in 1 .. L : p[0 + k] = Byte(n, k - 1)
      BY <3>4, <3>6, Zenon
    <3>8. SubSeq(p, 1, L) = [k \in 1 .. L |-> p[0 + k]]
      BY <3>5, <3>6, Zenon DEF Cut
    <3> QED BY <3>7, <3>8, Zenon DEF Prefix, p, N
  <2> QED BY <1>2, <2>4, <2>5, Zenon DEF L
<1> QED BY <1>4, <1>5
-----------------------------------------------------------------------------
(* A descriptor as a stream: the rest of its file from the position on.    *)
Shut == [step |-> -1, rest |-> <<>>]
StepOf(f) == IF f.fotp = "dir" THEN 1 ELSE 0
AllOf(f) == [k \in 1 .. Size(f) |-> ByteAt(f, k)]
RestOf(f) == [k \in 1 .. Size(f) - f.fposition |-> ByteAt(f, f.fposition + k)]
Rec(a, r) == [step |-> a, rest |-> r]
View(f) == IF f.flags = 0 THEN Shut ELSE [Whole(f) EXCEPT !.rest = SubSeq(@, f.fposition + 1, Len(@))]

LEMMA RecFacts ==
  \A a, r, q : Rec(a, r).step = a /\ Rec(a, r).rest = r /\ [Rec(a, r) EXCEPT !.rest = q] = Rec(a, q)
BY DEF Rec

LEMMA StreamsView == ASSUME NEW t PROVE Streams(t) = [i \in 2 .. NumFds - 1 |-> View(t[i])]
BY Zenon DEF Streams, View, Shut

LEMMA WholeIs ==
  ASSUME NEW f \in Files, f.fotp = "file" => f.inode \in DOMAIN Inodes
  PROVE  Whole(f) = Rec(StepOf(f), AllOf(f))
<1>1. CASE f.fotp = "file"
  <2>1. Whole(f) = Rec(0, Content[f.inode]) /\ StepOf(f) = 0
    BY <1>1 DEF Whole, StepOf, Rec
  <2>2. Size(f) = Inodes[f.inode].length
    BY <1>1 DEF Size
  <2>3. \A k : ByteAt(f, k) = Byte(f.inode, k - 1)
    BY <1>1, ByteAtFile, Zenon
  <2>4. Content[f.inode] = Prefix(f.inode, Size(f))
    BY <1>1, <2>2, ContentIs, Zenon
  <2>5. AllOf(f) = Prefix(f.inode, Size(f))
    BY <2>3, Zenon DEF AllOf, Prefix
  <2> QED BY <2>1, <2>4, <2>5, Zenon
<1>2. CASE f.fotp = "dir"
  <2>1. Whole(f) = Rec(1, [k \in 1 .. Len(Dentries) |-> Dentries[k].name]) /\ StepOf(f) = 1
    BY <1>2 DEF Whole, StepOf, Rec
  <2>2. Size(f) = Len(Dentries)
    BY <1>2 DEF Size
  <2>3. \A k : ByteAt(f, k) = Dentries[k].name
    BY <1>2 DEF ByteAt
  <2>4. AllOf(f) = [k \in 1 .. Len(Dentries) |-> Dentries[k].name]
    BY <2>2, <2>3, Zenon DEF AllOf
  <2> QED BY <2>1, <2>4, Zenon
<1>3. CASE f.fotp # "file" /\ f.fotp # "dir"
  <2>1. Whole(f) = Rec(0, <<>>) /\ StepOf(f) = 0 /\ Size(f) = 0
    BY <1>3 DEF Whole, StepOf, Rec, Size
  <2>2. AllOf(f) = <<>>
    <3>1. 1 .. Size(f) = {}
      BY <2>1
    <3> QED BY <3>1 DEF AllOf
  <2> QED BY <2>1, <2>2, Zenon
<1> QED BY <1>1, <1>2, <1>3, Zenon

LEMMA AllSeq ==
  ASSUME NEW f, Size(f) \in Nat
  PROVE  /\ AllOf(f) \in Seq({ByteAt(f, k) : k \in Int}) /\ Len(AllOf(f)) = Size(f)
         /\ \A k \in 1 .. Size(f) : AllOf(f)[k] = ByteAt(f, k)
<1> DEFINE S == {ByteAt(f, k) : k \in Int}
           n == Size(f)
<1>1. \A k \in 1 .. n : ByteAt(f, k) \in S
  <2>1. \A k \in 1 .. n : k \in Int
    OBVIOUS
  <2> QED BY <2>1, Zenon
<1>2. AllOf(f) \in [1 .. n -> S] /\ \A k \in 1 .. n : AllOf(f)[k] = ByteAt(f, k)
  BY <1>1, Zenon DEF AllOf
<1> HIDE DEF S
<1>3. AllOf(f) \in Seq(S) /\ Len(AllOf(f)) = n
  BY <1>2
<1> QED BY <1>2, <1>3 DEF S

LEMMA CutAll ==
  ASSUME NEW f, Size(f) \in Nat, NEW p \in 0 .. Size(f)
  PROVE  SubSeq(AllOf(f), p + 1, Len(AllOf(f))) = [k \in 1 .. Size(f) - p |-> ByteAt(f, p + k)]
<1> DEFINE w == AllOf(f)
           n == Size(f)
           S == {ByteAt(f, k) : k \in Int}
<1>1. w \in Seq(S) /\ Len(w) = n /\ \A k \in 1 .. n : w[k] = ByteAt(f, k)
  BY AllSeq
<1>2. n \in Nat /\ p \in Nat /\ p <= n /\ n <= Len(w)
  BY <1>1
<1> HIDE DEF w, n, S
<1>3. SubSeq(w, p + 1, n) = Cut(w, p, n)
  BY <1>1, <1>2, SubSeqOf, Zenon
<1>4. \A k \in 1 .. n - p : p + k \in 1 .. n
  BY <1>2
<1>5. \A k \in 1 .. n - p : w[p + k] = ByteAt(f, p + k)
  BY <1>1, <1>4, Zenon
<1>6. Cut(w, p, n) = [k \in 1 .. n - p |-> ByteAt(f, p + k)]
  BY <1>5, Zenon DEF Cut
<1> QED BY <1>1, <1>3, <1>6, Zenon DEF w, n

LEMMA ViewIs ==
  ASSUME NEW f \in Files, f.fotp = "file" => f.inode \in DOMAIN Inodes, f.flags # 0,
         f.fposition \in 0 .. Size(f)
  PROVE  View(f) = Rec(StepOf(f), RestOf(f))
<1> DEFINE a == StepOf(f)
           r == AllOf(f)
           q == SubSeq(r, f.fposition + 1, Len(r))
           W == Whole(f)
<1>1. W = Rec(a, r)
  BY WholeIs
<1>2. Size(f) \in Nat
  BY SizeNat
<1>3. q = RestOf(f)
  BY <1>2, CutAll DEF RestOf
<1>4. View(f) = [W EXCEPT !.rest = SubSeq(W.rest, f.fposition + 1, Len(W.rest))]
  BY DEF View
<1> HIDE DEF a, r, W
<1>5. W.rest = r
  BY <1>1, RecFacts
<1>6. View(f) = [W EXCEPT !.rest = q]
  BY <1>4, <1>5
<1> HIDE DEF q
<1>7. View(f) = Rec(a, q)
  BY <1>1, <1>6 DEF Rec
<1> QED BY <1>3, <1>7 DEF a

LEMMA NewView ==
  ASSUME NEW h \in 1 .. Len(Dentries)
  PROVE  View(NewFile(Entry(h), NoFile)) \in Opened
<1> DEFINE f == NewFile(Entry(h), NoFile)
<1>1. f \in Files /\ f.fposition = 0 /\ f.flags = 1 /\ f.inode \in DOMAIN Inodes
  BY NewFacts
<1>2. Whole(f) \in Opened
  BY Zenon DEF Opened
<1> HIDE DEF f
<1>3. Size(f) \in Nat
  BY <1>1, SizeNat
<1>4. f.flags # 0 /\ f.fposition \in 0 .. Size(f)
  BY <1>1, <1>3
<1>5. RestOf(f) = AllOf(f)
  <2>1. Size(f) - f.fposition = Size(f) /\ \A k \in 1 .. Size(f) : f.fposition + k = k
    BY <1>1, <1>3
  <2> QED BY <2>1, Zenon DEF RestOf, AllOf
<1>6. View(f) = Whole(f)
  BY <1>1, <1>4, <1>5, ViewIs, WholeIs, Zenon
<1> QED BY <1>2, <1>6, Zenon DEF f

LEMMA StreamsUpdate ==
  ASSUME NEW t \in Tables, NEW i \in 2 .. NumFds - 1, NEW f
  PROVE  Streams([t EXCEPT ![i] = f]) = [Streams(t) EXCEPT ![i] = View(f)]
<1> DEFINE u == [t EXCEPT ![i] = f]
           J == 2 .. NumFds - 1
<1>1. u[i] = f /\ \A k \in J : k # i => u[k] = t[k]
  <2>1. i \in Fds
    BY FdFacts
  <2>2. u[i] = f /\ \A k \in Fds : k # i => u[k] = t[k]
    BY <2>1, Update
  <2> QED BY <2>2, FdFacts, Zenon
<1>2. Streams(u) = [k \in J |-> View(u[k])] /\ Streams(t) = [k \in J |-> View(t[k])]
  BY StreamsView
<1> HIDE DEF u, J
<1>3. i \in J
  BY DEF J
<1>4. [Streams(t) EXCEPT ![i] = View(f)] = [k \in J |-> IF k = i THEN View(f) ELSE View(t[k])]
  BY <1>2, <1>3
<1>5. \A k \in J : View(u[k]) = IF k = i THEN View(f) ELSE View(t[k])
  BY <1>1, Zenon
<1>6. Streams(u) = [k \in J |-> IF k = i THEN View(f) ELSE View(t[k])]
  BY <1>2, <1>5, Zenon
<1> QED BY <1>4, <1>6, Zenon DEF u

LEMMA StreamsInit == ASSUME NEW t, GoodTable(t) PROVE Streams(initFOTP(t)) = Streams(t)
<1>1. \A i \in 2 .. NumFds - 1 : initFOTP(t)[i] = t[i]
  <2>1. \A i \in Fds : i \notin {0, 1} => initFOTP(t)[i] = t[i]
    BY InitFOTP, Zenon
  <2>2. NumFds \in Nat
    BY TableFacts
  <2>3. \A i \in 2 .. NumFds - 1 : i \in Fds /\ i \notin {0, 1}
    BY <2>2, FdFacts
  <2> QED BY <2>1, <2>3, Zenon
<1>2. Streams(initFOTP(t)) = [i \in 2 .. NumFds - 1 |-> View(initFOTP(t)[i])]
      /\ Streams(t) = [i \in 2 .. NumFds - 1 |-> View(t[i])]
  BY StreamsView, Zenon
<1>3. \A i \in 2 .. NumFds - 1 : View(initFOTP(t)[i]) = View(t[i])
  BY <1>1, Zenon
<1> QED BY <1>2, <1>3, Zenon
-----------------------------------------------------------------------------
(* Open, close and read as steps of FileStreams.                           *)
(* The streams each caller had when it called.                             *)
SavedOf == [k \in 1 .. Len(chain) - 1 |-> Streams(chain[k + 1].fd)]

LEMMA SavedSame == ASSUME chain' = chain PROVE SavedOf' = SavedOf
BY DEF SavedOf

LEMMA OtherStep ==
  ASSUME fd' = fd, ret'.data = <<>>, SavedOf' = SavedOf
  PROVE  AsStreams!Next
<1>1. (Streams(fd))' = Streams(fd)
  OBVIOUS
<1>2. AsStreams!Other
  BY <1>1 DEF AsStreams!Other, SavedOf
<1> QED BY <1>2 DEF AsStreams!Next

LEMMA StreamsSame ==
  ASSUME NEW t, NEW i \in 2 .. NumFds - 1
  PROVE  Streams(t)[i] = View(t[i])
BY StreamsView

LEMMA OpenViews ==
  ASSUME GoodTable(fd), NEW name, OpenDid(name), chain' = chain
  PROVE  AsStreams!Next
<1>1. CASE fd' = fd /\ ret' = Value(-1)
  BY <1>1, ValueData, SavedSame, OtherStep
<1>2. CASE \E i \in FreeIn(fd), h \in 1 .. Len(Dentries) :
             fd' = [fd EXCEPT ![i] = NewFile(Entry(h), NoFile)] /\ ret' = Value(i)
  <2>1. PICK i \in FreeIn(fd), h \in 1 .. Len(Dentries) :
               fd' = [fd EXCEPT ![i] = NewFile(Entry(h), NoFile)] /\ ret' = Value(i)
    BY <1>2, Zenon
  <2> DEFINE f == NewFile(Entry(h), NoFile)
             s == View(f)
  <2>2. i \in 2 .. NumFds - 1 /\ fd[i].flags = 0 /\ fd \in Tables
    BY DEF FreeIn, GoodTable
  <2>3. Streams(fd)[i] = Shut
    <3>1. View(fd[i]) = Shut
      BY <2>2, Zenon DEF View
    <3> QED BY <2>2, <3>1, StreamsSame, Zenon
  <2>4. Streams(fd') = [Streams(fd) EXCEPT ![i] = s]
    <3>1. fd' = [fd EXCEPT ![i] = f]
      BY <2>1
    <3>2. \A g : Streams([fd EXCEPT ![i] = g]) = [Streams(fd) EXCEPT ![i] = View(g)]
      BY <2>2, StreamsUpdate, Zenon
    <3> HIDE DEF f
    <3> QED BY <3>1, <3>2, Zenon
  <2>5. s \in Opened
    BY NewView, Zenon
  <2>6. ret'.data = <<>> /\ SavedOf' = SavedOf
    BY <2>1, ValueData, SavedSame
  <2> HIDE DEF s
  <2>7. AsStreams!OpenStream
    BY <2>2, <2>3, <2>4, <2>5, <2>6, Zenon DEF AsStreams!OpenStream, AsStreams!Closed, Shut, SavedOf
  <2> QED BY <2>7 DEF AsStreams!Next
<1> QED BY <1>1, <1>2, Zenon DEF OpenDid

LEMMA CloseViews ==
  ASSUME GoodTable(fd), NEW i, CloseDid(i), chain' = chain
  PROVE  AsStreams!Next
<1>1. CASE fd' = fd /\ ret' = Value(-1)
  BY <1>1, ValueData, SavedSame, OtherStep
<1>2. CASE OpenFd(i) /\ fd' = [fd EXCEPT ![i] = [fd[i] EXCEPT !.flags = 0]] /\ ret' = Value(0)
  <2> DEFINE f == [fd[i] EXCEPT !.flags = 0]
  <2>1. i \in 2 .. NumFds - 1 /\ i \in Fds /\ fd \in Tables
    BY <1>2, FdFacts, Zenon DEF OpenFd, GoodTable
  <2>2. f.flags = 0
    <3>1. fd[i] \in Files
      BY <2>1 DEF Tables
    <3> QED BY <3>1 DEF Files
  <2>3. fd' = [fd EXCEPT ![i] = f]
    BY <1>2
  <2> HIDE DEF f
  <2>4. Streams(fd') = [Streams(fd) EXCEPT ![i] = Shut]
    <3>1. View(f) = Shut
      BY <2>2, Zenon DEF View
    <3> QED BY <2>1, <2>3, <3>1, StreamsUpdate
  <2>5. ret'.data = <<>> /\ SavedOf' = SavedOf
    BY <1>2, ValueData, SavedSame
  <2>6. AsStreams!CloseStream
    BY <2>1, <2>4, <2>5, Zenon DEF AsStreams!CloseStream, AsStreams!Closed, Shut, SavedOf
  <2> QED BY <2>6 DEF AsStreams!Next
<1> QED BY <1>1, <1>2, Zenon DEF CloseDid

(* A read of m bytes takes the first m elements off the rest.              *)
LEMMA RestMoves ==
  ASSUME NEW f \in Files, f.fotp = "file" => f.inode \in DOMAIN Inodes, f.fposition \in 0 .. Size(f),
         NEW m \in Nat \ {0}, m <= Size(f) - f.fposition
  PROVE  /\ m \in 1 .. Len(RestOf(f))
         /\ SubSeq(RestOf(f), 1, m) = [k \in 1 .. m |-> ByteAt(f, f.fposition + k)]
         /\ SubSeq(RestOf(f), m + 1, Len(RestOf(f))) = RestOf(Moved(f, m))
<1> DEFINE w == RestOf(f)
           p == f.fposition
           n == Size(f) - p
           S == {ByteAt(f, k) : k \in Int}
           g == Moved(f, m)
<1>0. Size(f) \in Nat
  BY SizeNat
<1>1. p \in Nat /\ n \in Nat /\ m \in 1 .. n
  BY <1>0
<1>2. \A k \in 1 .. n : ByteAt(f, p + k) \in S
  <2>1. \A k \in 1 .. n : p + k \in Int
    BY <1>1
  <2> QED BY <2>1, Zenon
<1>3. w \in [1 .. n -> S] /\ \A k \in 1 .. n : w[k] = ByteAt(f, p + k)
  BY <1>2, Zenon DEF RestOf
<1>4. g.fposition = p + m /\ g.fotp = f.fotp /\ g.inode = f.inode /\ Size(g) = Size(f)
  BY MovedFacts
<1>5. \A k : ByteAt(g, k) = ByteAt(f, k)
  BY <1>4, Zenon DEF ByteAt
<1>6. RestOf(g) = [k \in 1 .. n - m |-> ByteAt(f, (p + m) + k)]
  <2>1. RestOf(g) = [k \in 1 .. Size(f) - (p + m) |-> ByteAt(g, (p + m) + k)]
    BY <1>4, Zenon DEF RestOf
  <2>2. Size(f) - (p + m) = n - m
    BY <1>0, <1>1
  <2> HIDE DEF n, p, g
  <2> QED BY <2>1, <2>2, <1>5, Zenon
<1> HIDE DEF w, p, n, S, g
<1>7. w \in Seq(S) /\ Len(w) = n
  BY <1>1, <1>3
<1>8. SubSeq(w, 1, m) = [k \in 1 .. m |-> ByteAt(f, p + k)]
  <2>1. SubSeq(w, 0 + 1, m) = Cut(w, 0, m)
    <3>1. 0 \in Nat /\ m \in Nat /\ 0 <= m /\ m <= Len(w)
      BY <1>1, <1>7
    <3> QED BY <1>7, <3>1, SubSeqOf, Zenon
  <2>2. \A k \in 1 .. m : 0 + k = k /\ k \in 1 .. n
    BY <1>1
  <2>3. m - 0 = m /\ 0 + 1 = 1
    OBVIOUS
  <2>4. Cut(w, 0, m) = [k \in 1 .. m |-> w[0 + k]]
    BY <2>3, Zenon DEF Cut
  <2>5. \A k \in 1 .. m : w[0 + k] = ByteAt(f, p + k)
    BY <1>3, <2>2, Zenon
  <2> QED BY <2>1, <2>3, <2>4, <2>5, Zenon
<1>9. SubSeq(w, m + 1, n) = [k \in 1 .. n - m |-> ByteAt(f, (p + m) + k)]
  <2>1. SubSeq(w, m + 1, n) = Cut(w, m, n)
    <3>1. m \in Nat /\ n \in Nat /\ m <= n /\ n <= Len(w)
      BY <1>1, <1>7
    <3> QED BY <1>7, <3>1, SubSeqOf, Zenon
  <2>2. \A k \in 1 .. n - m : m + k \in 1 .. n /\ p + (m + k) = (p + m) + k
    BY <1>1
  <2>3. \A k \in 1 .. n - m : w[m + k] = ByteAt(f, (p + m) + k)
    BY <1>3, <2>2, Zenon
  <2> QED BY <2>1, <2>3, Zenon DEF Cut
<1> QED BY <1>1, <1>6, <1>7, <1>8, <1>9, Zenon DEF w, g, p

LEMMA ReadViews ==
  ASSUME GoodTable(fd), Fine(fd), NEW i, ReadDid(i), chain' = chain
  PROVE  AsStreams!Next
<1>1. CASE Nothing(i)
  BY <1>1, SavedSame, OtherStep DEF Nothing
<1>2. CASE \E m \in Nat \ {0} : Delivered(i, m)
  <2>1. PICK m \in Nat \ {0} : Delivered(i, m)
    BY <1>2, Zenon
  <2> DEFINE f == fd[i]
             g == Moved(f, m)
             st == Streams(fd)
             r == RestOf(f)
  <2>2. /\ OpenFd(i) /\ f.fotp \in {"file", "dir"} /\ m <= Size(f) - f.fposition
        /\ (f.fotp = "dir" => m = 1) /\ fd' = [fd EXCEPT ![i] = g]
        /\ ret'.data = [k \in 1 .. m |-> ByteAt(f, f.fposition + k)]
    BY <2>1, Zenon DEF Delivered
  <2>3. i \in 2 .. NumFds - 1 /\ i \in Fds /\ f.flags # 0 /\ fd \in Tables
    BY <2>2, FdFacts, Zenon DEF OpenFd, GoodTable
  <2>4. /\ f \in Files /\ (f.fotp = "file" => f.inode \in DOMAIN Inodes)
        /\ f.fposition \in 0 .. Size(f) /\ Size(f) \in Nat /\ f.fposition \in Nat
    <3>1. f \in Files /\ f.fposition \in 0 .. Size(f)
      BY <2>3 DEF Tables, Fine
    <3>2. f.fotp = "file" => f.inode \in DOMAIN Inodes
      BY <2>3, Zenon DEF GoodTable
    <3>3. Size(f) \in Nat
      BY <3>1, <3>2, SizeNat
    <3> QED BY <3>1, <3>2, <3>3
  <2>5. /\ m \in 1 .. Len(r) /\ ret'.data = SubSeq(r, 1, m)
        /\ RestOf(g) = SubSeq(r, m + 1, Len(r))
    BY <2>2, <2>4, RestMoves, Zenon
  <2>6. /\ g \in Files /\ g.fotp = f.fotp /\ g.inode = f.inode /\ g.flags # 0
        /\ g.fposition \in 0 .. Size(g)
    <3>1. /\ g.fposition = f.fposition + m /\ g.fotp = f.fotp /\ g.inode = f.inode
          /\ g.flags = f.flags /\ Size(g) = Size(f)
      BY <2>4, MovedFacts
    <3>2. g \in Files
      BY <2>4 DEF Moved, Files
    <3> HIDE DEF g, f
    <3> QED BY <2>2, <2>3, <2>4, <3>1, <3>2
  <2> HIDE DEF f, g, r
  <2>7. View(f) = Rec(StepOf(f), r) /\ View(g) = Rec(StepOf(f), SubSeq(r, m + 1, Len(r)))
    <3>1. StepOf(g) = StepOf(f)
      BY <2>6, Zenon DEF StepOf
    <3>2. View(g) = Rec(StepOf(g), RestOf(g))
      BY <2>4, <2>6, ViewIs, Zenon
    <3>3. View(f) = Rec(StepOf(f), r)
      BY <2>3, <2>4, ViewIs, Zenon DEF r
    <3> QED BY <2>5, <3>1, <3>2, <3>3, Zenon
  <2>8. st[i] = View(f) /\ Streams(fd') = [st EXCEPT ![i] = View(g)]
    <3>1. st[i] = View(f)
      BY <2>3, StreamsSame, Zenon DEF f
    <3>2. Streams([fd EXCEPT ![i] = g]) = [Streams(fd) EXCEPT ![i] = View(g)]
      BY <2>3, StreamsUpdate, Zenon
    <3> QED BY <2>2, <3>1, <3>2, Zenon
  <2>9. st[i].step = StepOf(f) /\ st[i].rest = r
    <3>1. Rec(StepOf(f), r).step = StepOf(f) /\ Rec(StepOf(f), r).rest = r
      BY RecFacts, Zenon
    <3> HIDE DEF st
    <3> QED BY <2>7, <2>8, <3>1
  <2>10. Streams(fd') = [st EXCEPT ![i].rest = SubSeq(@, m + 1, Len(@))]
    <3> DEFINE q == SubSeq(r, m + 1, Len(r))
    <3>1. [st EXCEPT ![i].rest = SubSeq(@, m + 1, Len(@))]
          = [st EXCEPT ![i] = [st[i] EXCEPT !.rest = SubSeq(st[i].rest, m + 1, Len(st[i].rest))]]
      OBVIOUS
    <3>2. [st[i] EXCEPT !.rest = SubSeq(st[i].rest, m + 1, Len(st[i].rest))] = [st[i] EXCEPT !.rest = q]
      BY <2>9
    <3> HIDE DEF q, st
    <3>3. [st[i] EXCEPT !.rest = q] = Rec(StepOf(f), q)
      BY <2>7, <2>8, RecFacts
    <3> QED BY <2>7, <2>8, <3>1, <3>2, <3>3 DEF q
  <2>11. st[i].step \in {0, m}
    BY <2>2, <2>9 DEF StepOf
  <2>12. SavedOf' = SavedOf
    BY SavedSame
  <2>13. AsStreams!ReadStream
    <3>1. m \in 1 .. Len(Streams(fd)[i].rest) /\ ret'.data = SubSeq(Streams(fd)[i].rest, 1, m)
      BY <2>5, <2>9
    <3> QED BY <2>3, <2>10, <2>11, <2>12, <3>1, Zenon DEF AsStreams!ReadStream, SavedOf
  <2> QED BY <2>13 DEF AsStreams!Next
<1> QED BY <1>1, <1>2, Zenon DEF ReadDid
-----------------------------------------------------------------------------
(* Execute, halt and Alt-Fn: what they do to the copies in the PCBs.       *)
LEMMA SavedSeq ==
  ASSUME NEW m \in Nat, Len(chain) - 1 = m
  PROVE  /\ SavedOf \in Seq({Streams(chain[k + 1].fd) : k \in 1 .. m}) /\ Len(SavedOf) = m
         /\ \A k \in 1 .. m : SavedOf[k] = Streams(chain[k + 1].fd)
<1> DEFINE S == {Streams(chain[k + 1].fd) : k \in 1 .. m}
<1>0. SavedOf = [k \in 1 .. m |-> Streams(chain[k + 1].fd)]
  BY Zenon DEF SavedOf
<1>1. SavedOf \in [1 .. m -> S] /\ \A k \in 1 .. m : SavedOf[k] = Streams(chain[k + 1].fd)
  BY <1>0, Zenon
<1> HIDE DEF S
<1>2. SavedOf \in Seq(S) /\ Len(SavedOf) = m
  BY <1>1
<1> QED BY <1>1, <1>2 DEF S

LEMMA SavedNext ==
  SavedOf' = [k \in 1 .. Len(chain') - 1 |-> Streams(chain'[k + 1].fd)]
BY DEF SavedOf

LEMMA AppendIs ==
  ASSUME NEW S, NEW w \in Seq(S), NEW x
  PROVE  Append(w, x) = [k \in 1 .. Len(w) + 1 |-> IF k = Len(w) + 1 THEN x ELSE w[k]]
<1>1. w \in Seq(S \cup {x}) /\ x \in S \cup {x}
  OBVIOUS
<1> DEFINE T == S \cup {x}
           u == Append(w, x)
<1> HIDE DEF T
<1>2. u \in Seq(T) /\ Len(u) = Len(w) + 1 /\ u[Len(w) + 1] = x /\ \A k \in 1 .. Len(w) : u[k] = w[k]
  BY <1>1, AppendProperties DEF T
<1>3. u = [k \in 1 .. Len(w) + 1 |-> u[k]]
  <2> HIDE DEF u
  <2> QED BY <1>2
<1> HIDE DEF u
<1>4. Len(w) \in Nat
  BY <1>1
<1>5. \A k \in 1 .. Len(w) + 1 : u[k] = IF k = Len(w) + 1 THEN x ELSE w[k]
  BY <1>2, <1>4
<1> QED BY <1>3, <1>5, Zenon DEF u

LEMMA PushedViews == ASSUME Inv, Pushed PROVE AsStreams!Next
<1> DEFINE m == Len(chain) - 1
           x == Streams(fd)
<1>0. Len(chain) \in Nat \ {0} /\ GoodTable(fd)
  BY ChainFacts
<1>1. Len(chain') = Len(chain) + 1 /\ SameBelow(Len(chain)) /\ fd' = initFOTP(fd) /\ chain'[Len(chain) + 1].fd = fd' /\ ret'.data = <<>>
  BY ValueData, Zenon DEF Pushed
<1>2. Streams(fd') = x
  BY <1>0, <1>1, StreamsInit, Zenon
<1>n. m \in Nat /\ Len(chain) = m + 1 /\ Len(chain') - 1 = m + 1 /\ Len(chain) + 1 = m + 1 + 1
  BY <1>0, <1>1
<1>3. /\ SavedOf \in Seq({Streams(chain[k + 1].fd) : k \in 1 .. m}) /\ Len(SavedOf) = m
      /\ \A k \in 1 .. m : SavedOf[k] = Streams(chain[k + 1].fd)
  BY <1>n, SavedSeq
<1> HIDE DEF m, x
<1>4. Append(SavedOf, x) = [k \in 1 .. m + 1 |-> IF k = m + 1 THEN x ELSE SavedOf[k]]
  BY <1>3, AppendIs
<1>5. SavedOf' = [k \in 1 .. m + 1 |-> Streams(chain'[k + 1].fd)]
  BY <1>n, SavedNext, Zenon
<1>6. \A k \in 1 .. m + 1 : Streams(chain'[k + 1].fd) = IF k = m + 1 THEN x ELSE SavedOf[k]
  <2>1. \A k \in 1 .. m + 1 : k # m + 1 => k \in 1 .. m /\ k + 1 \in 1 .. m + 1
    BY <1>n
  <2>2. chain'[m + 1 + 1].fd = fd' /\ \A k \in 1 .. m + 1 : chain'[k].fd = chain[k].fd
    BY <1>1, <1>n, Zenon DEF SameBelow
  <2> QED BY <1>2, <1>3, <2>1, <2>2, Zenon
<1>7. SavedOf' = Append(SavedOf, x)
  BY <1>4, <1>5, <1>6, Zenon
<1>8. AsStreams!Call
  BY <1>1, <1>2, <1>7, Zenon DEF AsStreams!Call, SavedOf, x
<1> QED BY <1>8 DEF AsStreams!Next

LEMMA MarkedViews == ASSUME Inv, Marked PROVE AsStreams!Next
<1> DEFINE m == Len(chain) - 1
<1>0. Len(chain) \in Nat \ {0}
  BY ChainFacts
<1>1. Len(chain') = Len(chain) /\ SameBelow(Len(chain)) /\ fd' = fd /\ ret'.data = <<>>
  BY Zenon DEF Marked
<1>n. m \in Nat /\ Len(chain') - 1 = m /\ \A k \in 1 .. m : k + 1 \in 1 .. Len(chain)
  BY <1>0, <1>1
<1> HIDE DEF m
<1>2. SavedOf' = [k \in 1 .. m |-> Streams(chain'[k + 1].fd)]
  BY <1>n, SavedNext, Zenon
<1>3. \A k \in 1 .. m : Streams(chain'[k + 1].fd) = Streams(chain[k + 1].fd)
  BY <1>1, <1>n, Zenon DEF SameBelow
<1>4. SavedOf' = SavedOf
  BY <1>2, <1>3, Zenon DEF SavedOf, m
<1> QED BY <1>1, <1>4, OtherStep

(* A return: to a shell, which finds the table it had at the call, or to   *)
(* another program.                                                        *)
LEMMA PoppedViews == ASSUME Inv, Popped PROVE AsStreams!Next \/ ReturnToProgram
<1> DEFINE n == Len(chain)
           m == n - 1
           q == m - 1
<1>0. n \in Nat \ {0} /\ ChainOK(chain, fd)
  BY ChainFacts, InvFacts
<1>1. n > 1 /\ Len(chain') = m /\ SameBelow(m) /\ fd' = chain[m].fd /\ ret'.data = <<>>
  BY ValueData, Zenon DEF Popped
<1>n. /\ m \in Nat \ {0} /\ q \in Nat /\ n = m + 1 /\ m = q + 1 /\ m \in 1 .. n /\ m # n /\ m < n
      /\ Len(chain') - 1 = q /\ m \in 1 .. m
      /\ \A k \in 1 .. q : k \in 1 .. m /\ k + 1 \in 1 .. m
  <2> HIDE DEF n
  <2> QED BY <1>0, <1>1
<1>2. CASE chain[m].prog # Shell
  BY <1>1, <1>2, <1>n DEF ReturnToProgram
<1>3. CASE chain[m].prog = Shell
  <2>1. chain[m + 1].fd = chain[m].fd
    BY <1>0, <1>3, <1>n, Zenon DEF ChainOK, Kept
  <2>2. /\ SavedOf \in Seq({Streams(chain[k + 1].fd) : k \in 1 .. m}) /\ Len(SavedOf) = m
        /\ \A k \in 1 .. m : SavedOf[k] = Streams(chain[k + 1].fd)
    <3>1. m \in Nat /\ Len(chain) - 1 = m
      BY <1>n
    <3> HIDE DEF m
    <3> QED BY <3>1, SavedSeq
  <2> DEFINE w == SavedOf
             S == {Streams(chain[k + 1].fd) : k \in 1 .. m}
  <2> HIDE DEF S, w, n, m, q
  <2>3. w \in Seq(S) /\ Len(w) = m
    BY <2>2 DEF S, w
  <2>4. 0 \in Nat /\ q \in Nat /\ 0 <= q /\ q <= Len(w) /\ 0 + 1 = 1 /\ q - 0 = q
    BY <1>n, <2>3
  <2>5. SubSeq(w, 0 + 1, q) = Cut(w, 0, q)
    BY <2>3, <2>4, SubSeqOf, Zenon
  <2>6. \A k \in 1 .. q : 0 + k = k
    OBVIOUS
  <2>7. SubSeq(w, 1, q) = [k \in 1 .. q |-> w[k]]
    BY <2>4, <2>5, <2>6, Zenon DEF Cut
  <2>8. SavedOf' = [k \in 1 .. q |-> Streams(chain'[k + 1].fd)]
    BY <1>n, SavedNext, Zenon
  <2>9. \A k \in 1 .. q : Streams(chain'[k + 1].fd) = w[k]
    BY <1>1, <1>n, <2>2, Zenon DEF SameBelow, w
  <2>10. SavedOf' = SubSeq(w, 1, Len(w) - 1)
    <3>1. Len(w) - 1 = q
      BY <1>n, <2>3
    <3>2. [k \in 1 .. q |-> Streams(chain'[k + 1].fd)] = [k \in 1 .. q |-> w[k]]
      BY <2>9, Zenon
    <3> QED BY <2>7, <2>8, <3>1, <3>2, Zenon
  <2>11. Streams(fd') = w[Len(w)] /\ w # <<>>
    <3>1. w[m] = Streams(chain[m + 1].fd)
      BY <1>n, <2>2, Zenon DEF w
    <3>2. Streams(fd') = w[m]
      BY <1>1, <2>1, <3>1, Zenon
    <3>3. w # <<>>
      BY <1>n, <2>3
    <3> QED BY <2>3, <3>2, <3>3, Zenon
  <2>12. AsStreams!Return
    BY <1>1, <2>10, <2>11, Zenon DEF AsStreams!Return, SavedOf, w
  <2> QED BY <2>12 DEF AsStreams!Next
<1> QED BY <1>2, <1>3
-----------------------------------------------------------------------------
(* Every step of TSpec is one of FileStreams or leaves the streams alone.  *)
LEMMA SameViews == ASSUME fd' = fd, chain' = chain, ret' = ret PROVE UNCHANGED AsStreams!vars
<1>1. SavedOf' = SavedOf
  BY SavedSame
<1> QED BY <1>1 DEF AsStreams!vars, SavedOf

LEMMA QuietViews ==
  ASSUME NEW v, ret' = Value(v), fd' = fd, chain' = chain
  PROVE  AsStreams!Next
BY ValueData, SavedSame, OtherStep

LEMMA DoViews ==
  ASSUME Inv, TablesFine, NEW c, c.op \in Ops, Do(c)
  PROVE  AsStreams!Next \/ UNCHANGED AsStreams!vars
<1>0. GoodTable(fd) /\ Fine(fd)
  BY DEF Inv, TablesGood, TablesFine
<1>1. CASE c.op = "open"
  <2>1. Open(c.x)
    BY <1>1 DEF Do
  <2>2. chain' = chain
    BY <2>1 DEF Open
  <2> QED BY <1>0, <2>1, <2>2, OpenDoes, OpenViews, Zenon
<1>2. CASE c.op = "close"
  <2>1. Close(c.x)
    BY <1>2 DEF Do
  <2>2. chain' = chain
    BY <2>1 DEF Close
  <2> QED BY <1>0, <2>1, <2>2, CloseDoes, CloseViews, Zenon
<1>3. CASE c.op = "read"
  <2>1. Read(c.x, 31) /\ 31 \in Int
    BY <1>3 DEF Do
  <2>2. chain' = chain
    BY <2>1 DEF Read
  <2> QED BY <1>0, <2>1, <2>2, ReadDoes, ReadViews, Zenon
<1>4. CASE c.op = "write"
  <2>1. Write(c.x)
    BY <1>4 DEF Do
  <2> QED BY <2>1, QuietViews DEF Write
<1>5. CASE c.op = "vidmap"
  <2>1. Vidmap(c.x)
    BY <1>5 DEF Do
  <2> QED BY <2>1, QuietViews DEF Vidmap
<1>6. CASE c.op = "number"
  <2>1. Number(c.x)
    BY <1>6 DEF Do
  <2> QED BY <2>1, QuietViews DEF Number
<1>7. CASE c.op = "cnt"
  <2>1. UNCHANGED vars
    BY <1>7 DEF Do
  <2> QED BY <2>1, SameViews DEF vars
<1> QED BY <1>1, <1>2, <1>3, <1>4, <1>5, <1>6, <1>7 DEF Ops

LEMMA FileCallViews == ASSUME Inv, TablesFine, FileCall PROVE AsStreams!Next \/ UNCHANGED AsStreams!vars
<1>0. GoodTable(fd) /\ Fine(fd) /\ Counts \subseteq Int
  BY TableFacts DEF Inv, TablesGood, TablesFine
<1>1. ASSUME NEW name \in OpenNames, Open(name) PROVE AsStreams!Next
  <2>1. chain' = chain
    BY <1>1 DEF Open
  <2> QED BY <1>0, <1>1, <2>1, OpenDoes, OpenViews, Zenon
<1>2. ASSUME NEW i \in Given, Close(i) PROVE AsStreams!Next
  <2>1. chain' = chain
    BY <1>2 DEF Close
  <2> QED BY <1>0, <1>2, <2>1, CloseDoes, CloseViews, Zenon
<1>3. ASSUME NEW i \in Given, NEW n \in Counts, Read(i, n) PROVE AsStreams!Next
  <2>1. chain' = chain /\ n \in Int
    BY <1>0, <1>3 DEF Read
  <2> QED BY <1>0, <1>3, <2>1, ReadDoes, ReadViews, Zenon
<1>4. ASSUME NEW i \in Given, Write(i) PROVE AsStreams!Next
  BY <1>4, QuietViews DEF Write
<1>5. ASSUME NEW n \in Counts, GetArgs(n) PROVE AsStreams!Next
  BY <1>5, QuietViews DEF GetArgs
<1>6. ASSUME NEW i \in Given, ClosePast(i) PROVE UNCHANGED AsStreams!vars
  BY <1>6, SameViews DEF ClosePast
<1> QED BY <1>1, <1>2, <1>3, <1>4, <1>5, <1>6, Zenon DEF FileCall

LEMMA StreamsInitially == TInit => AsStreams!Init
<1> SUFFICES ASSUME TInit PROVE AsStreams!Init
  OBVIOUS
<1> DEFINE J == 2 .. NumFds - 1
<1>1. GoodTable(NoFiles) /\ \A i \in Fds : NoFiles[i].flags = 0
  BY NoFilesGood
<1>2. Streams(NoFiles) = [i \in J |-> Shut]
  <2>1. \A i \in J : View(NoFiles[i]) = Shut
    BY <1>1, FdFacts, Zenon DEF View
  <2>2. Streams(NoFiles) = [i \in J |-> View(NoFiles[i])]
    BY StreamsView, Zenon
  <2> QED BY <2>1, <2>2, Zenon
<1> DEFINE c == [prog |-> Shell, fd |-> initFOTP(NoFiles), base |-> TRUE]
<1>3. chain = <<c>> /\ fd = initFOTP(NoFiles) /\ c.fd = fd /\ ret = Value(0)
  BY DEF Init, TInit
<1>4. Streams(fd) = [i \in J |-> Shut] /\ ret.data = <<>>
  BY <1>1, <1>2, <1>3, StreamsInit, ValueData
<1> HIDE DEF c, J
<1>5. SavedOf = <<>>
  <2>1. Len(chain) - 1 = 0 /\ 0 \in Nat
    BY <1>3
  <2>2. Len(SavedOf) = 0 /\ SavedOf \in Seq({Streams(chain[k + 1].fd) : k \in 1 .. 0})
    BY <2>1, SavedSeq
  <2> QED BY <2>2, EmptySeq
<1> QED BY <1>4, <1>5, Zenon DEF AsStreams!Init, AsStreams!Closed, Shut, SavedOf, J

LEMMA StreamsNext == TInv /\ [TNext]_allvars => [AsStreams!Next \/ ReturnToProgram]_(AsStreams!vars)
<1> SUFFICES ASSUME TInv, [TNext]_allvars
             PROVE  AsStreams!Next \/ ReturnToProgram \/ UNCHANGED AsStreams!vars
  OBVIOUS
<1>0. Inv /\ TablesFine /\ InTest /\ sel \in 0 .. 8 /\ at \in Nat \ {0}
  BY DEF TInv, InTest
<1>1. CASE Select
  BY <1>1, SameViews DEF Select, vars
<1>2. CASE Step
  <2> DEFINE c == Script[sel][at]
  <2>1. at <= Len(Script[sel]) /\ Do(c)
    BY <1>2 DEF Step
  <2>2. c.op \in Ops
    BY <1>0, <2>1, CallOps
  <2> HIDE DEF c
  <2> QED BY <1>0, <2>1, <2>2, DoViews, Zenon
<1>3. CASE FileCall
  BY <1>0, <1>3, FileCallViews
<1>4. ASSUME NEW name \in RunNames, NEW a \in Args, Execute(name, a) PROVE AsStreams!Next
  BY <1>0, <1>4, ExecutePushes, PushedViews, Zenon
<1>5. ASSUME NEW name \in RunNames, NEW a \in Args, ExecuteFails(name, a) PROVE AsStreams!Next
  BY <1>0, <1>5, FailsDoes, MarkedViews, Zenon
<1>6. CASE AltFirst
  BY <1>0, <1>6, AltFirstPushes, PushedViews, Zenon
<1>7. CASE HaltBase
  BY <1>0, <1>7, HaltBaseDoes, MarkedViews, Zenon
<1>8. CASE Halt
  BY <1>0, <1>8, HaltDoes, PoppedViews
<1>9. CASE UNCHANGED allvars
  <2>1. UNCHANGED vars
    BY <1>9 DEF allvars
  <2> QED BY <2>1, SameViews DEF vars
<1> QED BY <1>1, <1>2, <1>3, <1>4, <1>5, <1>6, <1>7, <1>8, <1>9, Zenon DEF TNext
-----------------------------------------------------------------------------
(* The descriptors implement FileStreams, for every image, block size and  *)
(* table length: an open descriptor delivers the bytes of its file in      *)
(* order and once, however the reads are cut, a program starts with what   *)
(* its caller has open, and a shell has its descriptors again, as they     *)
(* were, when the program it ran has ended, killed or not.  The one step   *)
(* left out is a return to a program that is not a shell                   *)
(* (filesystem.c:94, 119, 125; syscall.c:97, 303, 334).                    *)
THEOREM StreamsImplemented == TSpec => ImplementsStreams
BY StreamsInitially, StreamsNext, TInvAlways, PTL DEF TSpec, ImplementsStreams
=============================================================================
