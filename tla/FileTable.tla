----------------------------- MODULE FileTable ------------------------------
(***************************************************************************)
(* The descriptor table fd[8] and the program argument (syscall.c).  Both  *)
(* are single globals: every program uses the same table, execute copies   *)
(* it into the PCB of the new program and halt copies the PCB of the       *)
(* caller back.                                                            *)
(*                                                                         *)
(* The programs that are alive form a chain, the last of which runs        *)
(* (module Process).  A key handler that interrupts one of the calls below *)
(* either leaves the table alone or never returns to the call, so each     *)
(* call is one step.  What lies behind fd in memory, and so what close(8)  *)
(* does, is left to the linker: the model stops where the kernel calls     *)
(* through a pointer it finds there.                                       *)
(***************************************************************************)
EXTENDS FileSystem, FiniteSets

CONSTANTS
  NumFds,    \* length of fd (8)
  Shell,     \* the name of the shell
  OpenNames, \* names given to open
  RunNames,  \* names given to execute
  Args,      \* arguments given to execute
  Counts,    \* byte counts given to read and getargs
  MaxArg,    \* size of the buffer arg (32)
  Terminals, \* BOUND: terminals that are ever shown
  Quiet,     \* programs that use no files of their own accord
  MaxBusy,   \* BOUND: other programs alive
  MaxDepth   \* BOUND: programs alive (6 slots)

ASSUME TableAssumption ==
  /\ NumFds \in Nat /\ NumFds >= 3 /\ MaxDepth \in Nat /\ MaxBusy \in Nat /\ Terminals \in Nat
  /\ Shell \in Quiet /\ Quiet \subseteq STRING /\ OpenNames \cup RunNames \subseteq STRING /\ Args \subseteq STRING /\ "" \in Args
  /\ Counts \subseteq Int /\ MaxArg \in Nat

VARIABLES
  fd,     \* the table
  arg,    \* the argument of the last execute
  chain,  \* the programs that are alive: what was run, pcb->fd, and whether
          \* it is the first shell of a terminal
  ret,    \* what the last call returned: the value and the bytes
  wild    \* close(8) called through what lies behind fd

vars == <<fd, arg, chain, ret, wild>>

Fds     == 0 .. NumFds - 1
Kinds   == {"none", "stdin", "stdout", "rtc", "dir", "file"}
(* fotp, inode, fposition and flags.                                       *)
Files   == [fotp : Kinds, inode : Nat, fposition : Int, flags : {0, 1}]
NoFile  == [fotp |-> "none", inode |-> 0, fposition |-> 0, flags |-> 0]
Tables  == [Fds -> Files]
Progs   == [prog : STRING, fd : Tables, base : BOOLEAN]

TypeOK ==
  /\ fd \in Tables
  /\ arg \in STRING
  /\ chain \in Seq(Progs) /\ chain # <<>>
  /\ ret.val \in Int
  /\ wild \in BOOLEAN

Value(v) == [val |-> v, data |-> <<>>]
Running  == chain[Len(chain)]
-----------------------------------------------------------------------------
(* initFOTP(): descriptors 0 and 1; the others stay as they are.           *)
initFOTP(t) ==
  [t EXCEPT ![0] = [fotp |-> "stdin",  inode |-> 0, fposition |-> 0, flags |-> 1],
            ![1] = [fotp |-> "stdout", inode |-> 0, fposition |-> 1, flags |-> 1]]

(* createFD(): the first free descriptor from 2 on, or -1.                 *)
FreeIn(t) == {i \in 2 .. NumFds - 1 : t[i].flags = 0}
FirstFree(t) == CHOOSE i \in FreeIn(t) : \A j \in FreeIn(t) : i <= j
FotpOf(d) == IF d = 0 THEN "rtc" ELSE IF d = 1 THEN "dir" ELSE "file"
NewFileKeepsPosition(dt, old) ==
  [fotp |-> FotpOf(dt.ftype), inode |-> IF dt.ftype = 2 THEN dt.inode ELSE 0,
   fposition |-> old.fposition, flags |-> 1]
NewFile(dt, old) ==
  [fotp |-> FotpOf(dt.ftype), inode |-> IF dt.ftype = 2 THEN dt.inode ELSE 0,
   fposition |-> 0, flags |-> 1]

Open(name) ==
  LET dt == read_dentry_by_name(name) IN
  /\ IF ~dt.found \/ FreeIn(fd) = {}
     THEN ret' = Value(-1) /\ UNCHANGED fd
     ELSE LET i == FirstFree(fd)
          IN  fd' = [fd EXCEPT ![i] = NewFile(dt, @)] /\ ret' = Value(i)
  /\ UNCHANGED <<arg, chain, wild>>

(* close() tests flags of descriptors 2 to 8.                              *)
Close(i) ==
  /\ IF i \in 2 .. NumFds - 1 /\ fd[i].flags # 0
     THEN fd' = [fd EXCEPT ![i].flags = 0] /\ ret' = Value(0)
     ELSE UNCHANGED fd /\ ret' = Value(-1)
  /\ UNCHANGED <<arg, chain, wild>>

(* There is no fd[8].  Where its flags would be is another variable: when  *)
(* that is 0, the answer is -1 (Close); otherwise it is set to 0 and the   *)
(* kernel calls whatever its close member holds.                           *)
ClosePast(i) ==
  /\ i = NumFds
  /\ wild' = TRUE
  /\ UNCHANGED <<fd, arg, chain, ret>>

(* file_read(), directory_read().                                          *)
Advance(i, n) == [fd EXCEPT ![i].fposition = @ + n]
FileRead(i, n) ==
  LET r == read_data(fd[i].inode, fd[i].fposition, Unsigned(n))
  IN  ret' = r /\ fd' = Advance(i, r.val)
DirectoryRead(i) ==
  LET d == read_dentry_by_index(fd[i].fposition)
  IN  IF d.found THEN ret' = [val |-> 32, data |-> <<d.name>>] /\ fd' = Advance(i, 1)
      ELSE ret' = Value(0) /\ UNCHANGED fd

(* read(): by the kind of the descriptor.  How long stdin and the rtc make *)
(* the caller wait, and what stdin delivers, is in LineDiscipline and Rtc. *)
UsableAny(i) == i \in Fds
Usable(i) == i \in Fds /\ fd[i].flags # 0
Read(i, n) ==
  /\ IF Usable(i) /\ fd[i].fotp = "file" THEN FileRead(i, n)
     ELSE IF Usable(i) /\ fd[i].fotp = "dir" THEN DirectoryRead(i)
     ELSE /\ ret' = Value(IF Usable(i) /\ fd[i].fotp # "stdout" THEN 0 ELSE -1)
          /\ UNCHANGED fd
  /\ UNCHANGED <<arg, chain, wild>>

(* write(): files and directories take nothing, stdin refuses.             *)
Write(i) ==
  /\ ret' = Value(IF Usable(i) /\ fd[i].fotp # "stdin" THEN 0 ELSE -1)
  /\ UNCHANGED <<fd, arg, chain, wild>>

(* getargs(): -1 unless the buffer is larger than 32 bytes and there is an *)
(* argument; what it copies is arg.  MaxArg stands for the 32.             *)
GetArgs(n) ==
  /\ ret' = Value(IF MaxArg >= Unsigned(n) \/ arg = "" THEN -1 ELSE 0)
  /\ UNCHANGED <<fd, arg, chain, wild>>
-----------------------------------------------------------------------------
(* checkFile(): a name that is not in the directory fails.  Of a file      *)
(* with fewer bytes than the magic number, the directory and the rtc       *)
(* included, bytes are compared that nobody wrote: either answer.          *)
MayRun(name) ==
  LET dt == read_dentry_by_name(name)
      r  == read_data(dt.inode, 0, Len(Magic))
  IN  dt.found /\ (r.data = Magic \/ r.val < Len(Magic))
MayFail(name) ==
  LET dt == read_dentry_by_name(name)
      r  == read_data(dt.inode, 0, Len(Magic))
  IN  ~dt.found \/ r.data # Magic

(* parse_arg(): the argument is replaced by every execute.                 *)
ParseArg(a) == a

(* createPCB(): the new program's PCB gets a copy of the table.            *)
Started(name, first) == [prog |-> name, fd |-> initFOTP(fd), base |-> first]

Busy == {k \in 1 .. Len(chain) : chain[k].prog \notin Quiet}

(* execute() by the running program.                                       *)
Execute(name, a) ==
  /\ MayRun(name) /\ Len(chain) < MaxDepth
  /\ name \in Quiet \/ Cardinality(Busy) < MaxBusy
  /\ arg' = ParseArg(a)
  /\ fd' = initFOTP(fd)
  /\ chain' = Append(chain, Started(name, FALSE))
  /\ ret' = Value(0) /\ UNCHANGED wild

(* The early returns: not executable, or no slot left.                     *)
ExecuteFails(name, a) ==
  /\ \/ MayFail(name) /\ ret' = Value(-1)
     \/ MayRun(name) /\ Len(chain) = MaxDepth /\ ret' = Value(0)
  /\ arg' = ParseArg(a)
  /\ UNCHANGED <<fd, chain, wild>>

(* Alt-Fn on a new terminal: its shell starts on top of what runs.         *)
Bases == {k \in 1 .. Len(chain) : chain[k].base}
AltFirst ==
  /\ Cardinality(Bases) < Terminals
  /\ Len(chain) < MaxDepth
  /\ arg' = ParseArg("")
  /\ fd' = initFOTP(fd)
  /\ chain' = Append(chain, Started(Shell, TRUE))
  /\ ret' = Value(0) /\ UNCHANGED wild

(* halt() of the first shell of a terminal starts the shell again, before  *)
(* anything is closed.                                                     *)
HaltBase ==
  /\ Running.base
  /\ arg' = ParseArg("")
  /\ fd' = initFOTP(fd)
  /\ chain' = [chain EXCEPT ![Len(chain)] = Started(Shell, TRUE)]
  /\ ret' = Value(0) /\ UNCHANGED wild

(* halt() of any other program: close 2 to 7, then the table of the        *)
(* caller's PCB.                                                           *)
CallersTwo == SubSeq(chain, 1, Len(chain) - 2)
Callers == SubSeq(chain, 1, Len(chain) - 1)
FdOnHaltKept(c) == fd
FdOnHalt(c) == c.fd
Halt ==
  /\ ~Running.base
  /\ fd' = FdOnHalt(chain[Len(chain) - 1])
  /\ chain' = Callers
  /\ ret' = Value(0)
  /\ UNCHANGED <<arg, wild>>
-----------------------------------------------------------------------------
(* Boot: screen1() starts the first shell with an empty table.             *)
NoFiles == [i \in Fds |-> NoFile]
Init ==
  /\ fd = initFOTP(NoFiles)
  /\ arg = ""
  /\ chain = <<[prog |-> Shell, fd |-> initFOTP(NoFiles), base |-> TRUE]>>
  /\ ret = Value(0)
  /\ wild = FALSE

(* Descriptors as programs give them, on both sides of the limits.         *)
Given == -1 .. NumFds + 1

(* The shell (ece391shell.c) only reads and writes 0 and 1 and executes.   *)
FileCall ==
  \/ \E name \in OpenNames : Open(name)
  \/ \E i \in Given : Close(i) \/ ClosePast(i) \/ Write(i) \/ \E n \in Counts : Read(i, n)
  \/ \E n \in Counts : GetArgs(n)

Next ==
  \/ /\ ~wild
     /\ \/ Running.prog \notin Quiet /\ FileCall
        \/ \E name \in RunNames, a \in Args : Execute(name, a) \/ ExecuteFails(name, a)
        \/ AltFirst \/ HaltBase \/ Halt
  \/ wild /\ UNCHANGED vars

Spec == Init /\ [][Next]_vars
-----------------------------------------------------------------------------
(* A shell keeps the table it was started with, and so does what it starts *)
(* begin with it: no program run from a shell, however it ends, leaves a   *)
(* descriptor open behind it, closes one of the shell's or moves a         *)
(* position, also on the terminals whose first shell was started over a    *)
(* program that had files open and took these over (syscall.c:93, 97, 256, *)
(* 334).                                                                   *)
After(k) == IF k = Len(chain) THEN fd ELSE chain[k + 1].fd
ShellTableKept ==
  \A k \in 1 .. Len(chain) : chain[k].prog = Shell => After(k) = chain[k].fd

(* Run by shells from a terminal whose first shell found no files open.    *)
OnlyStd(t) == \A i \in Fds : t[i].flags = IF i \in {0, 1} THEN 1 ELSE 0
FromCleanShell(c, k) ==
  \E b \in 1 .. k : c[b].base /\ OnlyStd(c[b].fd) /\ \A j \in b .. k - 1 : c[j].prog = Shell
=============================================================================
