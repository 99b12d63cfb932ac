------------------------------- MODULE SysErr -------------------------------
(***************************************************************************)
(* The error tests syscalls/ece391syserr.c as a program on top of          *)
(* FileTable: one step per system call, with every other behaviour of      *)
(* FileTable before, between and after.  It also has the promise of the    *)
(* reads: FileTable implements FileStreams.                                *)
(***************************************************************************)
EXTENDS FileTable, SequencesExt

CONSTANT Tester   \* the name of the program

(* The tester opens only what a test opens; the image has the directory    *)
(* and none of the three names that err_open makes up.                     *)
Names == {Dentries[i].name : i \in 1 .. Len(Dentries)}
ASSUME TesterAssumption ==
  /\ Tester \in Quiet /\ Tester # Shell
  /\ "." \in Names /\ "helloo" \notin Names /\ "shel" \notin Names /\ "" \notin Names

VARIABLES
  phase,   \* the tester: not running, about to choose a test, in a test
  sel, at, \* the number of the test and of its next call
  cnt,     \* opens that returned -1 (err_open_lots)
  failed   \* a call of the test returned what it should not

test    == <<phase, sel, at, cnt, failed>>
allvars == <<vars, test>>

(* vidmap(): the range of pointers it accepts; where it points them to is  *)
(* in module Screens.                                                      *)
EXEC_LOCATION == 134512640
USER_VIDEO == 139165696
RefusedPtr(ptr) == ptr < EXEC_LOCATION \div 4 \/ ptr >= USER_VIDEO
Vidmap(ptr) ==
  /\ ret' = Value(IF RefusedPtr(ptr) THEN -1 ELSE 0)
  /\ UNCHANGED <<fd, arg, chain, wild>>

(* syscall_link: the number less one is compared, unsigned, with 10.       *)
Dispatched(num) == num - 1 \in 0 .. 9
Number(num) ==
  /\ ret' = Value(IF Dispatched(num) THEN 0 ELSE -1)
  /\ UNCHANGED <<fd, arg, chain, wild>>

(* A call of a test and what is done with its result: Fails (it must be    *)
(* -1), Counted (err_open_lots counts the -1s) or Ignored.                 *)
C(op, x, want) == [op |-> op, x |-> x, want |-> want]
F(op, x) == C(op, x, "Fails")
Big == 1073741823
Each(op, lo, want) == [k \in 1 .. NumFds - lo |-> C(op, lo + k - 1, want)]

err_neg_fd == <<F("read", -Big), F("write", -Big), F("close", -Big)>>
err_big_fd == <<F("read", Big), F("write", Big), F("close", Big)>>
err_open_lots ==
  [k \in 1 .. NumFds - 1 |-> C("open", ".", "Counted")] \o Each("close", 2, "Ignored")
  \o <<C("cnt", 1, "Ignored")>>
err_open == <<F("open", "helloo"), F("open", "shel"), F("open", "")>>
err_unopened == Each("close", 0, "Fails") \o Each("read", 2, "Fails") \o Each("write", 2, "Fails")
KernelPtr == 4194304
err_vidmap == <<F("vidmap", 0), F("vidmap", KernelPtr)>>
err_stdin_out == <<F("write", 0), F("read", 1)>>
err_syscall_num == <<F("number", Big), F("number", -Big), F("number", 0)>>

Numbered == <<err_neg_fd, err_big_fd, err_open_lots, err_open, err_unopened,
              err_vidmap, err_stdin_out, err_syscall_num>>
Script == [n \in 0 .. Len(Numbered) |-> IF n = 0 THEN FlattenSeq(Numbered) ELSE Numbered[n]]

Do(c) ==
  CASE c.op = "open"   -> Open(c.x)
    [] c.op = "close"  -> Close(c.x)
    [] c.op = "read"   -> Read(c.x, 31)
    [] c.op = "write"  -> Write(c.x)
    [] c.op = "vidmap" -> Vidmap(c.x)
    [] c.op = "number" -> Number(c.x)
    [] c.op = "cnt"    -> UNCHANGED vars

(* main(): the test is chosen by a line from stdin.                        *)
Select ==
  /\ phase = "select"
  /\ \E n \in 0 .. Len(Numbered) : sel' = n
  /\ phase' = "run" /\ at' = 1 /\ UNCHANGED <<cnt, failed>>
  /\ UNCHANGED vars

Step ==
  /\ phase = "run" /\ at <= Len(Script[sel])
  /\ LET c == Script[sel][at] IN
     /\ Do(c)
     /\ cnt' = cnt + IF c.want = "Counted" /\ ret'.val = -1 THEN 1 ELSE 0
     /\ failed' = \/ failed
                  \/ c.want = "Fails" /\ ret'.val # -1
                  \/ c.op = "cnt" /\ cnt # c.x
  /\ at' = at + 1
  /\ UNCHANGED <<phase, sel>>

(* main() returns and _start halts; or the program is killed.              *)
Begin(name) ==
  /\ phase' = IF name = Tester THEN "select" ELSE "off"
  /\ sel' = 0 /\ at' = 1 /\ cnt' = 0 /\ failed' = FALSE
Stop == Begin(Shell)

TInit == Init /\ phase = "off" /\ sel = 0 /\ at = 1 /\ cnt = 0 /\ failed = FALSE

TNext ==
  \/ /\ ~wild
     /\ \/ Select \/ Step
        \/ Running.prog \notin Quiet /\ FileCall /\ UNCHANGED test
        \/ phase = "off" /\ \E name \in RunNames, a \in Args :
             \/ Execute(name, a) /\ Begin(name)
             \/ ExecuteFails(name, a) /\ UNCHANGED test
        \/ (AltFirst \/ HaltBase \/ Halt) /\ Stop
  \/ wild /\ UNCHANGED allvars

TSpec == TInit /\ [][TNext]_allvars
-----------------------------------------------------------------------------
(* Run from the shells of a terminal whose first shell found no files     *)
(* open, every test passes: all descriptors are checked, six files can be  *)
(* opened and not seven, and nothing a test did or an earlier program left *)
(* is in the way of the next (ece391syserr.c, syscall.c).                  *)
TestsPass == phase = "run" /\ FromCleanShell(chain, Len(chain)) => ~failed

(* What ece391syserr.c:103 says of any run of the tests, where only shells *)
(* call execute.                                                           *)
RunByShells == \A k \in 2 .. Len(chain) : chain[k].base \/ chain[k - 1].prog = Shell
TestsAlwaysPass == phase = "run" /\ RunByShells => ~failed

(* The bytes of a file, from its blocks as a whole.                        *)
Content ==
  [n \in DOMAIN Inodes |-> SubSeq(FlattenSeq([b \in 1 .. Cardinality(DOMAIN Inodes[n].dblock) |->
           [k \in 1 .. BlockSize |-> Blocks[Inodes[n].dblock[b - 1]][k - 1]]]),
         1, Inodes[n].length)]
Whole(f) ==
  IF f.fotp = "file" THEN [step |-> 0, rest |-> Content[f.inode]]
  ELSE IF f.fotp = "dir"
  THEN [step |-> 1, rest |-> [k \in 1 .. Len(Dentries) |-> Dentries[k].name]]
  ELSE [step |-> 0, rest |-> <<>>]

Opened == {Whole(NewFile(Entry(i), NoFile)) : i \in 1 .. Len(Dentries)}
Streams(t) ==
  [i \in 2 .. NumFds - 1 |->
     IF t[i].flags = 0 THEN [step |-> -1, rest |-> <<>>]
     ELSE [Whole(t[i]) EXCEPT !.rest = SubSeq(@, t[i].fposition + 1, Len(@))]]

AsStreams == INSTANCE FileStreams WITH
  Fds <- 2 .. NumFds - 1,
  Contents <- Opened,
  stream <- Streams(fd),
  saved  <- [k \in 1 .. Len(chain) - 1 |-> Streams(chain[k + 1].fd)],
  got    <- ret.data

(* halt() into a program that is not a shell: the table that comes back is *)
(* the one of its start.                                                   *)
ReturnToProgram == Len(chain') < Len(chain) /\ chain[Len(chain) - 1].prog # Shell

(* An open descriptor delivers the bytes of its file in order and once,    *)
(* however the reads are cut, and what a program has open is what it       *)
(* opened and what its caller had open when it called; a shell has its     *)
(* descriptors again, as they were, when the program it ran has ended.     *)
(* (A program that is not a shell and calls execute has instead, when that *)
(* returns, what it had when it was started: syscall.c:97.  No program of  *)
(* the repository does.)  The block arithmetic of read_data, the positions *)
(* and the copies of the table in execute and halt are all in it           *)
(* (filesystem.c:94, 119, 125; syscall.c:97, 303, 334).                    *)
ImplementsStreams ==
  AsStreams!Init /\ [][AsStreams!Next \/ ReturnToProgram]_(AsStreams!vars)
=============================================================================
