------------------------- MODULE ProcessOneTerminal -------------------------
(***************************************************************************)
(* Process with one terminal in use: what process control promises then,   *)
(* and the inductive invariant behind it.  Keys interrupt execute and halt *)
(* everywhere; the one thing the promises need is that no Ctrl-C falls     *)
(* into two windows of the code, where halt finds the globals half set.    *)
(***************************************************************************)
EXTENDS Process

(* execute of a program from setPnum to the stack switch (syscall.c:34 to  *)
(* 398): Ctrl-C would halt a program with the PCB of its caller or without *)
(* its return path.  halt between curr_pcb = parent and pnum = pid         *)
(* (syscall.c:95-96): Ctrl-C would end the caller and keep its slot.       *)
Window == (kpc \in {"exec", "pcb"} /\ cont = "user") \/ kpc = "unwound"

(* No second terminal is shown and no Ctrl-C falls into a window.  This is *)
(* an assumption about the user: the code does not enforce it.             *)
Undisturbed == indicator' = 1 /\ ~(Window /\ CtrlC)

OneTerminalSpec == Init /\ [][Next /\ Undisturbed]_vars

(* The kernel's own steps are not postponed for ever: nothing else runs on *)
(* the CPU, and an interrupt returns or takes over.                        *)
OneTerminalFairSpec == OneTerminalSpec /\ WF_vars(Step) /\ WF_vars(Pit)

Programs == NSHELL .. NPROC - 1

(* The slot execute has taken for a program that is not running yet.       *)
Loading(p) == kpc = "exec" /\ p = pnum /\ p # curr_pcb

(* Programs that have been started and have not returned to their caller.  *)
Started(p) ==
  /\ p \in Programs
  /\ \/ Live(p) /\ ~Loading(p)
     \/ kpc = "unwind" /\ p = curr_pcb

FrameOf(p) ==
  /\ haltesp[p].stk = parent[p] /\ haltesp[p].d > 0
  /\ kstack[haltesp[p].stk][haltesp[p].d] = 
       [child |-> p, owner |-> parent[p], cont |-> "user"]
  /\ oldesp[p] = haltesp[p]

(* The callers form a chain that ends in the running process.              *)
ChainInv ==
  /\ \A p \in Slots : Live(p) => p = 0 \/ p \in Programs
  /\ \A p \in Programs : Started(p) =>
       /\ parent[p] \in Slots \ {p, curr_pcb}
       /\ Live(parent[p]) /\ ~Loading(parent[p])
       /\ \A q \in Programs : Started(q) /\ q # p => parent[q] # parent[p]
  /\ \A p \in Slots : Live(p) /\ p # curr_pcb /\ ~Loading(p) =>
       \E q \in Programs : Started(q) /\ parent[q] = p

(* Each program finds the activation that started it where its PCB says.   *)
FramesInv ==
  \A p \in Programs : Started(p) /\ ~(kpc = "pcb" /\ p = curr_pcb) => FrameOf(p)

(* halt runs on the stack of a process that is gone: its own, or the one   *)
(* of the program whose halt a Ctrl-C interrupted; a base shell that is    *)
(* being started again is back in its slot by then.                        *)
HaltStack ==
  /\ ksp.stk \in Slots /\ ksp.d > 0
  /\ ~Live(ksp.stk) \/ (kpc \in {"exec", "pcb"} /\ ksp.stk = 0)

(* What holds at each stage of execute and halt.                           *)
StageInv ==
  /\ indicator = 1 /\ kpc # "lost" /\ parent[0] \in {0, NULL}
  /\ kpc = "boot" => /\ curr_pcb = NULL /\ process1.screen = 0 /\ ksp = NoLoc /\ intf = 0
                     /\ \A p \in Slots : ~Live(p)
  /\ kpc # "boot" => fts[1] = 1
  /\ kpc \notin {"boot", "respawn"} => Live(0)
  /\ curr_pcb # NULL /\ ~(kpc = "pcb" /\ cont = "lost") => process1.screen = 1
  /\ InUser => /\ Live(pnum) /\ curr_pcb = pnum /\ page = pnum /\ esp0.stk = pnum
               /\ who = pnum
  /\ kpc = "wait" => ksp.stk = pnum
  /\ kpc \in {"exec", "pcb"} => Live(pnum) /\ page = pnum
  /\ kpc = "exec" =>
       \/ cont = "user" /\ pnum \in Programs /\ curr_pcb \in Slots \ {pnum}
          /\ Live(curr_pcb) /\ ksp.stk = curr_pcb /\ ksp.d > 0 /\ who = curr_pcb
       \/ cont = "unwind" /\ pnum = 0 /\ curr_pcb = 0 /\ HaltStack
       \/ cont = "lost" /\ pnum = 0 /\ curr_pcb = NULL /\ ksp = NoLoc /\ intf = 0
  /\ kpc = "pcb" =>
       /\ curr_pcb = pnum /\ esp0 = Top(pnum)
       /\ \/ cont = "user" /\ pnum \in Programs /\ ksp.stk = parent[pnum] /\ ksp.d > 0
             /\ who = parent[pnum]
          \/ cont = "unwind" /\ pnum = 0 /\ HaltStack
          \/ cont = "lost" /\ pnum = 0 /\ ksp = NoLoc /\ intf = 0
  /\ kpc \in {"respawn", "unwind", "unwound", "resume"} => HaltStack
  /\ kpc = "respawn" => pnum = 0 /\ curr_pcb = 0 /\ ~Live(0)
  /\ kpc = "unwind" => curr_pcb \in Programs /\ pnum = curr_pcb /\ ~Live(curr_pcb)
  /\ kpc \in {"unwound", "resume"} =>
       /\ curr_pcb \in Slots /\ Live(curr_pcb)
       /\ esp0.stk = curr_pcb /\ ret.stk = curr_pcb /\ ret.d > 0
       /\ kstack[ret.stk][ret.d].child # NULL
       /\ kstack[ret.stk][ret.d].owner = curr_pcb
       /\ kstack[ret.stk][ret.d].cont = "user"
  /\ kpc = "resume" => pnum = curr_pcb /\ page = curr_pcb

IInv == TypeOK /\ StageInv /\ ChainInv /\ FramesInv
-----------------------------------------------------------------------------
(* The running process of the calls is the owner of the current PCB; a     *)
(* program that is being loaded does not count yet.                        *)
Calls == INSTANCE ProcessCalls WITH
  Procs   <- Slots,
  Base    <- 0,
  None    <- NULL,
  running <- curr_pcb,
  waiting <- {p \in Slots \ {curr_pcb} : Live(p) /\ ~Loading(p)},
  caller  <- [p \in Slots \ {0} |-> parent[p]]

(* execute and halt behave as call and return: a program that halts gives  *)
(* the CPU back to the process that executed it, which was suspended since *)
(* then, and no other process is touched (syscall.c:27-42, 80-132).        *)
ImplementsCalls == Calls!Spec
-----------------------------------------------------------------------------
(* Every execute and every halt gets back to user code, also when a Ctrl-C *)
(* has the base shell started again inside halt (syscall.c:84-87), unless  *)
(* the kernel stack is used up first.                                      *)
SyscallsComplete ==
  kpc \notin {"boot", "user", "wait"} ~> kpc = "user" \/ overrun
=============================================================================
