------------------------------ MODULE Process ------------------------------
(***************************************************************************)
(* Process control in student-distrib: execute and halt (syscall.c), the   *)
(* stack switches they make (wrappers.S), the first start of a terminal    *)
(* (scheduling.c), Ctrl-C and Alt-Fn (keyboard.c), the exceptions (idt.c)  *)
(* and the timer tick (pit.c).                                             *)
(*                                                                         *)
(* There is one CPU.  At any time it runs one process, in user mode or in  *)
(* an activation of the kernel on the kernel stack of that process.        *)
(* execute() freezes the activation it runs in and never returns on its    *)
(* own: halt() of the child resumes the frozen activation through the      *)
(* stack pointer kept in the child's PCB.  int 0x80 is a trap gate, so a   *)
(* key can interrupt every step of execute and halt; the keyboard and the  *)
(* exceptions use interrupt gates, so their own halt is not interrupted.   *)
(*                                                                         *)
(* halt() leaves tss.esp0 below the activation it resumes, so every pair   *)
(* of execute and halt uses up one more activation of the caller's kernel  *)
(* stack; an entry that finds the stack full runs into the PCB below it.   *)
(* What the machine does from then on is not followed.                     *)
(***************************************************************************)
EXTENDS Integers

CONSTANTS
  NSHELL,        \* terminals; slots 0..NSHELL-1 are kept for their shells
  NPROC,         \* length of pnumarr
  AltKeys,       \* the n for which Alt-Fn is pressed
  KeysInKernel,  \* keys also arrive inside execute and halt
  Statuses,      \* exit statuses of the programs
  MaxDepth       \* BOUND: activations that fit on a kernel stack

ASSUME ConstantsAssumption ==
  /\ NSHELL \in Nat \ {0} /\ NPROC \in Nat /\ NSHELL < NPROC
  /\ AltKeys \subseteq 1 .. NSHELL
  /\ KeysInKernel \in BOOLEAN
  /\ Statuses \subseteq 0 .. 255
  /\ MaxDepth \in Nat

NULL      == -1
Slots     == 0 .. NPROC - 1
Terminals == 1 .. NSHELL

(* A place in a kernel stack: the slot that owns the stack and the number  *)
(* of activations on it.  Depth 0 is the top, the value pcb->stack.        *)
Locs  == [stk : Slots \cup {NULL}, d : 0 .. MaxDepth]
NoLoc == [stk |-> NULL, d |-> 0]
Top(p) == [stk |-> p, d |-> 0]

(* What a frozen activation does when it is resumed: the execute system    *)
(* call returns; the key handler returns to the user code or to the read   *)
(* or write it interrupted; halt goes on to unwind.  "lost": the boot      *)
(* code, or a key handler that interrupted an execute or a halt half way:  *)
(* what becomes of that one is not followed.                               *)
Conts   == {"user", "irq", "wait", "unwind", "lost"}

(* A frozen activation: the child whose creation froze it, the process it  *)
(* works for and what follows.                                             *)
Frames  == [child : Slots \cup {NULL}, owner : Slots \cup {NULL}, cont : Conts]
NoFrame == [child |-> NULL, owner |-> NULL, cont |-> "lost"]

(* user, wait: in user mode, blocked in a read or write;                   *)
(* exec: slot taken and loaded; pcb: PCB filled, stack not yet switched;   *)
(* respawn, unwind, unwound, resume: the stages of halt; lost: the kernel  *)
(* followed a pointer to no frozen activation or to no PCB, or resumed one *)
(* whose continuation is lost.                                             *)
Stages == {"boot", "user", "wait", "exec", "pcb", "respawn", "unwind",
           "unwound", "resume", "lost"}

VARIABLES
  pnumarr,   \* slot -> 1 when taken
  pnum,      \* slot of the current process
  curr_pcb,  \* PCB of the current process, named by its slot
  parent, oldesp, haltesp,   \* fields of the PCBs
  process1,  \* the only list node in use (active stays 1); screen 0: head is NULL
  indicator, \* terminal on display
  fts,       \* terminal -> 1 when its shell has been started
  esp0,      \* tss.esp0
  page,      \* slot mapped at 128 MB
  kstack,    \* slot -> depth -> frozen activation
  ksp,       \* the running activation
  kpc,       \* its stage
  cont,      \* what the execute() in progress returns to
  intf,      \* the interrupt flag
  ret,       \* halt's local oldesp
  status,    \* halt's argument
  eax,       \* value the last execute gave to its caller
  who,       \* the process whose code the CPU runs, or for which it is in the kernel
  overrun    \* an activation has run over the end of a kernel stack

pcbs  == <<parent, oldesp, haltesp>>
cpu   == <<esp0, page, kstack, ksp, kpc, cont, intf>>
table == <<pnumarr, pnum, curr_pcb>>
term  == <<indicator, fts, process1>>
local == <<ret, status, eax>>
vars  == <<pcbs, cpu, table, term, local, who, overrun>>

TypeOK ==
  /\ pnumarr \in [Slots -> {0, 1}]
  /\ pnum \in Slots
  /\ curr_pcb \in Slots \cup {NULL}
  /\ parent \in [Slots -> Slots \cup {NULL}]
  /\ oldesp \in [Slots -> Locs] /\ haltesp \in [Slots -> Locs]
  /\ process1 \in [pcb : Slots \cup {NULL}, screen : {0} \cup Terminals]
  /\ indicator \in Terminals
  /\ fts \in [Terminals -> {0, 1}]
  /\ esp0 \in Locs /\ ksp \in Locs /\ ret \in Locs
  /\ page \in Slots \cup {NULL}
  /\ kstack \in [Slots -> [1 .. MaxDepth -> Frames]]
  /\ kpc \in Stages
  /\ cont \in Conts
  /\ intf \in {0, 1}
  /\ status \in Statuses \cup {0}
  /\ eax \in {-1, 0}
  /\ who \in Slots \cup {NULL}
  /\ overrun \in BOOLEAN

Init ==
  /\ pnumarr = [p \in Slots |-> 0] /\ pnum = 0 /\ curr_pcb = NULL
  /\ parent = [p \in Slots |-> NULL]
  /\ oldesp = [p \in Slots |-> NoLoc] /\ haltesp = [p \in Slots |-> NoLoc]
  /\ process1 = [pcb |-> NULL, screen |-> 0]
  /\ indicator = 1 /\ fts = [n \in Terminals |-> 0]
  /\ esp0 = NoLoc /\ page = NULL
  /\ kstack = [p \in Slots |-> [d \in 1 .. MaxDepth |-> NoFrame]]
  /\ ksp = NoLoc /\ kpc = "boot" /\ cont = "lost" /\ intf = 0
  /\ ret = NoLoc /\ status = 0 /\ eax = 0
  /\ who = NULL /\ overrun = FALSE
-----------------------------------------------------------------------------
(* Entering the kernel.  From user mode the CPU loads tss.esp0; in the     *)
(* kernel it stays on the current stack.  Whatever lies beyond is memory   *)
(* the new activation may overwrite.                                       *)
Base     == IF kpc = "user" THEN esp0 ELSE ksp
EntryLoc == [stk |-> Base.stk, d |-> Base.d + 1]
Clobbered ==
  [kstack EXCEPT ![Base.stk] =
     [d \in 1 .. MaxDepth |-> IF d > Base.d THEN NoFrame ELSE kstack[Base.stk][d]]]
CanEnter == Base.d + 1 <= MaxDepth

Enter == CanEnter /\ ksp' = EntryLoc /\ kstack' = Clobbered

(* A system call or an interrupt that finds the stack full.                *)
Interruptible == kpc \in {"user", "wait"} \/ (intf = 1 /\ kpc \notin {"boot", "lost"})
Overrun ==
  /\ Interruptible /\ ~CanEnter
  /\ overrun' = TRUE
  /\ UNCHANGED <<pcbs, cpu, table, term, local, who>>

(* When a key can be taken.                                                *)
KeyTaken ==
  \/ kpc \in {"user", "wait"}
  \/ KeysInKernel /\ intf = 1 /\ kpc \notin {"boot", "lost"}

(* setPnum(): the slot it takes, if any, when terminal n is on display.    *)
SetPnumAnySlot(n, p) ==
  pnumarr[p] = 0 /\ \A q \in 0 .. p - 1 : pnumarr[q] # 0
SetPnumNoCheck(n, p) ==
  \/ p = n - 1 /\ pnumarr[p] = 0
  \/ pnumarr[n - 1] # 0 /\ p = NSHELL
SetPnum(n, p) ==
  /\ pnumarr[p] = 0
  /\ \/ p = n - 1
     \/ /\ pnumarr[n - 1] # 0
        /\ p \in NSHELL .. NPROC - 1
        /\ \A q \in NSHELL .. p - 1 : pnumarr[q] # 0
SetPnumFails(n) == \A p \in Slots : ~SetPnum(n, p)

(* execute() up to createPCB(): setPnum, setupPage, loadFile, initFOTP.    *)
TakeSlot(n, p, c) ==
  /\ SetPnum(n, p)
  /\ pnumarr' = [pnumarr EXCEPT ![p] = 1]
  /\ pnum' = p
  /\ page' = p
  /\ kpc' = "exec"
  /\ cont' = c
-----------------------------------------------------------------------------
(* entry() ends in init_screen_memory(), which starts terminal 1.          *)
Boot ==
  /\ kpc = "boot"
  /\ fts' = [fts EXCEPT ![1] = 1]
  /\ \E p \in Slots : TakeSlot(1, p, "lost")
  /\ UNCHANGED <<pcbs, curr_pcb, indicator, process1, esp0, kstack, ksp, intf, local, who>>

(* The execute system call of a program that is an executable file.        *)
Execute ==
  /\ kpc = "user" /\ Enter
  /\ \E p \in Slots : TakeSlot(indicator, p, "user")
  /\ UNCHANGED <<pcbs, curr_pcb, term, esp0, intf, local, who>>

(* checkFile fails (-1), or every slot is taken (execute returns 0).       *)
ExecuteFails ==
  /\ kpc = "user" /\ CanEnter
  /\ kstack' = Clobbered
  /\ \/ eax' = -1
     \/ SetPnumFails(indicator) /\ eax' = 0
  /\ UNCHANGED <<pcbs, table, term, esp0, page, ksp, kpc, cont, intf, ret, status, who>>

(* createPCB() up to the stack switch.                                     *)
ParentIsShell == indicator - 1
Parent        == curr_pcb
ChildStackKept == esp0
ChildStack     == Top(pnum)
CreatePCB ==
  /\ kpc = "exec"
  /\ parent' = [parent EXCEPT ![pnum] = Parent]
  /\ curr_pcb' = pnum
  /\ esp0' = ChildStack
  /\ kpc' = "pcb"
  /\ UNCHANGED <<oldesp, haltesp, pnumarr, pnum, term, page, kstack, ksp, cont,
                 intf, local, who>>

(* The rest of createPCB(): the scan of the list by screen, which sees     *)
(* only process1, the list node, Save and contextSwitch, which freeze      *)
(* the running activation and enter user mode by iret: the CPU runs the    *)
(* image in the page at 128 MB.  The locals of a halt that started this    *)
(* shell are gone with it.                                                 *)
ContextSwitch ==
  /\ kpc = "pcb"
  /\ oldesp' = [oldesp EXCEPT ![curr_pcb] = ksp]
  /\ haltesp' = IF process1.screen = indicator
                THEN [haltesp EXCEPT ![curr_pcb] = ksp]
                ELSE haltesp
  /\ process1' = [pcb |-> curr_pcb, screen |-> indicator]
  /\ kstack' = IF ksp.stk = NULL THEN kstack
               ELSE [kstack EXCEPT ![ksp.stk][ksp.d] =
                       [child |-> curr_pcb, owner |-> who, cont |-> cont]]
  /\ who' = page
  /\ ksp' = NoLoc /\ kpc' = "user" /\ cont' = "lost" /\ intf' = 1
  /\ ret' = NoLoc /\ status' = 0
  /\ UNCHANGED <<parent, table, indicator, fts, esp0, page, eax>>
-----------------------------------------------------------------------------
(* halt(s): free the slot; a base shell is started again.                  *)
FreeSlotForgotten == pnumarr
FreeSlot          == [pnumarr EXCEPT ![pnum] = 0]
BaseShellFromOne(p) == p \in 1 .. NSHELL
BaseShell(p)        == p < NSHELL
HaltEnter(s, i) ==
  /\ Enter
  /\ pnumarr' = FreeSlot
  /\ status' = s
  /\ intf' = i
  /\ kpc' = IF BaseShell(pnum) THEN "respawn" ELSE "unwind"
  /\ UNCHANGED <<pcbs, pnum, curr_pcb, term, esp0, page, cont, ret, eax, who>>

(* The halt system call, Ctrl-C, and an exception raised by the program.   *)
Halt == kpc = "user" /\ \E s \in Statuses : HaltEnter(s, 1)

CtrlC == KeyTaken /\ HaltEnter(0, 0)

Fault == kpc = "user" /\ HaltEnter(0, 0)

(* execute("shell") inside halt; when every slot is taken halt goes on.    *)
RespawnFailed == "unwind"
HaltRespawn ==
  /\ kpc = "respawn"
  /\ \/ \E p \in Slots : TakeSlot(indicator, p, "unwind")
     \/ SetPnumFails(indicator) /\ kpc' = RespawnFailed
        /\ UNCHANGED <<pnumarr, pnum, page, cont>>
  /\ UNCHANGED <<pcbs, curr_pcb, term, esp0, kstack, ksp, intf, local, who>>

(* Up to curr_pcb = parent.  The base shell of the boot has no parent: the *)
(* next statement reads the pid through a NULL pointer.                    *)
Esp0Kept    == esp0
Esp0OnHalt  == oldesp[curr_pcb]
EspOfParent == IF parent[curr_pcb] = NULL THEN NoLoc ELSE haltesp[parent[curr_pcb]]
EspOnHalt   == haltesp[curr_pcb]
HaltUnwind ==
  /\ kpc = "unwind"
  /\ ret' = EspOnHalt
  /\ esp0' = Esp0OnHalt
  /\ curr_pcb' = parent[curr_pcb]
  /\ kpc' = IF parent[curr_pcb] = NULL THEN "lost" ELSE "unwound"
  /\ UNCHANGED <<pcbs, pnumarr, pnum, term, page, kstack, ksp, cont, intf, status,
                 eax, who>>

(* From pnum = curr_pcb->pid to the update of the list node.               *)
PidOfGrandparent == parent[curr_pcb]
PidOnHalt        == curr_pcb
PreviousPage     == pnum - 1
ParentPage       == curr_pcb
NodeKept         == process1
NodeOnHalt ==
  IF process1.screen = indicator THEN [process1 EXCEPT !.pcb = curr_pcb] ELSE process1
HaltReload ==
  /\ kpc = "unwound"
  /\ pnum' = PidOnHalt
  /\ page' = ParentPage
  /\ process1' = NodeOnHalt
  /\ kpc' = "resume"
  /\ UNCHANGED <<pcbs, pnumarr, curr_pcb, indicator, fts, esp0, kstack, ksp, cont,
                 intf, local, who>>

(* retToPar: the activation at ret runs again, whichever is frozen there   *)
(* and whoever it works for.  createPCB returns 0 to it.                   *)
Frozen(l) ==
  l.stk # NULL /\ l.d > 0 /\ kstack[l.stk][l.d].child # NULL
ContAt(l) == IF Frozen(l) THEN kstack[l.stk][l.d].cont ELSE "lost"

RetToUser ==
  /\ kpc = "resume" /\ ContAt(ret) \in {"user", "irq"}
  /\ kpc' = "user" /\ ksp' = NoLoc /\ intf' = 1
  /\ eax' = IF ContAt(ret) = "user" THEN 0 ELSE eax
  /\ who' = kstack[ret.stk][ret.d].owner
  /\ kstack' = [kstack EXCEPT ![ret.stk][ret.d] = NoFrame]
  /\ ret' = NoLoc /\ status' = 0
  /\ UNCHANGED <<pcbs, table, term, esp0, page, cont>>

RetToKernel ==
  /\ kpc = "resume" /\ ContAt(ret) \in {"wait", "unwind"}
  /\ kpc' = ContAt(ret)
  /\ ksp' = IF ContAt(ret) = "wait" THEN [stk |-> ret.stk, d |-> ret.d - 1] ELSE ret
  /\ intf' = IF ContAt(ret) = "wait" THEN 1 ELSE intf
  /\ who' = kstack[ret.stk][ret.d].owner
  /\ kstack' = [kstack EXCEPT ![ret.stk][ret.d] = NoFrame]
  /\ ret' = NoLoc /\ status' = 0
  /\ UNCHANGED <<pcbs, table, term, esp0, page, cont, eax>>

RetToNowhere ==
  /\ kpc = "resume" /\ ContAt(ret) = "lost"
  /\ kpc' = "lost"
  /\ UNCHANGED <<pcbs, table, term, esp0, page, kstack, ksp, cont, intf, local, who>>

RetToPar == RetToUser \/ RetToKernel \/ RetToNowhere
-----------------------------------------------------------------------------
(* Alt-Fn the first time: screenN() starts a shell from the key handler.   *)
AltFirst(n) ==
  /\ KeyTaken /\ fts[n] = 0 /\ Enter
  /\ indicator' = n
  /\ fts' = [fts EXCEPT ![n] = 1]
  /\ intf' = 0
  /\ \E p \in Slots : TakeSlot(n, p, CASE kpc = "user" -> "irq" [] kpc = "wait" -> "wait"
                                              [] OTHER -> "lost")
  /\ UNCHANGED <<pcbs, curr_pcb, process1, esp0, local, who>>

(* Alt-Fn later: only the display changes, the same process goes on.       *)
AltAgain(n) ==
  /\ KeyTaken /\ fts[n] = 1 /\ CanEnter
  /\ indicator' = n
  /\ kstack' = Clobbered
  /\ UNCHANGED <<pcbs, table, fts, process1, esp0, page, ksp, kpc, cont, intf, local,
                 who>>

(* A read or write that spins in the kernel, and its end.                  *)
Block ==
  /\ kpc = "user" /\ Enter
  /\ kpc' = "wait"
  /\ UNCHANGED <<pcbs, table, term, esp0, page, cont, intf, local, who>>
Unblock ==
  /\ kpc = "wait"
  /\ kpc' = "user" /\ ksp' = NoLoc
  /\ UNCHANGED <<pcbs, table, term, esp0, page, kstack, cont, intf, local, who>>

(* pit_handler(): the call of pSwitch is commented out; the tick leaves    *)
(* nothing behind but what its activation overwrote.                       *)
Pit ==
  /\ ~overrun /\ kpc \in {"user", "wait"} /\ CanEnter
  /\ kstack' = Clobbered
  /\ UNCHANGED <<pcbs, table, term, esp0, page, ksp, kpc, cont, intf, local, who, overrun>>

(* The kernel's own steps, and what programs and keys do.                  *)
Step == /\ ~overrun /\ UNCHANGED overrun
        /\ \/ CreatePCB \/ ContextSwitch
           \/ HaltRespawn \/ HaltUnwind \/ HaltReload \/ RetToPar

Event == /\ ~overrun /\ UNCHANGED overrun
         /\ \/ Boot \/ Execute \/ ExecuteFails \/ Halt \/ CtrlC \/ Fault
            \/ \E n \in AltKeys : AltFirst(n) \/ AltAgain(n)
            \/ Block \/ Unblock

Next == Step \/ Event \/ Pit \/ Overrun

Spec == Init /\ [][Next]_vars
-----------------------------------------------------------------------------
InUser  == kpc \in {"user", "wait"}
Live(p) == pnumarr[p] = 1

(* pnum, curr_pcb and the page directory entry are set at three different  *)
(* points of execute and of halt.  Whatever keys interrupt these and       *)
(* whatever terminal they start, the three name the same process when user *)
(* mode is entered again.  It need not be the process that runs there:     *)
(* halt may have resumed another one through a stale haltesp.              *)
GlobalsAgree == InUser => curr_pcb = pnum /\ page = pnum

(* With one terminal and no Ctrl-C in the windows of execute and halt it   *)
(* is: the process whose code the CPU runs finds its own page at 128 MB    *)
(* and its own PCB behind curr_pcb.                                        *)
RunsInItsOwnPage == InUser => who = pnum /\ who = curr_pcb /\ who = page

(* It then also owns its slot, and the kernel stack in tss.esp0 is its own.*)
RunningOwnsSlotAndStack == InUser => Live(pnum) /\ esp0.stk = pnum

(* The list node of the displayed terminal, which terminal_write compares  *)
(* with indicator, names the process that runs.                            *)
ForegroundNode ==
  InUser /\ process1.screen = indicator => process1.pcb = curr_pcb

(* The first Alt-Fn of a terminal finds the slot of its shell free, so     *)
(* execute("shell") in screenN cannot fail (scheduling.c:72-82).           *)
FirstStartHasItsSlot == \A n \in Terminals : fts[n] = 0 => ~Live(n - 1)

(* The activation that execute froze is still where the child's haltesp    *)
(* says, in the caller's stack, until the child halts.                     *)
ReturnPathIntact ==
  InUser => \A p \in NSHELL .. NPROC - 1 :
    Live(p) => /\ haltesp[p].stk = parent[p] /\ haltesp[p].d > 0
               /\ kstack[haltesp[p].stk][haltesp[p].d] =
                    [child |-> p, owner |-> parent[p], cont |-> "user"]
               /\ oldesp[p] = haltesp[p]

(* The taken slots are the running process and the callers that wait for   *)
(* it: every other live process is the caller of exactly one live process, *)
(* every program has a live caller, and the running process is nobody's.   *)
Callees(p) == {q \in Slots \ {p} : Live(q) /\ parent[q] = p}
SlotsAccounted ==
  InUser => \A p \in Slots : Live(p) =>
    /\ p >= NSHELL => parent[p] \in Slots \ {p} /\ Live(parent[p])
    /\ IF p = pnum THEN Callees(p) = {} ELSE \E q \in Slots : Callees(p) = {q}

(* halt never resumes through a stack pointer that createPCB did not save  *)
(* for it, nor through a parent that does not exist.                       *)
NeverLost == kpc # "lost"
=============================================================================
