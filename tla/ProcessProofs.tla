--------------------------- MODULE ProcessProofs ---------------------------
(***************************************************************************)
(* Theorems about Process for every number of slots, terminals and         *)
(* activations, every set of keys and statuses, and with keys that         *)
(* interrupt execute and halt.                                             *)
(***************************************************************************)
EXTENDS Process, TLAPS

(* User code never runs without a current PCB: only the first execute of   *)
(* the boot has none, and no key can interrupt that one.                   *)
CurrInv ==
  /\ kpc \notin {"boot", "exec", "lost"} => curr_pcb \in Slots
  /\ kpc = "exec" => curr_pcb \in Slots \/ intf = 0
  /\ kpc = "boot" => intf = 0

(* Where pnum, the page and curr_pcb agree inside execute and halt.        *)
PageInv ==
  /\ kpc \in {"exec", "pcb", "resume", "user", "wait"} => page = pnum
  /\ kpc \in {"pcb", "resume", "user", "wait"} => curr_pcb = pnum

PInv == TypeOK /\ CurrInv /\ PageInv

LEMMA PInvInit == Init => PInv
  <1> SUFFICES ASSUME Init PROVE PInv
    OBVIOUS
  <1>1. NoFrame \in Frames
    BY DEF NoFrame, Frames, NULL, Conts
  <1>2. kstack \in [Slots -> [1 .. MaxDepth -> Frames]]
    BY <1>1 DEF Init
  <1>3. 0 \in Slots /\ 1 \in Terminals /\ NoLoc \in Locs
    BY ConstantsAssumption DEF Slots, Terminals, NoLoc, Locs
  <1>4. TypeOK
    BY <1>2, <1>3, ConstantsAssumption DEF Init, TypeOK, Stages, Conts
  <1> QED
    BY <1>4 DEF Init, PInv, CurrInv, PageInv

LEMMA EnterType == TypeOK /\ Enter => ksp' \in Locs /\ kstack' \in [Slots -> [1 .. MaxDepth -> Frames]]
  <1> SUFFICES ASSUME TypeOK, Enter
               PROVE  ksp' \in Locs /\ kstack' \in [Slots -> [1 .. MaxDepth -> Frames]]
    OBVIOUS
  <1>1. Base \in Locs
    BY DEF Base, TypeOK
  <1>2. NoFrame \in Frames
    BY DEF NoFrame, Frames, NULL, Conts
  <1>3. ksp' \in Locs
    BY <1>1, ConstantsAssumption DEF Enter, CanEnter, EntryLoc, Locs
  <1>4. kstack' \in [Slots -> [1 .. MaxDepth -> Frames]]
    BY <1>1, <1>2 DEF Enter, Clobbered, TypeOK
  <1> QED BY <1>3, <1>4

LEMMA ClobberedType == TypeOK => Clobbered \in [Slots -> [1 .. MaxDepth -> Frames]]
  <1>2. NoFrame \in Frames
    BY DEF NoFrame, Frames, NULL, Conts
  <1> QED BY <1>2 DEF Clobbered, TypeOK

LEMMA ResumedOwner ==
  ASSUME TypeOK, ContAt(ret) # "lost"
  PROVE  /\ ret.stk \in Slots /\ ret.d \in 1 .. MaxDepth
         /\ kstack[ret.stk][ret.d].owner \in Slots \cup {NULL}
  <1>1. ret.stk \in Slots /\ ret.d \in 1 .. MaxDepth
    BY ConstantsAssumption DEF ContAt, Frozen, TypeOK, Locs
  <1>k. kstack \in [Slots -> [1 .. MaxDepth -> Frames]]
    BY DEF TypeOK
  <1>2. kstack[ret.stk][ret.d] \in Frames
    BY <1>1, <1>k
  <1> QED BY <1>1, <1>2 DEF Frames

(* The bodies of createPCB, halt and the key handlers, unfolded.           *)
LEMMA PInvNext == PInv /\ [Next]_vars => PInv'
  <1> SUFFICES ASSUME PInv, [Next]_vars PROVE PInv'
    OBVIOUS
  <1> USE ConstantsAssumption DEF PInv, CurrInv, PageInv
  <1>a. NoLoc \in Locs /\ NoFrame \in Frames
    BY DEF NoLoc, Locs, NoFrame, Frames, NULL, Conts
  <1>b. \A p \in Slots : Top(p) \in Locs
    BY DEF Top, Locs
  <1>c. overrun' \in BOOLEAN
    BY DEF Next, Step, Event, Pit, Overrun, vars, TypeOK
  <1> USE <1>c
  <1>1. CASE Boot
    BY <1>1 DEF Boot, TakeSlot, SetPnum, TypeOK, Stages, Conts, Terminals, pcbs, local
  <1>2. CASE Execute
    BY <1>2, EnterType
    DEF Execute, TakeSlot, SetPnum, TypeOK, Stages, Conts, pcbs, term, local
  <1>3. CASE ExecuteFails
    BY <1>3, ClobberedType
    DEF ExecuteFails, TypeOK, Stages, pcbs, table, term
  <1>4. ASSUME NEW s \in Statuses \cup {0}, NEW i \in {0, 1}, HaltEnter(s, i),
               kpc # "boot", kpc # "lost", kpc = "exec" => intf = 1
        PROVE  PInv'
    BY <1>4, EnterType
    DEF HaltEnter, FreeSlot, TypeOK, Stages, pcbs, term
  <1>5. CASE Halt
    BY <1>4, <1>5 DEF Halt
  <1>6. CASE CtrlC
    BY <1>4, <1>6 DEF CtrlC, KeyTaken
  <1>7. CASE Fault
    BY <1>4, <1>7 DEF Fault
  <1>8. ASSUME NEW n \in AltKeys, AltFirst(n) PROVE PInv'
    <2>1. n \in Terminals
      BY DEF Terminals
    <2> QED
      BY <1>8, <2>1, EnterType
      DEF AltFirst, KeyTaken, TakeSlot, SetPnum, TypeOK, Stages, Conts, pcbs, local
  <1>9. ASSUME NEW n \in AltKeys, AltAgain(n) PROVE PInv'
    <2>1. n \in Terminals
      BY DEF Terminals
    <2> QED
      BY <1>9, <2>1, ClobberedType DEF AltAgain, TypeOK, pcbs, table, local
  <1>10. CASE Block
    BY <1>10, EnterType DEF Block, TypeOK, Stages, pcbs, table, term, local
  <1>11. CASE Unblock
    BY <1>11, <1>a DEF Unblock, TypeOK, Stages, pcbs, table, term, local
  <1>12. CASE Pit
    BY <1>12, ClobberedType DEF Pit, TypeOK, pcbs, table, term, local
  <1>13. CASE CreatePCB
    BY <1>13, <1>b DEF CreatePCB, Parent, ChildStack, TypeOK, Stages, term, local
  <1>14. CASE ContextSwitch
    <2>1. [child |-> curr_pcb, owner |-> who, cont |-> cont] \in Frames
      BY <1>14 DEF ContextSwitch, TypeOK, Frames
    <2>2. oldesp' \in [Slots -> Locs] /\ haltesp' \in [Slots -> Locs]
      BY <1>14 DEF ContextSwitch, TypeOK
    <2>3. kstack' \in [Slots -> [1 .. MaxDepth -> Frames]]
      BY <1>14, <2>1 DEF ContextSwitch, TypeOK
    <2>4. process1' \in [pcb : Slots \cup {NULL}, screen : {0} \cup Terminals]
      BY <1>14 DEF ContextSwitch, TypeOK
    <2> QED
      BY <1>14, <1>a, <2>2, <2>3, <2>4
      DEF ContextSwitch, TypeOK, Stages, Conts, table
  <1>15. CASE HaltRespawn
    BY <1>15 DEF HaltRespawn, RespawnFailed, TakeSlot, SetPnum, TypeOK, Stages, Conts,
                 pcbs, term, local
  <1>16. CASE HaltUnwind
    BY <1>16 DEF HaltUnwind, Esp0OnHalt, EspOnHalt, TypeOK, Stages, pcbs, term, NULL
  <1>17. CASE HaltReload
    BY <1>17 DEF HaltReload, PidOnHalt, ParentPage, NodeOnHalt, TypeOK, Stages, pcbs, local
  <1>18. CASE RetToUser
    <2>1. kstack' \in [Slots -> [1 .. MaxDepth -> Frames]]
      BY <1>18, <1>a DEF RetToUser, TypeOK
    <2>2. who' \in Slots \cup {NULL}
      BY <1>18, ResumedOwner DEF RetToUser, ContAt
    <2> QED
      BY <1>18, <1>a, <2>1, <2>2 DEF RetToUser, TypeOK, Stages, pcbs, table, term
  <1>19. CASE RetToKernel
    <2>1. kstack' \in [Slots -> [1 .. MaxDepth -> Frames]]
      BY <1>19, <1>a DEF RetToKernel, TypeOK
    <2>2. ret.d \in 0 .. MaxDepth /\ ret.d > 0
      BY <1>19 DEF RetToKernel, ContAt, Frozen, TypeOK, Locs
    <2>3. ksp' \in Locs
      BY <1>19, <2>2 DEF RetToKernel, TypeOK, Locs
    <2>4. kpc' \in {"wait", "unwind"} /\ intf' \in {0, 1} /\ ret' \in Locs
      BY <1>19, <1>a DEF RetToKernel, TypeOK
    <2>5. /\ kpc = "resume" /\ status' = 0
          /\ UNCHANGED <<pcbs, table, term, esp0, page, cont, eax>>
      BY <1>19 DEF RetToKernel
    <2>6. who' \in Slots \cup {NULL}
      BY <1>19, ResumedOwner DEF RetToKernel, ContAt
    <2> QED
      BY <2>1, <2>3, <2>4, <2>5, <2>6 DEF TypeOK, Stages, pcbs, table, term
  <1>20. CASE RetToNowhere
    BY <1>20 DEF RetToNowhere, TypeOK, Stages, pcbs, table, term, local
  <1>21. CASE UNCHANGED vars
    BY <1>21 DEF vars, pcbs, cpu, table, term, local, TypeOK
  <1>22. CASE Overrun
    BY <1>22 DEF Overrun, pcbs, cpu, table, term, local, TypeOK
  <1> QED
    BY <1>1, <1>2, <1>3, <1>5, <1>6, <1>7, <1>8, <1>9, <1>10, <1>11, <1>12, <1>13,
       <1>14, <1>15, <1>16, <1>17, <1>18, <1>19, <1>20, <1>21, <1>22
    DEF Next, Step, Event, RetToPar

LEMMA PInvAlways == Spec => []PInv
  <1> QED BY PInvInit, PInvNext, PTL DEF Spec

(* The variables of process control keep their types, whatever the         *)
(* interleaving of keys with execute and halt: no path of halt indexes the *)
(* PCBs with a pointer that is NULL (syscall.c:88-95).                     *)
THEOREM TypeCorrect == Spec => []TypeOK
  <1>1. PInv => TypeOK
    BY DEF PInv
  <1> QED BY <1>1, PInvAlways, PTL

(* In user mode pnum, curr_pcb and the page directory entry name the same  *)
(* process, whatever keys interrupted execute and halt.                    *)
THEOREM GlobalsAlwaysAgree == Spec => []GlobalsAgree
  <1>1. PInv => GlobalsAgree
    BY DEF PInv, PageInv, GlobalsAgree, InUser
  <1> QED BY <1>1, PInvAlways, PTL

(* The terminal on display has been started.                               *)
ShownInv == fts[indicator] = 1 \/ (kpc = "boot" /\ indicator = 1)

LEMMA SlotTaken ==
  ASSUME PInv, FirstStartHasItsSlot, NEW n \in Terminals, NEW p \in Slots,
         NEW c, TakeSlot(n, p, c), fts' \in [Terminals -> {0, 1}],
         fts' = fts \/ fts' = [fts EXCEPT ![n] = 1], fts'[n] = 1
  PROVE  FirstStartHasItsSlot'
  <1> SUFFICES ASSUME NEW m \in Terminals, fts'[m] = 0 PROVE pnumarr'[m - 1] # 1
    BY DEF FirstStartHasItsSlot, Live
  <1>1. m # n /\ fts[m] = 0
    BY DEF PInv, TypeOK
  <1>2. m - 1 \in Slots /\ m - 1 # p
    BY <1>1, ConstantsAssumption DEF TakeSlot, SetPnum, Terminals, Slots
  <1>3. pnumarr[m - 1] # 1
    BY <1>1 DEF FirstStartHasItsSlot, Live
  <1> QED BY <1>2, <1>3 DEF TakeSlot, PInv, TypeOK

(* The first Alt-Fn of a terminal always finds the slot of its shell free. *)
THEOREM FirstStart == Spec => []FirstStartHasItsSlot
  <1> DEFINE Inv == ShownInv /\ FirstStartHasItsSlot
  <1>1. Init => Inv
    <2>1. \A n \in Terminals : n - 1 \in Slots
      BY ConstantsAssumption DEF Terminals, Slots
    <2> QED BY <2>1 DEF Init, ShownInv, FirstStartHasItsSlot, Live
  <1>2. PInv /\ PInv' /\ Inv /\ [Next]_vars => Inv'
    <2> SUFFICES ASSUME PInv, PInv', Inv, [Next]_vars PROVE Inv'
      OBVIOUS
    <2>a. indicator \in Terminals /\ fts' \in [Terminals -> {0, 1}] /\ 1 \in Terminals
      BY ConstantsAssumption DEF PInv, TypeOK, Terminals
    <2>1. CASE Boot
      <3>1. fts' = [fts EXCEPT ![1] = 1] /\ indicator' = indicator /\ fts'[1] = 1
        BY <2>1, <2>a DEF Boot, PInv, TypeOK
      <3>2. FirstStartHasItsSlot'
        BY <2>1, <2>a, <3>1, SlotTaken DEF Boot
      <3>3. ShownInv'
        BY <2>1, <3>1 DEF Boot, TakeSlot, ShownInv
      <3> QED BY <3>2, <3>3
    <2>2. CASE Execute
      <3>1. UNCHANGED <<fts, indicator>> /\ kpc = "user" /\ fts'[indicator] = 1
        BY <2>2 DEF Execute, ShownInv, term
      <3>2. FirstStartHasItsSlot'
        BY <2>2, <2>a, <3>1, SlotTaken DEF Execute
      <3>3. ShownInv'
        BY <3>1 DEF ShownInv
      <3> QED BY <3>2, <3>3
    <2>3. CASE HaltRespawn
      <3>1. UNCHANGED <<fts, indicator>> /\ kpc = "respawn" /\ fts'[indicator] = 1
        BY <2>3 DEF HaltRespawn, ShownInv, term
      <3>2. CASE UNCHANGED pnumarr
        BY <3>1, <3>2 DEF ShownInv, FirstStartHasItsSlot, Live
      <3>3. CASE \E p \in Slots : TakeSlot(indicator, p, "unwind")
        BY <3>1, <3>3, <2>a, SlotTaken DEF ShownInv
      <3> QED BY <2>3, <3>2, <3>3 DEF HaltRespawn
    <2>4. ASSUME NEW n \in AltKeys, AltFirst(n) PROVE Inv'
      <3>1. n \in Terminals
        BY ConstantsAssumption DEF Terminals
      <3>2. fts' = [fts EXCEPT ![n] = 1] /\ fts'[n] = 1 /\ indicator' = n
        BY <2>4, <3>1 DEF AltFirst, PInv, TypeOK
      <3>3. FirstStartHasItsSlot'
        BY <2>4, <2>a, <3>1, <3>2, SlotTaken DEF AltFirst
      <3>4. ShownInv'
        BY <3>2 DEF ShownInv
      <3> QED BY <3>3, <3>4
    <2>5. ASSUME NEW n \in AltKeys, AltAgain(n) PROVE Inv'
      BY <2>5 DEF AltAgain, ShownInv, FirstStartHasItsSlot, Live, table
    <2>6. ASSUME UNCHANGED <<fts, indicator>>, kpc # "boot",
                 pnumarr' = pnumarr \/ pnumarr' = [pnumarr EXCEPT ![pnum] = 0]
          PROVE  Inv'
      <3>1. \A n \in Terminals : n - 1 \in Slots
        BY ConstantsAssumption DEF Terminals, Slots
      <3> QED BY <2>6, <3>1 DEF ShownInv, FirstStartHasItsSlot, Live, PInv, TypeOK
    <2>7. CASE Halt \/ CtrlC \/ Fault
      BY <2>6, <2>7 DEF Halt, CtrlC, Fault, KeyTaken, HaltEnter, FreeSlot, term
    <2>8. CASE ExecuteFails \/ Block \/ Unblock \/ Pit
      BY <2>6, <2>8 DEF ExecuteFails, Block, Unblock, Pit, term, table
    <2>9. CASE CreatePCB \/ ContextSwitch \/ HaltUnwind \/ HaltReload \/ RetToPar
      BY <2>6, <2>9 DEF CreatePCB, ContextSwitch, HaltUnwind, HaltReload, RetToPar,
                        RetToUser, RetToKernel, RetToNowhere, term, table
    <2>10. CASE UNCHANGED vars \/ Overrun
      BY <2>10 DEF vars, Overrun, cpu, term, table, ShownInv, FirstStartHasItsSlot, Live
    <2> QED
      BY <2>1, <2>2, <2>3, <2>4, <2>5, <2>7, <2>8, <2>9, <2>10 DEF Next, Step, Event
  <1> QED BY <1>1, <1>2, PInvAlways, PTL DEF Spec
=============================================================================
