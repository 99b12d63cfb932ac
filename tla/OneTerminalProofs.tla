------------------------- MODULE OneTerminalProofs -------------------------
(***************************************************************************)
(* With one terminal and no Ctrl-C in the windows of execute and halt,     *)
(* process control implements call and return, for every number of slots.  *)
(* Keys interrupt execute and halt everywhere else.                        *)
(***************************************************************************)
EXTENDS ProcessOneTerminal, ProcessProofs

LEMMA Constants ==
  /\ 0 \in Slots /\ 0 \notin Programs /\ Programs \subseteq Slots /\ NULL \notin Slots
  /\ 1 \in Terminals
  BY ConstantsAssumption DEF Slots, Programs, NULL, Terminals

LEMMA IInvInit == Init => IInv
  <1> SUFFICES ASSUME Init PROVE IInv
    OBVIOUS
  <1>1. TypeOK
    BY PInvInit DEF PInv
  <1>2. \A p \in Slots : ~Live(p)
    BY DEF Init, Live
  <1>3. StageInv
    BY <1>2, Constants DEF Init, StageInv, InUser
  <1>4. \A p \in Programs : ~Started(p)
    BY <1>2, Constants DEF Started, Init
  <1>5. ChainInv /\ FramesInv
    BY <1>2, <1>4 DEF ChainInv, FramesInv
  <1> QED BY <1>1, <1>3, <1>5 DEF IInv

(* Steps of user code and of handlers that leave the process table alone   *)
(* and write only to the running process's own kernel stack.               *)
LEMMA QuietStep ==
  ASSUME IInv, TypeOK', InUser, InUser',
         UNCHANGED <<pcbs, table, term, esp0, page, who>>,
         \A s \in Slots \ {pnum} : kstack'[s] = kstack[s],
         kpc' = "wait" => ksp'.stk = pnum
  PROVE  IInv'
  <1> USE Constants DEF pcbs, table, term
  <1>1. curr_pcb = pnum /\ Live(pnum) /\ pnum \in Slots
    BY DEF IInv, StageInv, TypeOK
  <1>2. StageInv'
    BY DEF IInv, StageInv, InUser, Live
  <1>3. \A p : (Started(p)' <=> Started(p)) /\ ~Loading(p) /\ ~Loading(p)' /\ (Live(p)' <=> Live(p))
    BY DEF Started, Loading, Live, InUser
  <1>4. ChainInv'
    BY <1>3 DEF IInv, ChainInv
  <1>5. FramesInv'
    <2> SUFFICES ASSUME NEW p \in Programs, Started(p) PROVE FrameOf(p)'
      BY <1>3 DEF FramesInv
    <2>1. FrameOf(p) /\ parent[p] \in Slots \ {pnum}
      BY <1>1 DEF IInv, ChainInv, FramesInv, InUser
    <2> QED BY <2>1 DEF FrameOf
  <1> QED BY <1>2, <1>4, <1>5 DEF IInv

(* On entry to the kernel from user code, only the own stack is written.   *)
LEMMA OwnStackWritten ==
  ASSUME IInv, InUser
  PROVE  /\ Base.stk = pnum
         /\ \A s \in Slots \ {pnum} : Clobbered[s] = kstack[s]
  BY Constants DEF IInv, StageInv, TypeOK, InUser, Base, Clobbered

LEMMA QuietActions ==
  ASSUME IInv, PInv', ExecuteFails \/ Block \/ Unblock \/ Pit
  PROVE  IInv'
  <1>0. TypeOK'
    BY DEF PInv
  <1>1. CASE ExecuteFails
    <2>1. InUser /\ InUser'
      BY <1>1 DEF ExecuteFails, InUser
    <2>2. kpc' # "wait"
      BY <1>1 DEF ExecuteFails
    <2> QED BY <1>0, <1>1, <2>1, <2>2, OwnStackWritten, QuietStep DEF ExecuteFails
  <1>2. CASE Block
    <2>1. InUser /\ InUser'
      BY <1>2 DEF Block, InUser
    <2>2. ksp'.stk = pnum
      BY <1>2, <2>1, OwnStackWritten DEF Block, Enter, EntryLoc
    <2> QED BY <1>0, <1>2, <2>1, <2>2, OwnStackWritten, QuietStep DEF Block, Enter
  <1>3. CASE Unblock
    <2>1. InUser /\ InUser' /\ kpc' # "wait"
      BY <1>3 DEF Unblock, InUser
    <2> QED BY <1>0, <1>3, <2>1, QuietStep DEF Unblock
  <1>4. CASE Pit
    <2>1. InUser /\ InUser'
      BY <1>4 DEF Pit, InUser
    <2>2. kpc' = "wait" => ksp'.stk = pnum
      BY <1>4 DEF Pit, IInv, StageInv
    <2> QED BY <1>0, <1>4, <2>1, <2>2, OwnStackWritten, QuietStep DEF Pit
  <1> QED BY <1>1, <1>2, <1>3, <1>4

(* A key that is taken anywhere writes to a stack on which no started      *)
(* program has its return path.                                            *)
LEMMA FreeStack ==
  ASSUME IInv, KeyTaken
  PROVE  /\ \A s \in Slots \ {Base.stk} : Clobbered[s] = kstack[s]
         /\ \A p \in Programs : Started(p) /\ ~(kpc = "pcb" /\ p = curr_pcb) =>
               parent[p] \in Slots \ {Base.stk}
         /\ kpc \in {"unwound", "resume"} => curr_pcb # Base.stk
         /\ Base.d \in Nat
  <1> USE Constants
  <1>1. \A s \in Slots \ {Base.stk} : Clobbered[s] = kstack[s]
    BY DEF Clobbered, IInv, TypeOK
  <1>2. kpc \in {"unwound", "resume"} => curr_pcb # Base.stk
    BY DEF IInv, StageInv, HaltStack, Base
  <1>3. ASSUME NEW p \in Programs, Started(p), ~(kpc = "pcb" /\ p = curr_pcb)
        PROVE  parent[p] \in Slots \ {Base.stk}
    <2>1. parent[p] \in Slots \ {curr_pcb} /\ Live(parent[p])
      BY <1>3 DEF IInv, ChainInv
    <2>2. CASE InUser
      BY <2>1, <2>2, OwnStackWritten DEF IInv, StageInv
    <2>3. CASE ~InUser
      <3>1. Base = ksp /\ intf = 1 /\ kpc \in Stages /\ kpc \notin {"boot", "lost", "user", "wait"}
        BY <2>3 DEF Base, KeyTaken, InUser, IInv, TypeOK
      <3>2. CASE kpc \in {"respawn", "unwind", "unwound", "resume"}
        BY <2>1, <3>1, <3>2 DEF IInv, StageInv, HaltStack
      <3>3. CASE kpc = "exec"
        BY <2>1, <3>1, <3>3 DEF IInv, StageInv, HaltStack
      <3>4. CASE kpc = "pcb" /\ cont = "user"
        <4>1. ksp.stk = parent[curr_pcb] /\ curr_pcb \in Programs /\ Live(curr_pcb)
          BY <3>4 DEF IInv, StageInv
        <4>2. Started(curr_pcb)
          BY <3>4, <4>1 DEF Started, Loading
        <4>3. parent[curr_pcb] # parent[p]
          BY <1>3, <3>4, <4>1, <4>2 DEF IInv, ChainInv
        <4> QED BY <2>1, <3>1, <4>1, <4>3
      <3>5. CASE kpc = "pcb" /\ cont # "user"
        BY <2>1, <3>1, <3>5 DEF IInv, StageInv, HaltStack
      <3> QED BY <3>1, <3>2, <3>3, <3>4, <3>5 DEF Stages
    <2> QED BY <2>2, <2>3
  <1>4. Base.d \in Nat
    BY DEF Base, IInv, TypeOK, Locs
  <1> QED BY <1>1, <1>2, <1>3, <1>4

(* Alt-F1 of the terminal on display leaves nothing behind, anywhere.      *)
LEMMA AltAgainStep ==
  ASSUME IInv, PInv', NEW n \in AltKeys, AltAgain(n), indicator' = 1
  PROVE  IInv'
  <1> USE Constants DEF pcbs, table, term, local
  <1>1. /\ KeyTaken /\ kstack' = Clobbered
        /\ UNCHANGED <<pcbs, table, term, esp0, page, ksp, kpc, cont, intf, local, who>>
    BY DEF AltAgain, IInv, StageInv
  <1>2. \A p : (Started(p)' <=> Started(p)) /\ (Loading(p)' <=> Loading(p)) /\ (Live(p)' <=> Live(p))
    BY <1>1 DEF Started, Loading, Live
  <1>3. (HaltStack' <=> HaltStack) /\ (InUser' <=> InUser)
    BY <1>1, <1>2 DEF HaltStack, InUser
  <1>4. kpc \in {"unwound", "resume"} => kstack'[ret.stk] = kstack[ret.stk]
    BY <1>1, FreeStack DEF IInv, StageInv
  <1>5. StageInv'
    BY <1>1, <1>2, <1>3, <1>4 DEF IInv, StageInv
  <1>6. ChainInv'
    BY <1>1, <1>2 DEF IInv, ChainInv
  <1>7. FramesInv'
    <2> SUFFICES ASSUME NEW p \in Programs, Started(p), ~(kpc = "pcb" /\ p = curr_pcb)
                 PROVE  FrameOf(p)'
      BY <1>1, <1>2 DEF FramesInv
    <2>1. FrameOf(p) /\ kstack'[parent[p]] = kstack[parent[p]]
      BY <1>1, FreeStack DEF IInv, FramesInv
    <2> QED BY <1>1, <2>1 DEF FrameOf
  <1> QED BY <1>5, <1>6, <1>7 DEF IInv, PInv

(* A second terminal is never started.                                     *)
LEMMA NoSecondTerminal ==
  ASSUME IInv, NEW n \in AltKeys, indicator' = 1 PROVE ~AltFirst(n)
  BY DEF AltFirst, KeyTaken, IInv, StageInv

LEMMA BootStep == ASSUME IInv, PInv', Boot PROVE IInv'
  <1> USE Constants
  <1>1. PICK p \in Slots : TakeSlot(1, p, "lost")
    BY DEF Boot
  <1>2. p = 0 /\ curr_pcb = NULL /\ ksp = NoLoc /\ process1.screen = 0
    BY <1>1 DEF TakeSlot, SetPnum, Boot, IInv, StageInv, Live, TypeOK
  <1>3. \A q \in Slots : Live(q)' <=> q = 0
    BY <1>1, <1>2 DEF TakeSlot, Boot, IInv, StageInv, TypeOK, Live
  <1>4. Loading(0)'
    BY <1>1, <1>2 DEF TakeSlot, Boot, Loading
  <1>5. StageInv'
    BY <1>1, <1>2, <1>3 DEF TakeSlot, Boot, IInv, StageInv, InUser, TypeOK, pcbs
  <1>6. \A q \in Programs : ~Started(q)'
    BY <1>1, <1>3 DEF Started, TakeSlot
  <1>7. ChainInv' /\ FramesInv'
    BY <1>3, <1>4, <1>6 DEF ChainInv, FramesInv
  <1> QED BY <1>5, <1>7 DEF IInv, PInv

LEMMA ExecuteStep == ASSUME IInv, PInv', Execute PROVE IInv'
  <1> USE Constants DEF pcbs, term
  <1>1. PICK p \in Slots : TakeSlot(indicator, p, "user")
    BY DEF Execute
  <1>2. /\ curr_pcb = pnum /\ pnum \in Slots /\ Live(pnum) /\ Live(0) /\ indicator = 1
        /\ kpc = "user" /\ curr_pcb' = curr_pcb
        /\ InUser
    BY DEF Execute, IInv, StageInv, TypeOK, InUser
  <1>3. p \in Programs /\ ~Live(p) /\ p # curr_pcb
    BY <1>1, <1>2 DEF TakeSlot, SetPnum, Programs, Live
  <1>4. \A q \in Slots : Live(q)' <=> Live(q) \/ q = p
    BY <1>1 DEF TakeSlot, IInv, TypeOK, Live
  <1>5. \A q : (Loading(q)' <=> q = p) /\ ~Loading(q)
    BY <1>1, <1>2, <1>3 DEF TakeSlot, Loading
  <1>6. \A q \in Programs : Started(q)' <=> Started(q)
    BY <1>1, <1>2, <1>3, <1>4, <1>5 DEF Started, TakeSlot
  <1>7. StageInv'
    <2>1. ksp'.stk = curr_pcb /\ ksp'.d > 0
      BY <1>2, OwnStackWritten DEF Execute, Enter, EntryLoc, IInv, TypeOK, Base, Locs
    <2> QED BY <1>1, <1>2, <1>3, <1>4, <2>1
            DEF TakeSlot, Execute, IInv, StageInv, InUser
  <1>8. ChainInv'
    BY <1>2, <1>3, <1>4, <1>5, <1>6 DEF Execute, IInv, ChainInv
  <1>9. FramesInv'
    <2> SUFFICES ASSUME NEW q \in Programs, Started(q) PROVE FrameOf(q)'
      BY <1>6 DEF FramesInv
    <2>1. FrameOf(q) /\ parent[q] \in Slots \ {pnum}
      BY <1>2 DEF IInv, ChainInv, FramesInv
    <2> QED BY <2>1, <1>2, OwnStackWritten DEF FrameOf, Execute, Enter
  <1> QED BY <1>7, <1>8, <1>9 DEF IInv, PInv

LEMMA CreatePCBStep == ASSUME IInv, PInv', CreatePCB PROVE IInv'
  <1> USE Constants DEF term
  <1>1. /\ kpc = "exec" /\ kpc' = "pcb" /\ curr_pcb' = pnum /\ pnum' = pnum
        /\ pnum \in Slots /\ Live(pnum) /\ Parent = curr_pcb
        /\ parent' = [parent EXCEPT ![pnum] = curr_pcb]
        /\ esp0' = Top(pnum) /\ parent \in [Slots -> Slots \cup {NULL}]
    BY DEF CreatePCB, ChildStack, Parent, IInv, StageInv, TypeOK
  <1>2. \A q : (Live(q)' <=> Live(q)) /\ ~Loading(q)'
    BY <1>1 DEF CreatePCB, Live, Loading
  <1>3. \A q : Started(q)' <=> q \in Programs /\ Live(q)
    BY <1>1, <1>2 DEF Started
  <1>4. \A q : Started(q) <=> q \in Programs /\ Live(q) /\ ~Loading(q)
    BY <1>1 DEF Started
  <1>5. StageInv'
    <2>1. HaltStack' <=> HaltStack
      BY <1>1, <1>2 DEF CreatePCB, HaltStack, Live
    <2> QED BY <1>1, <1>2, <2>1 DEF CreatePCB, IInv, StageInv, InUser
  <1>6. CASE cont = "user"
    <2>1. /\ pnum \in Programs /\ curr_pcb \in Slots \ {pnum} /\ Live(curr_pcb)
      BY <1>1, <1>6 DEF IInv, StageInv
    <2>2. \A q : Loading(q) <=> q = pnum
      BY <1>1, <2>1 DEF Loading
    <2>3. ~Started(pnum) /\ \A q \in Programs \ {pnum} : Started(q)' <=> Started(q)
      BY <1>3, <1>4, <2>2
    <2>4. \A q \in Programs \ {pnum} : Started(q) => parent[q] # pnum
      BY <2>2 DEF IInv, ChainInv
    <2>5. \A q \in Slots : parent'[q] = IF q = pnum THEN curr_pcb ELSE parent[q]
      BY <1>1
    <2>6. \A q \in Slots : Live(q) => q = 0 \/ q \in Programs
      BY DEF IInv, ChainInv
    <2>7. ASSUME NEW q \in Programs, Started(q)'
          PROVE  /\ parent'[q] \in Slots \ {q, pnum} /\ Live(parent'[q])
                 /\ \A r \in Programs : Started(r)' /\ r # q => parent'[r] # parent'[q]
      <3>1. CASE q = pnum
        <4>1. \A r \in Programs : Started(r)' /\ r # q => parent[r] # curr_pcb
          BY <3>1, <2>3 DEF IInv, ChainInv
        <4> QED BY <3>1, <4>1, <2>1, <2>5
      <3>2. CASE q # pnum
        <4>1. Started(q) /\ parent[q] \in Slots \ {q, curr_pcb, pnum} /\ Live(parent[q])
          BY <2>7, <3>2, <2>3, <2>4 DEF IInv, ChainInv
        <4>2. \A r \in Programs \ {pnum} : Started(r) /\ r # q => parent[r] # parent[q]
          BY <4>1 DEF IInv, ChainInv
        <4> QED BY <3>2, <4>1, <4>2, <2>3, <2>5
      <3> QED BY <3>1, <3>2
    <2>8. ASSUME NEW q \in Slots, Live(q), q # pnum
          PROVE  \E r \in Programs : Started(r)' /\ parent'[r] = q
      <3>1. CASE q = curr_pcb
        BY <3>1, <1>1, <1>3, <2>1, <2>5
      <3>2. CASE q # curr_pcb
        <4>1. PICK r \in Programs : Started(r) /\ parent[r] = q
          BY <2>8, <3>2, <2>2 DEF IInv, ChainInv
        <4> QED BY <4>1, <2>3, <2>5
      <3> QED BY <3>1, <3>2
    <2>9. ChainInv'
      BY <1>1, <1>2, <2>6, <2>7, <2>8 DEF ChainInv
    <2>10. FramesInv'
      BY <1>1, <2>3, <2>5 DEF IInv, FramesInv, FrameOf, CreatePCB
    <2> QED BY <1>5, <2>9, <2>10 DEF IInv, PInv
  <1>7. CASE cont # "user"
    <2>1. pnum = 0 /\ curr_pcb \in {0, NULL}
      BY <1>1, <1>7 DEF IInv, StageInv
    <2>2. \A q \in Programs : ~Loading(q) /\ (Started(q)' <=> Started(q)) /\ parent'[q] = parent[q]
      BY <1>1, <1>3, <1>4, <2>1 DEF Loading
    <2>3. \A q \in Programs : Started(q) => parent[q] # 0
      BY <1>1, <2>1 DEF IInv, ChainInv, Loading
    <2>4. \A q \in Slots : Live(q) /\ q # 0 => q # curr_pcb /\ ~Loading(q)
      BY <1>1, <2>1 DEF Loading
    <2>5. ChainInv'
      BY <1>1, <1>2, <2>1, <2>2, <2>3, <2>4 DEF IInv, ChainInv
    <2>6. FramesInv'
      BY <1>1, <2>1, <2>2 DEF IInv, FramesInv, FrameOf, CreatePCB
    <2> QED BY <1>5, <2>5, <2>6 DEF IInv, PInv
  <1> QED BY <1>6, <1>7

LEMMA ContextSwitchStep == ASSUME IInv, PInv', ContextSwitch PROVE IInv'
  <1> USE Constants DEF table
  <1>1. /\ kpc = "pcb" /\ kpc' = "user" /\ curr_pcb = pnum /\ pnum \in Slots /\ Live(pnum)
        /\ page = pnum /\ esp0 = Top(pnum) /\ indicator = 1 /\ ksp \in Locs /\ who' = pnum
        /\ UNCHANGED <<parent, pnumarr, pnum, curr_pcb, indicator, fts, esp0, page>>
    BY DEF ContextSwitch, IInv, StageInv, TypeOK
  <1>2. \A q : (Live(q)' <=> Live(q)) /\ ~Loading(q)' /\ ~Loading(q) /\ (Started(q)' <=> Started(q))
    BY <1>1 DEF Live, Loading, Started
  <1>3. StageInv'
    BY <1>1, <1>2 DEF ContextSwitch, IInv, StageInv, InUser, Top
  <1>4. ChainInv'
    BY <1>1, <1>2 DEF IInv, ChainInv
  <1>5. FramesInv'
    <2> SUFFICES ASSUME NEW q \in Programs, Started(q) PROVE FrameOf(q)'
      BY <1>2 DEF FramesInv
    <2>1. parent[q] \in Slots \ {curr_pcb} /\ Live(parent[q])
      BY DEF IInv, ChainInv
    <2>2. CASE q = curr_pcb
      <3>1. /\ cont = "user" /\ ksp.stk = parent[q] /\ ksp.d > 0 /\ process1.screen = 1
            /\ who = parent[q]
        BY <1>1, <2>2 DEF IInv, StageInv
      <3>2. ksp.d \in 1 .. MaxDepth /\ ksp.stk \in Slots
        BY <1>1, <2>1, <3>1, ConstantsAssumption DEF Locs
      <3>3. haltesp'[q] = ksp /\ oldesp'[q] = ksp
        BY <1>1, <2>2, <3>1 DEF ContextSwitch, IInv, TypeOK
      <3>4. kstack'[ksp.stk][ksp.d] = [child |-> q, owner |-> parent[q], cont |-> "user"]
        BY <3>1, <3>2, <2>2 DEF ContextSwitch, IInv, TypeOK
      <3> QED BY <1>1, <3>1, <3>3, <3>4 DEF FrameOf
    <2>3. CASE q # curr_pcb
      <3>1. FrameOf(q)
        BY <2>3 DEF IInv, FramesInv
      <3>2. haltesp'[q] = haltesp[q] /\ oldesp'[q] = oldesp[q]
        BY <1>1, <2>3 DEF ContextSwitch, IInv, TypeOK
      <3>3. ksp.stk # parent[q]
        <4>1. CASE cont = "user"
          <5>1. ksp.stk = parent[curr_pcb] /\ curr_pcb \in Programs
            BY <1>1, <4>1 DEF IInv, StageInv
          <5>2. Started(curr_pcb)
            BY <1>1, <1>2, <5>1 DEF Started
          <5> QED BY <5>1, <5>2, <2>3 DEF IInv, ChainInv
        <4>2. CASE cont # "user"
          BY <1>1, <2>1, <4>2 DEF IInv, StageInv, HaltStack, NoLoc
        <4> QED BY <4>1, <4>2
      <3>4. kstack'[parent[q]] = kstack[parent[q]]
        BY <3>3, <2>1 DEF ContextSwitch, IInv, TypeOK
      <3> QED BY <1>1, <3>1, <3>2, <3>4 DEF FrameOf
    <2> QED BY <2>2, <2>3
  <1> QED BY <1>3, <1>4, <1>5 DEF IInv, PInv

(* Where a halt that starts anew finds the globals agreeing on the process *)
(* that halts.                                                             *)
LEMMA HaltTarget ==
  ASSUME IInv, KeyTaken, ~Window
  PROVE  /\ curr_pcb = pnum /\ pnum \in Slots /\ (pnum = 0 \/ pnum \in Programs)
         /\ Base.stk \in Slots /\ (Base.stk = pnum \/ ~Live(Base.stk))
         /\ process1.screen = 1
         /\ kpc # "respawn" /\ pnum # 0 => Live(0)
         /\ pnum \in Programs => Started(pnum)
         /\ \A q : ~Loading(q)
  <1> USE Constants
  <1>1. kpc \in Stages /\ pnum \in Slots
    BY DEF IInv, TypeOK
  <1>2. CASE InUser
    <2>1. curr_pcb = pnum /\ Live(pnum) /\ process1.screen = 1 /\ Live(0) /\ kpc # "exec"
      BY <1>1, <1>2 DEF IInv, StageInv, InUser
    <2>2. pnum = 0 \/ pnum \in Programs
      BY <1>1, <2>1 DEF IInv, ChainInv
    <2> QED BY <1>1, <1>2, <2>1, <2>2, OwnStackWritten DEF Loading, Started
  <1>3. CASE ~InUser
    <2>1. intf = 1 /\ Base = ksp /\ kpc \notin {"boot", "lost", "user", "wait"}
      BY <1>3 DEF KeyTaken, InUser, Base
    <2>2. CASE kpc \in {"exec", "pcb"}
      <3>1. cont = "unwind" /\ pnum = 0 /\ curr_pcb = 0 /\ HaltStack
        BY <2>1, <2>2 DEF IInv, StageInv, Window
      <3>2. process1.screen = 1
        BY <3>1 DEF IInv, StageInv
      <3> QED BY <1>1, <2>1, <2>2, <3>1, <3>2 DEF HaltStack, Loading
    <2>3. CASE kpc = "respawn"
      BY <1>1, <2>1, <2>3 DEF IInv, StageInv, HaltStack, Loading
    <2>4. CASE kpc = "unwind"
      BY <1>1, <2>1, <2>4 DEF IInv, StageInv, HaltStack, Loading, Started
    <2>5. CASE kpc = "resume"
      <3>1. curr_pcb = pnum /\ Live(pnum) /\ process1.screen = 1 /\ Live(0) /\ HaltStack
        BY <1>1, <2>5 DEF IInv, StageInv
      <3>2. pnum = 0 \/ pnum \in Programs
        BY <1>1, <3>1 DEF IInv, ChainInv
      <3> QED BY <1>1, <2>1, <2>5, <3>1, <3>2 DEF Loading, Started, HaltStack
    <2> QED BY <1>1, <2>1, <2>2, <2>3, <2>4, <2>5 DEF Stages, Window
  <1> QED BY <1>2, <1>3

(* The halt system call, a fault, and a Ctrl-C outside the windows.        *)
LEMMA HaltStep ==
  ASSUME IInv, PInv', KeyTaken, ~Window, NEW s, NEW i, HaltEnter(s, i)
  PROVE  IInv'
  <1> USE Constants DEF pcbs, term
  <1>1. /\ curr_pcb = pnum /\ pnum \in Slots /\ indicator = 1
        /\ parent[0] \in {0, NULL} /\ fts[1] = 1 /\ process1.screen = 1
        /\ UNCHANGED <<parent, oldesp, haltesp, pnum, curr_pcb, term, esp0, page>>
    BY HaltTarget DEF HaltEnter, IInv, StageInv, KeyTaken
  <1>2. \A q \in Slots : Live(q)' <=> Live(q) /\ q # pnum
    BY <1>1 DEF HaltEnter, FreeSlot, IInv, TypeOK, Live
  <1>3. pnum = 0 \/ pnum \in Programs
    BY HaltTarget
  <1>4. kpc' = IF pnum = 0 THEN "respawn" ELSE "unwind"
    BY <1>3, ConstantsAssumption DEF HaltEnter, BaseShell, Programs
  <1>5. \A q : ~Loading(q) /\ ~Loading(q)'
    BY <1>4, HaltTarget DEF Loading
  <1>6. \A q \in Programs : Started(q)' <=> Started(q)
    <2> SUFFICES ASSUME NEW q \in Programs PROVE Started(q)' <=> Started(q)
      OBVIOUS
    <2>1. CASE q = pnum
      BY <1>1, <1>4, <2>1, HaltTarget DEF Started
    <2>2. CASE q # pnum
      BY <1>1, <1>2, <1>5, <2>2 DEF Started
    <2> QED BY <2>1, <2>2
  <1>7. ksp'.stk = Base.stk /\ ksp'.d > 0 /\ ksp'.stk \in Slots /\ pnumarr'[ksp'.stk] # 1
    <2>1. ksp'.stk = Base.stk /\ ksp'.d > 0
      BY FreeStack DEF HaltEnter, Enter, EntryLoc
    <2>2. Base.stk \in Slots /\ (Base.stk = pnum \/ ~Live(Base.stk))
      BY HaltTarget
    <2>3. pnumarr'[Base.stk] # 1
      BY <1>2, <2>2 DEF Live
    <2> QED BY <2>1, <2>2, <2>3
  <1>8. StageInv'
    <2>1. HaltStack'
      BY <1>7 DEF HaltStack, Live
    <2>2. kpc' = "unwind" => Live(0)'
      BY <1>2, <1>3, <1>4, HaltTarget DEF IInv, StageInv
    <2> QED BY <1>1, <1>2, <1>3, <1>4, <2>1, <2>2 DEF IInv, StageInv, InUser
  <1>9. ChainInv'
    BY <1>1, <1>2, <1>5, <1>6 DEF IInv, ChainInv
  <1>10. FramesInv'
    <2> SUFFICES ASSUME NEW q \in Programs, Started(q) PROVE FrameOf(q)'
      BY <1>6 DEF FramesInv
    <2>1. ~(kpc = "pcb" /\ q = curr_pcb)
      <3>1. CASE kpc = "pcb"
        BY <3>1 DEF IInv, StageInv, Window, KeyTaken
      <3> QED BY <3>1
    <2>2. FrameOf(q) /\ kstack'[parent[q]] = kstack[parent[q]]
      BY <2>1, FreeStack DEF IInv, FramesInv, HaltEnter, Enter
    <2> QED BY <1>1, <2>2 DEF FrameOf
  <1> QED BY <1>8, <1>9, <1>10 DEF IInv, PInv

LEMMA HaltRespawnStep == ASSUME IInv, PInv', HaltRespawn PROVE IInv'
  <1> USE Constants DEF pcbs, term
  <1>1. /\ kpc = "respawn" /\ pnum = 0 /\ curr_pcb = 0 /\ ~Live(0) /\ pnumarr[0] = 0
        /\ indicator = 1 /\ HaltStack
        /\ UNCHANGED <<pcbs, curr_pcb, term, esp0, kstack, ksp>>
    BY DEF HaltRespawn, IInv, StageInv, TypeOK, Live
  <1>2. SetPnum(1, 0)
    BY <1>1 DEF SetPnum
  <1>3. PICK p \in Slots : TakeSlot(1, p, "unwind")
    BY <1>1, <1>2 DEF HaltRespawn, SetPnumFails
  <1>4. p = 0
    BY <1>1, <1>3 DEF TakeSlot, SetPnum
  <1>5. \A q \in Slots : Live(q)' <=> Live(q) \/ q = 0
    BY <1>3, <1>4 DEF TakeSlot, IInv, TypeOK, Live
  <1>6. \A q : ~Loading(q) /\ ~Loading(q)'
    BY <1>1, <1>3, <1>4 DEF TakeSlot, Loading
  <1>7. \A q \in Programs : Started(q)' <=> Started(q)
    BY <1>1, <1>3, <1>5, <1>6 DEF Started, TakeSlot
  <1>8. StageInv'
    <2>1. HaltStack'
      BY <1>1, <1>3, <1>5 DEF HaltStack, TakeSlot
    <2> QED BY <1>1, <1>3, <1>4, <1>5, <2>1 DEF TakeSlot, IInv, StageInv, InUser
  <1>9. ChainInv'
    BY <1>1, <1>5, <1>6, <1>7 DEF IInv, ChainInv
  <1>10. FramesInv'
    BY <1>1, <1>7 DEF IInv, FramesInv, FrameOf
  <1> QED BY <1>8, <1>9, <1>10 DEF IInv, PInv

LEMMA HaltUnwindStep == ASSUME IInv, PInv', HaltUnwind PROVE IInv'
  <1> USE Constants DEF pcbs, term
  <1>1. /\ kpc = "unwind" /\ curr_pcb \in Programs /\ ~Live(curr_pcb) /\ indicator = 1
        /\ Started(curr_pcb) /\ process1.screen = 1
    BY DEF HaltUnwind, IInv, StageInv, Started
  <1>2. /\ parent[curr_pcb] \in Slots \ {curr_pcb} /\ Live(parent[curr_pcb])
        /\ FrameOf(curr_pcb)
    BY <1>1 DEF IInv, ChainInv, FramesInv
  <1>3. /\ kpc' = "unwound" /\ curr_pcb' = parent[curr_pcb]
        /\ ret' = haltesp[curr_pcb] /\ esp0' = haltesp[curr_pcb]
        /\ UNCHANGED <<pcbs, pnumarr, pnum, term, page, kstack, ksp>>
    BY <1>2 DEF HaltUnwind, Esp0OnHalt, EspOnHalt, FrameOf
  <1>4. \A q : (Live(q)' <=> Live(q)) /\ ~Loading(q)' /\ ~Loading(q)
    BY <1>1, <1>3 DEF Live, Loading
  <1>5. \A q \in Programs : Started(q)' <=> Started(q) /\ q # curr_pcb
    BY <1>1, <1>3, <1>4 DEF Started
  <1>6. StageInv'
    <2>1. HaltStack'
      BY <1>1, <1>3, <1>4 DEF IInv, StageInv, HaltStack, Live
    <2> QED BY <1>1, <1>2, <1>3, <1>4, <2>1 DEF IInv, StageInv, InUser, FrameOf
  <1>7. ChainInv'
    <2>1. \A q \in Programs : Started(q) /\ q # curr_pcb => parent[q] # parent[curr_pcb]
      BY <1>1 DEF IInv, ChainInv
    <2>2. ASSUME NEW q \in Slots, Live(q), q # parent[curr_pcb]
          PROVE  \E r \in Programs : Started(r)' /\ parent[r] = q
      BY <2>2, <1>1, <1>4, <1>5 DEF IInv, ChainInv
    <2> QED BY <1>1, <1>2, <1>3, <1>4, <1>5, <2>1, <2>2 DEF IInv, ChainInv
  <1>8. FramesInv'
    BY <1>1, <1>3, <1>5 DEF IInv, FramesInv, FrameOf
  <1> QED BY <1>6, <1>7, <1>8 DEF IInv, PInv

LEMMA HaltReloadStep == ASSUME IInv, PInv', HaltReload PROVE IInv'
  <1> USE Constants DEF pcbs
  <1>1. /\ kpc = "unwound" /\ kpc' = "resume" /\ pnum' = curr_pcb /\ page' = curr_pcb
        /\ process1'.screen = process1.screen
        /\ UNCHANGED <<pcbs, pnumarr, curr_pcb, indicator, fts, esp0, kstack, ret, ksp>>
    BY DEF HaltReload, PidOnHalt, ParentPage, NodeOnHalt, IInv, TypeOK, local
  <1>2. \A q : (Live(q)' <=> Live(q)) /\ ~Loading(q)' /\ ~Loading(q) /\ (Started(q)' <=> Started(q))
    BY <1>1 DEF Live, Loading, Started
  <1>3. StageInv'
    <2>1. HaltStack'
      BY <1>1 DEF IInv, StageInv, HaltStack, Live
    <2> QED BY <1>1, <1>2, <2>1 DEF IInv, StageInv, InUser
  <1>4. ChainInv'
    BY <1>1, <1>2 DEF IInv, ChainInv
  <1>5. FramesInv'
    BY <1>1, <1>2 DEF IInv, FramesInv, FrameOf
  <1> QED BY <1>3, <1>4, <1>5 DEF IInv, PInv

LEMMA RetToParStep == ASSUME IInv, PInv', RetToPar PROVE IInv'
  <1> USE Constants DEF pcbs, table, term
  <1>1. /\ kpc = "resume" /\ ContAt(ret) = "user" /\ ret.stk = curr_pcb /\ ret.stk \in Slots
        /\ pnum = curr_pcb /\ kstack[ret.stk][ret.d].owner = pnum
    BY DEF RetToPar, RetToUser, RetToKernel, RetToNowhere, ContAt, Frozen, IInv, StageInv
  <1>2. /\ kpc' = "user" /\ kstack' = [kstack EXCEPT ![ret.stk][ret.d] = NoFrame]
        /\ UNCHANGED <<pcbs, table, term, esp0, page>> /\ who' = pnum
    BY <1>1 DEF RetToPar, RetToUser, RetToKernel, RetToNowhere
  <1>3. \A q : (Live(q)' <=> Live(q)) /\ ~Loading(q)' /\ ~Loading(q) /\ (Started(q)' <=> Started(q))
    BY <1>1, <1>2 DEF Live, Loading, Started
  <1>4. StageInv'
    BY <1>1, <1>2, <1>3 DEF IInv, StageInv, InUser
  <1>5. ChainInv'
    BY <1>1, <1>2, <1>3 DEF IInv, ChainInv
  <1>6. FramesInv'
    <2> SUFFICES ASSUME NEW q \in Programs, Started(q) PROVE FrameOf(q)'
      BY <1>3 DEF FramesInv
    <2>1. FrameOf(q) /\ parent[q] \in Slots \ {curr_pcb}
      BY <1>1 DEF IInv, ChainInv, FramesInv
    <2>2. kstack'[parent[q]] = kstack[parent[q]]
      BY <1>1, <1>2, <2>1 DEF IInv, TypeOK
    <2> QED BY <1>2, <2>1, <2>2 DEF FrameOf
  <1> QED BY <1>4, <1>5, <1>6 DEF IInv, PInv

LEMMA IInvNext == IInv /\ PInv' /\ [Next /\ Undisturbed]_vars => IInv'
  <1> SUFFICES ASSUME IInv, PInv', [Next /\ Undisturbed]_vars PROVE IInv'
    OBVIOUS
  <1>1. CASE UNCHANGED vars \/ Overrun
    <2>1. UNCHANGED <<pcbs, cpu, table, term, local, who>> /\ TypeOK'
      BY <1>1 DEF vars, Overrun, PInv
    <2> QED
      BY <2>1 DEF pcbs, cpu, table, term, local, IInv, StageInv, ChainInv, FramesInv, FrameOf,
                  Started, Loading, Live, InUser, HaltStack
  <1> SUFFICES ASSUME Next, Undisturbed PROVE IInv'
    BY <1>1
  <1>2. CASE Halt \/ Fault
    <2>1. KeyTaken /\ ~Window
      BY <1>2 DEF Halt, Fault, KeyTaken, Window
    <2> QED BY <1>2, <2>1, HaltStep DEF Halt, Fault
  <1>3. CASE CtrlC
    <2>1. ~Window
      BY <1>3 DEF Undisturbed
    <2> QED BY <1>3, <2>1, HaltStep DEF CtrlC
  <1>4. ASSUME NEW n \in AltKeys, AltFirst(n) \/ AltAgain(n) PROVE IInv'
    BY <1>4, AltAgainStep, NoSecondTerminal DEF Undisturbed
  <1>5. CASE Step
    BY <1>5, CreatePCBStep, ContextSwitchStep, HaltRespawnStep, HaltUnwindStep,
       HaltReloadStep, RetToParStep DEF Step
  <1> QED
    BY <1>1, <1>2, <1>3, <1>4, <1>5, BootStep, ExecuteStep, QuietActions DEF Next, Event

(* What holds of process control in general holds of these behaviours.     *)
LEMMA TypesUndisturbed == OneTerminalSpec => []PInv
  <1>1. PInv /\ [Next /\ Undisturbed]_vars => PInv'
    BY PInvNext
  <1> QED BY <1>1, PInvInit, PTL DEF OneTerminalSpec

(* With one terminal and keys at every step, Ctrl-C in a Window excepted:  *)
(* at every point inside execute and halt (syscall.c:27-132) it is settled *)
(* which slot, PCB, page and stack belong together, the callers form one   *)
(* chain, and each program's return path is intact.                        *)
THEOREM IInvAlways == OneTerminalSpec => []IInv
  <1> QED BY IInvInit, IInvNext, TypesUndisturbed, PTL DEF OneTerminalSpec

(* The node is up to date from the end of halt on, too.                    *)
NodeInv ==
  kpc \in {"user", "wait", "resume"} /\ process1.screen = indicator => process1.pcb = curr_pcb

LEMMA NodeNext == IInv /\ NodeInv /\ [Next /\ Undisturbed]_vars => NodeInv'
  <1> SUFFICES ASSUME IInv, NodeInv, [Next /\ Undisturbed]_vars PROVE NodeInv'
    OBVIOUS
  <1>6. CASE UNCHANGED vars \/ Overrun
    BY <1>6 DEF vars, Overrun, NodeInv, table, term, cpu, local
  <1> SUFFICES ASSUME Next, Undisturbed PROVE NodeInv'
    BY <1>6
  <1>u. indicator' = 1
    BY DEF Undisturbed
  <1>1. CASE Boot \/ Execute
    BY <1>1 DEF Boot, Execute, TakeSlot, NodeInv
  <1>2. CASE ExecuteFails \/ Block \/ Unblock \/ Pit
    BY <1>2 DEF ExecuteFails, Block, Unblock, Pit, NodeInv, table, term
  <1>3. CASE Halt \/ CtrlC \/ Fault
    BY <1>3 DEF Halt, CtrlC, Fault, HaltEnter, NodeInv
  <1>4. ASSUME NEW n \in AltKeys, AltFirst(n) \/ AltAgain(n) PROVE NodeInv'
    <2>1. AltAgain(n) /\ indicator = 1 /\ indicator' = 1
      BY <1>4, <1>u, NoSecondTerminal DEF IInv, StageInv
    <2> QED BY <2>1 DEF AltAgain, NodeInv, table
  <1>5. CASE Step
    <2>1. CASE CreatePCB \/ HaltUnwind
      BY <2>1 DEF CreatePCB, HaltUnwind, NodeInv
    <2>2. CASE ContextSwitch
      BY <2>2 DEF ContextSwitch, NodeInv, table
    <2>3. CASE HaltRespawn
      BY <2>3 DEF HaltRespawn, TakeSlot, RespawnFailed, NodeInv
    <2>4. CASE HaltReload
      BY <2>4 DEF HaltReload, NodeOnHalt, NodeInv, IInv, TypeOK
    <2>5. CASE RetToPar
      BY <2>5 DEF RetToPar, RetToUser, RetToKernel, RetToNowhere, NodeInv, table, term
    <2> QED BY <1>5, <2>1, <2>2, <2>3, <2>4, <2>5 DEF Step
  <1> QED BY <1>1, <1>2, <1>3, <1>4, <1>5, <1>6 DEF Next, Event

(* On one terminal terminal_write finds the running process in the node of *)
(* its terminal (syscall.c:125-127, 390-394).                              *)
THEOREM Foreground == OneTerminalSpec => []ForegroundNode
  <1>1. Init => NodeInv
    BY DEF Init, NodeInv
  <1>2. NodeInv => ForegroundNode
    BY DEF NodeInv, ForegroundNode, InUser
  <1> QED BY <1>1, <1>2, NodeNext, IInvAlways, PTL DEF OneTerminalSpec

(* On one terminal, with keys at every step but Ctrl-C in a Window, the    *)
(* process whose code runs is the one whose PCB and page are set           *)
(* (syscall.c:34-42, 88-130).                                              *)
THEOREM OwnPage == OneTerminalSpec => []RunsInItsOwnPage
  <1>1. IInv => RunsInItsOwnPage
    BY DEF IInv, StageInv, RunsInItsOwnPage
  <1> QED BY <1>1, IInvAlways, PTL

(* It owns its slot and its kernel stack (syscall.c:83-96, 345).           *)
THEOREM OwnSlotAndStack == OneTerminalSpec => []RunningOwnsSlotAndStack
  <1>1. IInv => RunningOwnsSlotAndStack
    BY DEF IInv, StageInv, RunningOwnsSlotAndStack
  <1> QED BY <1>1, IInvAlways, PTL

(* halt finds the activation that executed the program where the PCB says, *)
(* whatever kernel entries came since, under the same condition            *)
(* (syscall.c:88, 398-406).                                                *)
THEOREM ReturnPath == OneTerminalSpec => []ReturnPathIntact
  <1>1. IInv => ReturnPathIntact
    BY DEF IInv, FramesInv, FrameOf, ReturnPathIntact, Started, Loading, InUser, Programs
  <1> QED BY <1>1, IInvAlways, PTL

(* So halt always returns to a frozen activation (syscall.c:88, 130).      *)
THEOREM ControlKept == OneTerminalSpec => []NeverLost
  <1>1. IInv => NeverLost
    BY DEF IInv, StageInv, NeverLost
  <1> QED BY <1>1, IInvAlways, PTL

(* No slot leaks: the taken slots are the running process and its callers  *)
(* (syscall.c:83, 486-517).                                                *)
THEOREM Accounting == OneTerminalSpec => []SlotsAccounted
  <1>1. IInv => SlotsAccounted
    <2> SUFFICES ASSUME IInv, InUser, NEW p \in Slots, Live(p)
                 PROVE  /\ p >= NSHELL => parent[p] \in Slots \ {p} /\ Live(parent[p])
                        /\ IF p = pnum THEN Callees(p) = {}
                                       ELSE \E q \in Slots : Callees(p) = {q}
      BY DEF SlotsAccounted
    <2>1. curr_pcb = pnum /\ \A q : ~Loading(q) /\ (Started(q) <=> q \in Programs /\ Live(q))
      BY DEF IInv, StageInv, InUser, Loading, Started
    <2>2. \A q \in Slots : q \in Programs <=> q >= NSHELL
      BY ConstantsAssumption DEF Slots, Programs
    <2>3. p >= NSHELL => parent[p] \in Slots \ {p} /\ Live(parent[p])
      BY <2>1, <2>2 DEF IInv, ChainInv
    <2>4. \A q : q \in Callees(p) <=> q \in Programs /\ Started(q) /\ parent[q] = p
      BY <2>1, Constants DEF Callees, IInv, StageInv, ChainInv
    <2>5. CASE p = pnum
      <3>1. \A q : q \notin Callees(p)
        BY <2>1, <2>4, <2>5 DEF IInv, ChainInv
      <3>2. Callees(p) = {}
        BY <3>1
      <3> QED BY <2>3, <2>5, <3>2
    <2>6. CASE p # pnum
      <3>1. PICK q \in Programs : Started(q) /\ parent[q] = p
        BY <2>1, <2>6 DEF IInv, ChainInv
      <3>2. \A r : r \in Callees(p) <=> r = q
        BY <2>4, <3>1 DEF IInv, ChainInv
      <3>3. Callees(p) = {q} /\ q \in Slots
        BY <3>2, Constants
      <3> QED BY <2>3, <2>6, <3>3
    <2> QED BY <2>5, <2>6
  <1> QED BY <1>1, IInvAlways, PTL

Waiting == {p \in Slots \ {curr_pcb} : Live(p) /\ ~Loading(p)}
Caller  == [p \in Slots \ {0} |-> parent[p]]

(* Steps in which nobody starts or stops to run.                           *)
LEMMA CallsStutter ==
  ASSUME curr_pcb' = curr_pcb, parent' = parent,
         \A p \in Slots \ {curr_pcb} : (Live(p) /\ ~Loading(p))' <=> Live(p) /\ ~Loading(p)
  PROVE  UNCHANGED Calls!vars
  <1>1. Waiting' = Waiting
    BY DEF Waiting
  <1>2. Caller' = Caller
    BY DEF Caller
  <1> QED BY <1>1, <1>2 DEF Calls!vars, Waiting, Caller

LEMMA CallsStep == IInv /\ PInv' /\ [Next /\ Undisturbed]_vars => [Calls!Next]_(Calls!vars)
  <1> SUFFICES ASSUME IInv, PInv', [Next /\ Undisturbed]_vars
               PROVE  Calls!Next \/ UNCHANGED Calls!vars
    OBVIOUS
  <1> USE Constants DEF pcbs, table
  <1>9. CASE UNCHANGED vars \/ Overrun
    BY <1>9, CallsStutter DEF vars, Overrun, cpu, Live, Loading
  <1> SUFFICES ASSUME Next, Undisturbed PROVE Calls!Next \/ UNCHANGED Calls!vars
    BY <1>9
  <1>a. TypeOK /\ StageInv /\ ChainInv
    BY DEF IInv
  <1>1. CASE Boot
    <2>1. PICK p \in Slots : TakeSlot(1, p, "lost")
      BY <1>1 DEF Boot
    <2>2. /\ kpc' = "exec" /\ pnum' = p /\ pnumarr' = [pnumarr EXCEPT ![p] = 1]
          /\ curr_pcb' = curr_pcb /\ parent' = parent /\ curr_pcb = NULL
          /\ \A q \in Slots : ~Live(q)
      BY <1>1, <1>a, <2>1 DEF Boot, TakeSlot, StageInv
    <2>3. \A q \in Slots : ~(Live(q) /\ ~Loading(q))'
      BY <2>2, <1>a DEF Live, Loading, TypeOK
    <2> QED BY <2>2, <2>3, CallsStutter
  <1>2. CASE Execute
    <2>1. PICK p \in Slots : TakeSlot(indicator, p, "user")
      BY <1>2 DEF Execute
    <2>2. /\ kpc = "user" /\ kpc' = "exec" /\ pnum' = p /\ pnumarr' = [pnumarr EXCEPT ![p] = 1]
          /\ curr_pcb' = curr_pcb /\ parent' = parent /\ pnumarr[p] = 0
      BY <1>2, <2>1 DEF Execute, TakeSlot, SetPnum
    <2>3. \A q \in Slots \ {curr_pcb} : (Live(q) /\ ~Loading(q))' <=> Live(q) /\ ~Loading(q)
      BY <2>2, <1>a DEF Live, Loading, TypeOK
    <2> QED BY <2>2, <2>3, CallsStutter
  <1>3. CASE ExecuteFails \/ Block \/ Unblock \/ Pit
    <2>1. /\ curr_pcb' = curr_pcb /\ parent' = parent /\ pnumarr' = pnumarr
          /\ kpc # "exec" /\ kpc' # "exec"
      BY <1>3 DEF ExecuteFails, Block, Unblock, Pit
    <2> QED BY <2>1, CallsStutter DEF Live, Loading
  <1>4. CASE Halt \/ CtrlC \/ Fault
    <2>1. PICK s, i : HaltEnter(s, i)
      BY <1>4 DEF Halt, CtrlC, Fault
    <2>2. KeyTaken /\ ~Window
      BY <1>4 DEF Halt, CtrlC, Fault, KeyTaken, Window, Undisturbed
    <2>3. /\ curr_pcb' = curr_pcb /\ parent' = parent /\ kpc' # "exec"
          /\ pnumarr' = [pnumarr EXCEPT ![curr_pcb] = 0] /\ \A q : ~Loading(q)
      BY <1>a, <2>1, <2>2, HaltTarget DEF HaltEnter, FreeSlot
    <2>4. \A q \in Slots \ {curr_pcb} : (Live(q) /\ ~Loading(q))' <=> Live(q) /\ ~Loading(q)
      BY <2>3, <1>a DEF Live, Loading, TypeOK
    <2> QED BY <2>3, <2>4, CallsStutter
  <1>5. CASE HaltRespawn
    <2>1. /\ kpc = "respawn" /\ pnum = 0 /\ curr_pcb = 0 /\ pnumarr[0] = 0 /\ indicator = 1
          /\ curr_pcb' = curr_pcb /\ parent' = parent
      BY <1>5, <1>a DEF HaltRespawn, StageInv, TypeOK, Live
    <2>2. SetPnum(1, 0)
      BY <2>1 DEF SetPnum
    <2>3. PICK p \in Slots : TakeSlot(1, p, "unwind")
      BY <1>5, <2>1, <2>2 DEF HaltRespawn, SetPnumFails
    <2>p. p = 0
      BY <2>1, <2>3 DEF TakeSlot, SetPnum
    <2>4. pnum' = 0 /\ pnumarr' = [pnumarr EXCEPT ![0] = 1]
      BY <2>3, <2>p DEF TakeSlot
    <2>5. \A q \in Slots \ {curr_pcb} : (Live(q) /\ ~Loading(q))' <=> Live(q) /\ ~Loading(q)
      BY <2>1, <2>4, <1>a DEF Live, Loading, TypeOK
    <2> QED BY <2>1, <2>5, CallsStutter
  <1>6. CASE CreatePCB
    <2>1. /\ kpc = "exec" /\ kpc' = "pcb" /\ curr_pcb' = pnum /\ pnum \in Slots
          /\ pnumarr' = pnumarr /\ pnum' = pnum
          /\ parent' = [parent EXCEPT ![pnum] = curr_pcb] /\ Live(pnum)
          /\ parent \in [Slots -> Slots \cup {NULL}]
      BY <1>6, <1>a DEF CreatePCB, Parent, TypeOK, StageInv
    <2>2. \A q : (Live(q)' <=> Live(q)) /\ ~Loading(q)'
      BY <2>1 DEF Live, Loading
    <2>3. CASE cont = "user"
      <3>1. pnum \in Programs /\ curr_pcb \in Slots \ {pnum} /\ Live(curr_pcb)
        BY <1>a, <2>1, <2>3 DEF StageInv
      <3>2. \A q : Loading(q) <=> q = pnum
        BY <2>1, <3>1 DEF Loading
      <3>3. curr_pcb # NULL /\ pnum \notin Waiting \cup {curr_pcb}
        BY <3>1, <3>2 DEF Waiting
      <3>4. Waiting' = Waiting \cup {curr_pcb}
        BY <2>1, <2>2, <3>1, <3>2 DEF Waiting
      <3>5. Caller' = [Caller EXCEPT ![pnum] = curr_pcb]
        BY <2>1 DEF Caller
      <3>6. PICK c \in Slots \ {0} : c = pnum
        BY <3>1
      <3>7. Calls!Call(c)
        BY <2>1, <3>3, <3>4, <3>5, <3>6 DEF Calls!Call, Waiting, Caller
      <3> QED BY <3>7 DEF Calls!Next
    <2>4. CASE cont = "unwind"
      <3>1. pnum = 0 /\ curr_pcb = 0
        BY <1>a, <2>1, <2>4 DEF StageInv
      <3>2. Waiting' = Waiting
        BY <2>1, <2>2, <3>1 DEF Waiting, Loading
      <3>3. Caller' = Caller
        BY <2>1, <3>1 DEF Caller
      <3> QED BY <2>1, <3>1, <3>2, <3>3 DEF Calls!vars, Waiting, Caller
    <2>5. CASE cont = "lost"
      <3>1. pnum = 0 /\ curr_pcb = NULL
        BY <1>a, <2>1, <2>5 DEF StageInv
      <3>2. Waiting' = Waiting
        BY <2>1, <2>2, <3>1 DEF Waiting, Loading
      <3>3. Caller' = Caller
        BY <2>1, <3>1 DEF Caller
      <3>4. Calls!Start
        BY <2>1, <3>1, <3>2, <3>3 DEF Calls!Start, Waiting, Caller
      <3> QED BY <3>4 DEF Calls!Next
    <2> QED BY <1>a, <2>1, <2>3, <2>4, <2>5 DEF StageInv
  <1>7. CASE ContextSwitch \/ HaltReload \/ RetToPar
    <2>1. /\ curr_pcb' = curr_pcb /\ parent' = parent /\ pnumarr' = pnumarr
          /\ kpc # "exec" /\ kpc' # "exec"
      BY <1>7 DEF ContextSwitch, HaltReload, RetToPar, RetToUser, RetToKernel, RetToNowhere
    <2> QED BY <2>1, CallsStutter DEF Live, Loading
  <1>8. CASE HaltUnwind
    <2>1. /\ kpc = "unwind" /\ curr_pcb \in Programs /\ ~Live(curr_pcb)
          /\ Started(curr_pcb)
      BY <1>8, <1>a DEF HaltUnwind, StageInv, Started
    <2>2. parent[curr_pcb] \in Slots \ {curr_pcb} /\ Live(parent[curr_pcb])
      BY <1>a, <2>1 DEF ChainInv
    <2>3. /\ kpc' # "exec" /\ curr_pcb' = parent[curr_pcb] /\ parent' = parent
          /\ pnumarr' = pnumarr
      BY <1>8 DEF HaltUnwind
    <2>4. \A q : (Live(q)' <=> Live(q)) /\ ~Loading(q)' /\ ~Loading(q)
      BY <2>1, <2>3 DEF Live, Loading
    <2>5. Caller[curr_pcb] = parent[curr_pcb] /\ Caller' = Caller
      BY <2>1, <2>3 DEF Caller
    <2>6. parent[curr_pcb] \in Waiting
      BY <2>2, <2>4 DEF Waiting
    <2>7. Waiting' = Waiting \ {parent[curr_pcb]}
      BY <2>1, <2>3, <2>4 DEF Waiting
    <2>8. curr_pcb \notin {NULL, 0}
      BY <2>1
    <2>9. Calls!Return
      BY <2>3, <2>5, <2>6, <2>7, <2>8 DEF Calls!Return, Waiting, Caller
    <2> QED BY <2>9 DEF Calls!Next
  <1>10. ASSUME NEW n \in AltKeys, AltFirst(n) \/ AltAgain(n)
         PROVE  Calls!Next \/ UNCHANGED Calls!vars
    <2>1. AltAgain(n)
      BY <1>10, NoSecondTerminal DEF Undisturbed
    <2> QED BY <2>1, CallsStutter DEF AltAgain, Live, Loading
  <1> QED
    BY <1>1, <1>2, <1>3, <1>4, <1>5, <1>6, <1>7, <1>8, <1>9, <1>10
    DEF Next, Step, Event

(* On one terminal, with keys at every step but Ctrl-C in a Window,        *)
(* execute and halt implement call and return (syscall.c:27-42, 80-132).   *)
THEOREM CallAndReturn == OneTerminalSpec => ImplementsCalls
  <1>1. Init => Calls!Init
    <2> SUFFICES ASSUME Init PROVE Calls!Init
      OBVIOUS
    <2>1. \A p \in Slots : ~Live(p) /\ parent[p] = NULL
      BY DEF Init, Live
    <2>2. Waiting = {} /\ Caller = [p \in Slots \ {0} |-> NULL]
      BY <2>1 DEF Waiting, Caller
    <2> QED BY <2>2 DEF Init, Calls!Init, Waiting, Caller
  <1> QED
    BY <1>1, CallsStep, IInvAlways, TypesUndisturbed, PTL
    DEF OneTerminalSpec, ImplementsCalls, Calls!Spec
=============================================================================
