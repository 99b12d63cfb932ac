--------------------------- MODULE ScreensProofs ----------------------------
(***************************************************************************)
(* Proofs about Screens, for any number of terminals and any pictures.     *)
(*                                                                         *)
(* Coherent alone is not inductive: boot must find nothing cached, and the *)
(* terminal on display must be one whose shell was started.                *)
(***************************************************************************)
EXTENDS Screens, TLAPS

Mems == [pt    : [Terminals -> Frames \cup {Absent}],
         tlb   : [Terminals -> Frames \cup {None}],
         frame : [Frames -> Shown]]

Inv ==
  /\ TypeOK /\ Coherent
  /\ Running => fts[indicator] = 1
  /\ ~Running => indicator = 1 /\ given = {} /\ \A n \in Terminals : mem.tlb[n] = None

(* The facts about numbers that everything below needs.                    *)
LEMMA FrameFacts ==
  /\ 1 \in Terminals /\ VIDEO \in Frames /\ VIDEO \notin Terminals
  /\ Absent \notin Frames /\ None \notin Frames /\ Absent # None
  /\ \A n \in Terminals : Home(n) = n /\ Home(n) \in Frames /\ Home(n) # VIDEO
BY ScreensAssumption, SMT DEF Terminals, Frames, VIDEO, Absent, None, Home

(* Changing one field of the record keeps it a record of its kind.         *)
LEMMA FieldUpdates ==
  ASSUME NEW m \in Mems
  PROVE  /\ m = [pt |-> m.pt, tlb |-> m.tlb, frame |-> m.frame]
         /\ m.pt \in [Terminals -> Frames \cup {Absent}]
         /\ m.tlb \in [Terminals -> Frames \cup {None}]
         /\ m.frame \in [Frames -> Shown]
         /\ \A n \in Terminals, f \in Frames :
              [m EXCEPT !.pt[n] = f] = [pt |-> [m.pt EXCEPT ![n] = f], tlb |-> m.tlb, frame |-> m.frame]
         /\ \A n \in Terminals, f \in Frames \cup {None} :
              [m EXCEPT !.tlb[n] = f] = [pt |-> m.pt, tlb |-> [m.tlb EXCEPT ![n] = f], frame |-> m.frame]
         /\ \A f \in Frames, p \in Shown :
              [m EXCEPT !.frame[f] = p] = [pt |-> m.pt, tlb |-> m.tlb, frame |-> [m.frame EXCEPT ![f] = p]]
         /\ flushTLB(m) = [pt |-> m.pt, tlb |-> [n \in Terminals |-> None], frame |-> m.frame]
BY SMT DEF Mems, flushTLB

(* copyFromVideo: where the displayed screen goes.                         *)
LEMMA CopyFromVideo ==
  ASSUME NEW m \in Mems, indicator \in Terminals,
         m.tlb[indicator] \in {None, VIDEO}
  PROVE  LET to == IF m.tlb[indicator] = None THEN Home(indicator) ELSE VIDEO
         IN  copyFromVideo(m) =
               [pt    |-> [m.pt EXCEPT ![indicator] = Home(indicator)],
                tlb   |-> [m.tlb EXCEPT ![indicator] = to],
                frame |-> [m.frame EXCEPT ![to] = m.frame[VIDEO]]]
<1> DEFINE to == IF m.tlb[indicator] = None THEN Home(indicator) ELSE VIDEO
           m1 == [pt |-> [m.pt EXCEPT ![indicator] = Home(indicator)], tlb |-> m.tlb, frame |-> m.frame]
           m2 == [pt |-> m1.pt, tlb |-> [m.tlb EXCEPT ![indicator] = to], frame |-> m.frame]
<1>1. setupPagingDirectoryTable(m, Home(indicator), indicator) = m1
  BY FrameFacts, SMT DEF setupPagingDirectoryTable, Mems
<1>2. m1 \in Mems
  BY FieldUpdates, FrameFacts, SMT DEF Mems
<1>3. Phys(m1, indicator) = to
  BY FieldUpdates, FrameFacts, SMT DEF Phys, Mems
<1>4. to \in Frames
  BY FrameFacts
<1>5. Touch(m1, indicator) = m2
  BY <1>2, <1>3, <1>4, SMT DEF Touch, Mems
<1>6. m2 \in Mems
  BY <1>2, <1>4, SMT DEF Mems
<1>7. m.frame[VIDEO] \in Shown
  BY FrameFacts, FieldUpdates
<1>8. Store(m1, indicator, m.frame[VIDEO])
      = [pt |-> m2.pt, tlb |-> m2.tlb, frame |-> [m2.frame EXCEPT ![to] = m.frame[VIDEO]]]
  BY <1>3, <1>4, <1>5, <1>6, <1>7, SMT DEF Store, Mems
<1> QED BY <1>1, <1>8 DEF copyFromVideo

(* copyToVideo: the page of the terminal is read where it leads.           *)
LEMMA CopyToVideo ==
  ASSUME NEW m \in Mems, NEW n \in Terminals, Phys(m, n) \in Frames
  PROVE  copyToVideo(m, n) =
           [pt    |-> [m.pt EXCEPT ![n] = VIDEO],
            tlb   |-> [m.tlb EXCEPT ![n] = Phys(m, n)],
            frame |-> [m.frame EXCEPT ![VIDEO] = m.frame[Phys(m, n)]]]
<1> DEFINE m1 == [pt |-> m.pt, tlb |-> [m.tlb EXCEPT ![n] = Phys(m, n)], frame |-> m.frame]
           m2 == [pt |-> m.pt, tlb |-> m1.tlb, frame |-> [m.frame EXCEPT ![VIDEO] = m.frame[Phys(m, n)]]]
<1>1. Touch(m, n) = m1 /\ m1 \in Mems
  BY SMT DEF Touch, Mems
<1>2. m.frame[Phys(m, n)] \in Shown
  BY FieldUpdates
<1>3. [Touch(m, n) EXCEPT !.frame[VIDEO] = m.frame[Phys(m, n)]] = m2 /\ m2 \in Mems
  BY <1>1, <1>2, FrameFacts, SMT DEF Mems
<1>4. setupPagingDirectoryTable(m2, VIDEO, n)
      = [pt |-> [m2.pt EXCEPT ![n] = VIDEO], tlb |-> m2.tlb, frame |-> m2.frame]
  BY <1>3, FrameFacts, SMT DEF setupPagingDirectoryTable, Mems
<1> QED BY <1>3, <1>4 DEF copyToVideo

(* What the two halves of screenN() make of the memory.                    *)
To(m) == IF m.tlb[indicator] = None THEN Home(indicator) ELSE VIDEO
Saved(m) == [m.frame EXCEPT ![To(m)] = m.frame[VIDEO]]
Away(m) == [m.pt EXCEPT ![indicator] = Home(indicator)]
NoneCached == [k \in Terminals |-> None]

LEMMA FirstResult ==
  ASSUME NEW m \in Mems, NEW n \in Terminals, indicator \in Terminals,
         m.tlb[indicator] \in {None, VIDEO}
  PROVE  flushTLB(setupPagingDirectoryTable(reset_screen(copyFromVideo(m)), VIDEO, n)) =
           [pt |-> [Away(m) EXCEPT ![n] = VIDEO], tlb |-> NoneCached,
            frame |-> [Saved(m) EXCEPT ![VIDEO] = Blank]]
<1> DEFINE c == [pt |-> Away(m), tlb |-> [m.tlb EXCEPT ![indicator] = To(m)], frame |-> Saved(m)]
<1>1. copyFromVideo(m) = c
  BY CopyFromVideo DEF To, Away, Saved
<1>2. Away(m) \in [Terminals -> Frames \cup {Absent}] /\ Saved(m) \in [Frames -> Shown]
      /\ [m.tlb EXCEPT ![indicator] = To(m)] \in [Terminals -> Frames \cup {None}]
  BY FrameFacts, SMT DEF Away, Saved, To, Mems
<1>3. Blank \in Shown
  BY DEF Shown
<1>4. reset_screen(c) = [pt |-> c.pt, tlb |-> c.tlb, frame |-> [c.frame EXCEPT ![VIDEO] = Blank]]
  BY SMT DEF reset_screen
<1> DEFINE d == [pt |-> c.pt, tlb |-> c.tlb, frame |-> [c.frame EXCEPT ![VIDEO] = Blank]]
<1>5. setupPagingDirectoryTable(d, VIDEO, n)
      = [pt |-> [d.pt EXCEPT ![n] = VIDEO], tlb |-> d.tlb, frame |-> d.frame]
  BY SMT DEF setupPagingDirectoryTable
<1> DEFINE e == [pt |-> [d.pt EXCEPT ![n] = VIDEO], tlb |-> d.tlb, frame |-> d.frame]
<1>6. flushTLB(e) = [pt |-> e.pt, tlb |-> NoneCached, frame |-> e.frame]
  BY SMT DEF flushTLB, NoneCached
<1> QED BY <1>1, <1>4, <1>5, <1>6

LEMMA AgainResult ==
  ASSUME NEW m \in Mems, NEW n \in Terminals, indicator \in Terminals,
         m.tlb[indicator] \in {None, VIDEO},
         n # indicator => m.pt[n] = Home(n) /\ m.tlb[n] \in {None, Home(n)}
  PROVE  LET from == IF n = indicator THEN To(m) ELSE Home(n)
         IN  flushTLB(copyToVideo(copyFromVideo(m), n)) =
               [pt |-> [Away(m) EXCEPT ![n] = VIDEO], tlb |-> NoneCached,
                frame |-> [Saved(m) EXCEPT ![VIDEO] = Saved(m)[from]]]
<1> DEFINE c == [pt |-> Away(m), tlb |-> [m.tlb EXCEPT ![indicator] = To(m)], frame |-> Saved(m)]
           from == IF n = indicator THEN To(m) ELSE Home(n)
<1>1. copyFromVideo(m) = c
  BY CopyFromVideo DEF To, Away, Saved
<1>2. To(m) \in Frames /\ from \in Frames
  BY FrameFacts DEF To
<1>3. c \in Mems
  BY <1>2, FrameFacts, SMT DEF Away, Saved, Mems
<1>4. Phys(c, n) = from
  <2>1. CASE n = indicator
    BY <2>1, <1>2, FrameFacts, SMT DEF Phys, Mems
  <2>2. CASE n # indicator
    BY <2>2, <1>2, FrameFacts, SMT DEF Phys, Mems, Away
  <2> QED BY <2>1, <2>2
<1>5. copyToVideo(c, n) = [pt |-> [c.pt EXCEPT ![n] = VIDEO], tlb |-> [c.tlb EXCEPT ![n] = from],
                           frame |-> [c.frame EXCEPT ![VIDEO] = c.frame[from]]]
  <2> HIDE DEF c, from
  <2> QED BY <1>2, <1>3, <1>4, CopyToVideo
<1> DEFINE e == [pt |-> [c.pt EXCEPT ![n] = VIDEO], tlb |-> [c.tlb EXCEPT ![n] = from],
                 frame |-> [c.frame EXCEPT ![VIDEO] = c.frame[from]]]
<1>6. flushTLB(e) = [pt |-> e.pt, tlb |-> NoneCached, frame |-> e.frame]
  BY SMT DEF flushTLB, NoneCached
<1> QED BY <1>1, <1>5, <1>6
-----------------------------------------------------------------------------
(* Init => Inv.                                                            *)
LEMMA InitInv == Init => Inv
<1> SUFFICES ASSUME Init PROVE Inv
  OBVIOUS
<1>1. ~Running
  BY SMT DEF Init, Running
<1>2. TypeOK
  BY FrameFacts, SMT DEF Init, TypeOK, Shown, Blank
<1>3. indicator = 1 /\ given = {} /\ \A n \in Terminals : mem.tlb[n] = None
  BY SMT DEF Init
<1> QED BY <1>1, <1>2, <1>3 DEF Inv, Coherent

(* A memory in which only terminal n is mapped to the video memory and     *)
(* nothing is cached satisfies Inv when n is on display and started.       *)
LEMMA SwitchedInv ==
  ASSUME TypeOK, NEW n \in Terminals, NEW p, NEW f,
         mem' = [pt |-> p, tlb |-> NoneCached, frame |-> f],
         p \in [Terminals -> Frames \cup {Absent}], f \in [Frames -> Shown],
         \A k \in Terminals : p[k] = IF k = n THEN VIDEO ELSE Home(k),
         indicator' = n, fts' \in [Terminals -> {0, 1}], fts'[n] = 1,
         given' = given, ptr' \in {0} \cup given
  PROVE  Inv'
<1>1. Running'
  BY DEF Running
<1>2. mem' \in Mems
  BY FrameFacts, SMT DEF Mems, NoneCached
<1>3. TypeOK'
  BY <1>2 DEF TypeOK, Mems
<1>4. \A k \in Terminals : mem'.pt[k] = (IF k = indicator' THEN VIDEO ELSE Home(k))
                           /\ mem'.tlb[k] = None
  BY SMT DEF NoneCached
<1> QED BY <1>1, <1>3, <1>4 DEF Inv, Coherent

(* What Inv says of the memory while a program runs.                       *)
LEMMA RunningMem ==
  ASSUME Inv, Running
  PROVE  /\ mem \in Mems /\ indicator \in Terminals /\ fts[indicator] = 1
         /\ fts \in [Terminals -> {0, 1}] /\ given \subseteq Terminals
         /\ ptr \in {0} \cup given
         /\ mem.pt[indicator] = VIDEO /\ mem.tlb[indicator] \in {None, VIDEO}
         /\ \A n \in Terminals : n # indicator =>
              mem.pt[n] = Home(n) /\ mem.tlb[n] \in {None, Home(n)}
<1>1. mem \in Mems /\ indicator \in Terminals /\ fts[indicator] = 1
      /\ fts \in [Terminals -> {0, 1}] /\ given \subseteq Terminals /\ ptr \in {0} \cup given
  BY DEF Inv, TypeOK, Mems
<1>2. \A n \in Terminals : /\ mem.pt[n] = (IF n = indicator THEN VIDEO ELSE Home(n))
                           /\ mem.tlb[n] \in {None, mem.pt[n]}
  BY DEF Inv, Coherent
<1>3. mem.pt[indicator] = VIDEO /\ mem.tlb[indicator] \in {None, VIDEO}
  BY <1>1, <1>2
<1>4. ASSUME NEW n \in Terminals, n # indicator
      PROVE  mem.pt[n] = Home(n) /\ mem.tlb[n] \in {None, Home(n)}
  BY <1>2, <1>4
<1> QED BY <1>1, <1>3, <1>4

LEMMA SavedTypes ==
  ASSUME NEW m \in Mems, indicator \in Terminals
  PROVE  /\ To(m) \in Frames
         /\ Saved(m) \in [Frames -> Shown]
         /\ Away(m) \in [Terminals -> Frames \cup {Absent}]
         /\ Blank \in Shown
BY FrameFacts, SMT DEF To, Saved, Away, Mems, Shown

LEMMA AltFInv ==
  ASSUME Inv, NEW n \in Terminals, AltF(n)
  PROVE  Inv'
<1> DEFINE p == [Away(mem) EXCEPT ![n] = VIDEO]
<1>r. Running
  BY DEF AltF
<1>1. p \in [Terminals -> Frames \cup {Absent}]
      /\ \A k \in Terminals : p[k] = IF k = n THEN VIDEO ELSE Home(k)
  BY <1>r, RunningMem, SavedTypes, FrameFacts, SMT DEF Away, Mems
<1>2. CASE First(mem, n)
  <2> DEFINE f == [Saved(mem) EXCEPT ![VIDEO] = Blank]
  <2>1. mem' = [pt |-> p, tlb |-> NoneCached, frame |-> f]
    BY <1>2, <1>r, RunningMem, FirstResult DEF First
  <2>2. f \in [Frames -> Shown]
    BY <1>r, RunningMem, SavedTypes, FrameFacts, SMT
  <2>3. fts' \in [Terminals -> {0, 1}] /\ fts'[n] = 1
    BY <1>2, <1>r, RunningMem, SMT DEF First
  <2>4. indicator' = n /\ given' = given /\ ptr' \in {0} \cup given
    BY <1>2 DEF First
  <2> HIDE DEF p, f
  <2> QED BY <1>1, <2>1, <2>2, <2>3, <2>4, SwitchedInv DEF Inv
<1>3. CASE Again(mem, n)
  <2> DEFINE from == IF n = indicator THEN To(mem) ELSE Home(n)
             f == [Saved(mem) EXCEPT ![VIDEO] = Saved(mem)[from]]
  <2>1. mem' = [pt |-> p, tlb |-> NoneCached, frame |-> f]
    BY <1>3, <1>r, RunningMem, AgainResult DEF Again
  <2>2. f \in [Frames -> Shown]
    BY <1>r, RunningMem, SavedTypes, FrameFacts, SMT
  <2>3. fts' \in [Terminals -> {0, 1}] /\ fts'[n] = 1
    BY <1>3, <1>r, RunningMem, SMT DEF Again
  <2>4. indicator' = n /\ given' = given /\ ptr' \in {0} \cup given
    BY <1>3, <1>r, RunningMem DEF Again
  <2> HIDE DEF p, f
  <2> QED BY <1>1, <2>1, <2>2, <2>3, <2>4, SwitchedInv DEF Inv
<1> QED BY <1>2, <1>3 DEF AltF

LEMMA BootInv ==
  ASSUME Inv, Boot
  PROVE  Inv'
<1> DEFINE m == [mem EXCEPT !.pt = [n \in Terminals |-> IF n = 1 THEN VIDEO ELSE Home(n)]]
           p == [Away(m) EXCEPT ![1] = VIDEO]
           f == [Saved(m) EXCEPT ![VIDEO] = Blank]
<1>1. /\ mem \in Mems /\ indicator = 1 /\ fts \in [Terminals -> {0, 1}] /\ given \subseteq Terminals
      /\ \A n \in Terminals : mem.tlb[n] = None
  BY DEF Boot, Inv, TypeOK, Mems
<1>2. /\ m \in Mems /\ m.tlb[indicator] = None
      /\ \A k \in Terminals : m.pt[k] = IF k = 1 THEN VIDEO ELSE Home(k)
  BY <1>1, FrameFacts, SMT DEF Mems
<1> HIDE DEF m
<1>3. First(m, 1)
  BY DEF Boot, m
<1>4. mem' = [pt |-> p, tlb |-> NoneCached, frame |-> f]
  BY <1>1, <1>2, <1>3, FrameFacts, FirstResult DEF First
<1>5. p \in [Terminals -> Frames \cup {Absent}]
      /\ \A k \in Terminals : p[k] = IF k = 1 THEN VIDEO ELSE Home(k)
  BY <1>1, <1>2, SavedTypes, FrameFacts, SMT DEF Away, Mems
<1>6. f \in [Frames -> Shown]
  BY <1>1, <1>2, SavedTypes, FrameFacts, SMT
<1>7. fts' \in [Terminals -> {0, 1}] /\ fts'[1] = 1
  BY <1>1, <1>3, FrameFacts, SMT DEF First
<1>8. indicator' = 1 /\ given' = given /\ ptr' \in {0} \cup given
  BY <1>3 DEF First
<1> HIDE DEF p, f
<1> QED BY <1>4, <1>5, <1>6, <1>7, <1>8, FrameFacts, SwitchedInv DEF Inv

(* The other steps keep the table, and the cache forgets or learns what    *)
(* the table says.                                                         *)
LEMMA SameTableInv ==
  ASSUME Inv, Running, mem' \in Mems, mem'.pt = mem.pt,
         \A n \in Terminals : mem'.tlb[n] \in {None, mem.pt[n]},
         indicator' = indicator, fts' = fts,
         given \subseteq given', given' \subseteq Terminals, ptr' \in {0} \cup given'
  PROVE  Inv'
<1>1. Running' /\ indicator' \in Terminals /\ fts' \in [Terminals -> {0, 1}] /\ fts'[indicator'] = 1
  BY RunningMem DEF Running
<1>2. TypeOK'
  BY <1>1 DEF TypeOK, Mems
<1>3. Coherent'
  BY <1>1 DEF Inv, Coherent, Running
<1> QED BY <1>1, <1>2, <1>3 DEF Inv

LEMMA StoreMem ==
  ASSUME Inv, Running, NEW n \in Terminals, NEW pic \in Shown
  PROVE  LET s == Store(mem, n, pic) IN
         /\ s \in Mems /\ s.pt = mem.pt
         /\ \A k \in Terminals : s.tlb[k] \in {None, mem.pt[k]}
         /\ s.frame = [mem.frame EXCEPT ![mem.pt[n]] = pic]
<1>1. mem \in Mems /\ \A k \in Terminals : mem.tlb[k] \in {None, mem.pt[k]}
  BY RunningMem
<1>2. mem.pt[n] \in Frames
  BY RunningMem, FrameFacts
<1>3. Phys(mem, n) = mem.pt[n]
  BY <1>1 DEF Phys
<1>4. Touch(mem, n) = [pt |-> mem.pt, tlb |-> [mem.tlb EXCEPT ![n] = mem.pt[n]], frame |-> mem.frame]
  BY <1>1, <1>3, SMT DEF Touch, Mems
<1>5. Store(mem, n, pic) = [pt |-> mem.pt, tlb |-> [mem.tlb EXCEPT ![n] = mem.pt[n]],
                            frame |-> [mem.frame EXCEPT ![mem.pt[n]] = pic]]
  BY <1>3, <1>4, SMT DEF Store
<1> QED BY <1>1, <1>2, <1>5, SMT DEF Mems

LEMMA NextInv == Inv /\ [Next]_vars => Inv'
<1> SUFFICES ASSUME Inv, [Next]_vars PROVE Inv'
  OBVIOUS
<1>1. CASE Boot
  BY <1>1, BootInv
<1>2. CASE CtrlL
  <2>1. Running /\ mem \in Mems
    BY <1>2, RunningMem DEF CtrlL
  <2>2. mem' \in Mems /\ mem'.pt = mem.pt /\ mem'.tlb = mem.tlb
    BY <1>2, <2>1, FrameFacts, SMT DEF CtrlL, reset_screen, Mems, Shown
  <2> QED BY <1>2, <2>1, <2>2, RunningMem, SameTableInv DEF CtrlL
<1>3. CASE Vidmap
  <2>1. Running /\ mem' = mem
    BY <1>3 DEF Vidmap
  <2>2. given \subseteq given' /\ given' \subseteq Terminals /\ ptr' \in {0} \cup given'
    BY <1>3, <2>1, RunningMem DEF Vidmap, ShownPage
  <2> QED BY <1>3, <2>1, <2>2, RunningMem, SameTableInv DEF Vidmap
<1>4. CASE ChangeProgram
  <2>1. Running /\ mem \in Mems
    BY <1>4, RunningMem DEF ChangeProgram
  <2>2. mem' \in Mems /\ mem'.pt = mem.pt /\ \A n \in Terminals : mem'.tlb[n] = None
    BY <1>4, <2>1, SMT DEF ChangeProgram, flushTLB, Mems
  <2> QED BY <1>4, <2>1, <2>2, RunningMem, SameTableInv DEF ChangeProgram
<1>5. ASSUME NEW n \in Terminals, AltF(n) PROVE Inv'
  BY <1>5, AltFInv
<1>6. ASSUME NEW n \in Terminals, Evict(n) PROVE Inv'
  <2>1. mem \in Mems
    BY DEF Inv, TypeOK, Mems
  <2>2. mem' \in Mems /\ mem'.pt = mem.pt
        /\ \A k \in Terminals : mem'.tlb[k] = IF k = n THEN None ELSE mem.tlb[k]
    BY <1>6, <2>1, SMT DEF Evict, Mems
  <2>3. CASE Running
    <3>1. \A k \in Terminals : mem'.tlb[k] \in {None, mem.pt[k]}
      BY <2>2, <2>3, RunningMem
    <3> QED BY <1>6, <2>2, <2>3, <3>1, RunningMem, SameTableInv DEF Evict
  <2>4. CASE ~Running
    <3>1. ~Running' /\ indicator' = indicator /\ given' = given
      BY <1>6, <2>4 DEF Evict, Running
    <3>2. TypeOK'
      BY <1>6, <2>2 DEF Evict, Inv, TypeOK, Mems
    <3>3. \A k \in Terminals : mem'.tlb[k] = None
      BY <2>2, <2>4 DEF Inv
    <3> QED BY <2>4, <3>1, <3>2, <3>3 DEF Inv, Coherent
  <2> QED BY <2>3, <2>4
<1>7. ASSUME NEW pic \in Pictures, Putc(pic) PROVE Inv'
  <2>1. Running /\ mem \in Mems
    BY <1>7, RunningMem DEF Putc
  <2>2. mem' \in Mems /\ mem'.pt = mem.pt /\ mem'.tlb = mem.tlb
    BY <1>7, <2>1, FrameFacts, SMT DEF Putc, Mems, Shown
  <2> QED BY <1>7, <2>1, <2>2, RunningMem, SameTableInv DEF Putc
<1>8. ASSUME NEW pic \in Pictures, Draw(pic) PROVE Inv'
  <2>1. ptr \in given /\ ptr \in Terminals
    BY <1>8 DEF Draw, Inv, TypeOK
  <2>2. CASE Running
    <3>1. pic \in Shown
      BY DEF Shown
    <3>2. mem' \in Mems /\ mem'.pt = mem.pt
          /\ \A k \in Terminals : mem'.tlb[k] \in {None, mem.pt[k]}
      BY <1>8, <2>1, <2>2, <3>1, StoreMem DEF Draw
    <3> QED BY <1>8, <2>2, <3>2, RunningMem, SameTableInv DEF Draw
  <2>3. CASE ~Running
    BY <1>8, <2>1, <2>3, FrameFacts DEF Draw, Inv, TypeOK
  <2> QED BY <2>2, <2>3
<1>9. CASE UNCHANGED vars
  BY <1>9 DEF vars, Inv, TypeOK, Coherent, Running
<1> QED BY <1>1, <1>2, <1>3, <1>4, <1>5, <1>6, <1>7, <1>8, <1>9 DEF Next

(* The type invariant of the screens.                                      *)
THEOREM TypeCorrect == Spec => []TypeOK
<1>1. Inv => TypeOK
  BY DEF Inv
<1> QED BY <1>1, InitInv, NextInv, PTL DEF Spec

(* Table, cache and display agree whenever a program runs: the switches of *)
(* scheduling.c:63-199 flush late but in time.                             *)
THEOREM CoherentAlways == Spec => []Coherent
<1>1. Inv => Coherent
  BY DEF Inv
<1> QED BY <1>1, InitInv, NextInv, PTL DEF Spec
-----------------------------------------------------------------------------
(* One switch keeps the screens, nothing of the left page being cached.    *)
LEMMA SwitchKeeps ==
  ASSUME Inv, NEW n \in Terminals, AltF(n), mem.tlb[indicator] = None \/ n = indicator,
         NEW k \in Terminals
  PROVE  ScreenOf(k)' = IF fts[k] = 1 THEN ScreenOf(k) ELSE IF k = n THEN Blank ELSE ScreenOf(k)
<1>r. Running
  BY DEF AltF
<1>1. /\ mem \in Mems /\ indicator \in Terminals /\ fts[indicator] = 1
      /\ mem.tlb[indicator] \in {None, VIDEO}
      /\ n # indicator => mem.pt[n] = Home(n) /\ mem.tlb[n] \in {None, Home(n)}
  BY <1>r, RunningMem
<1>2. mem.frame \in [Frames -> Shown] /\ To(mem) \in Frames /\ Saved(mem) \in [Frames -> Shown]
  BY <1>1, SavedTypes DEF Mems
<1>3. CASE First(mem, n)
  <2>1. mem' = [pt |-> [Away(mem) EXCEPT ![n] = VIDEO], tlb |-> NoneCached,
                frame |-> [Saved(mem) EXCEPT ![VIDEO] = Blank]] /\ indicator' = n
    BY <1>1, <1>3, FirstResult DEF First
  <2>2. n # indicator /\ To(mem) = indicator
    BY <1>1, <1>3, FrameFacts DEF First, To
  <2>3. mem'.frame = [Saved(mem) EXCEPT ![VIDEO] = Blank]
    BY <2>1
  <2>4. ScreenOf(k)' = mem'.frame[IF k = n THEN VIDEO ELSE Home(k)]
    BY <2>1 DEF ScreenOf
  <2>5. Saved(mem) = [mem.frame EXCEPT ![indicator] = mem.frame[VIDEO]]
    BY <2>2 DEF Saved
  <2>6. fts[n] = 0
    BY <1>3 DEF First
  <2> QED BY <1>1, <1>2, <2>2, <2>3, <2>4, <2>5, <2>6, FrameFacts DEF ScreenOf
<1>4. CASE Again(mem, n)
  <2> DEFINE from == IF n = indicator THEN To(mem) ELSE Home(n)
  <2>1. mem' = [pt |-> [Away(mem) EXCEPT ![n] = VIDEO], tlb |-> NoneCached,
                frame |-> [Saved(mem) EXCEPT ![VIDEO] = Saved(mem)[from]]] /\ indicator' = n
    BY <1>1, <1>4, AgainResult DEF Again
  <2>2. mem'.frame = [Saved(mem) EXCEPT ![VIDEO] = Saved(mem)[from]]
    BY <2>1
  <2>3. ScreenOf(k)' = mem'.frame[IF k = n THEN VIDEO ELSE Home(k)]
    BY <2>1 DEF ScreenOf
  <2>4. fts[n] = 1
    BY <1>4 DEF Again
  <2>5. CASE n = indicator
    <3>1. Saved(mem)[To(mem)] = mem.frame[VIDEO]
      BY <1>2 DEF Saved
    <3>2. ASSUME k # n PROVE Saved(mem)[Home(k)] = mem.frame[Home(k)]
      BY <1>2, <2>5, <3>2, FrameFacts DEF Saved, To
    <3> QED BY <1>1, <1>2, <2>2, <2>3, <2>4, <2>5, <3>1, <3>2, FrameFacts DEF ScreenOf
  <2>6. CASE n # indicator
    <3>1. Saved(mem) = [mem.frame EXCEPT ![indicator] = mem.frame[VIDEO]]
      BY <1>1, <2>6, FrameFacts DEF Saved, To
    <3> QED BY <1>1, <1>2, <2>2, <2>3, <2>4, <2>6, <3>1, FrameFacts DEF ScreenOf
  <2> QED BY <2>5, <2>6
<1> QED BY <1>3, <1>4 DEF AltF

(* Alt-Fn keeps what the started terminals show and blanks a new one, when *)
(* the page that is left has no cached translation (scheduling.c:63-199).  *)
THEOREM ScreensKeptAlways == Spec => ScreensKept
<1>1. ASSUME Inv, [Next]_vars
      PROVE  [\A n \in Terminals : AltF(n) /\ (mem.tlb[indicator] = None \/ n = indicator) =>
                \A k \in Terminals :
                  ScreenOf(k)' = IF fts[k] = 1 THEN ScreenOf(k)
                                 ELSE IF k = n THEN Blank ELSE ScreenOf(k)]_vars
  BY <1>1, SwitchKeeps
<1> QED BY <1>1, InitInv, NextInv, PTL DEF Spec, ScreensKept

(* What a program draws through its page from vidmap shows on the terminal *)
(* of that page and on no other, displayed or not (syscall.c:452).         *)
DrawsHome ==
  [][\A pic \in Pictures : Draw(pic) =>
       \A n \in Terminals : ScreenOf(n)' = IF n = ptr THEN pic ELSE ScreenOf(n)]_vars

(* Every drawing goes home.                                                *)
THEOREM DrawsHomeAlways == Spec => DrawsHome
<1>1. ASSUME Inv, [Next]_vars
      PROVE  [\A pic \in Pictures : Draw(pic) =>
                \A n \in Terminals : ScreenOf(n)' = IF n = ptr THEN pic ELSE ScreenOf(n)]_vars
  <2> SUFFICES ASSUME NEW pic \in Pictures, Draw(pic), NEW n \in Terminals
               PROVE  ScreenOf(n)' = IF n = ptr THEN pic ELSE ScreenOf(n)
    OBVIOUS
  <2>1. ptr \in Terminals /\ Running /\ pic \in Shown
    BY <1>1 DEF Draw, Inv, TypeOK, Shown
  <2>2. mem'.frame = [mem.frame EXCEPT ![mem.pt[ptr]] = pic] /\ indicator' = indicator
    BY <1>1, <2>1, StoreMem DEF Draw
  <2>3. mem.frame \in [Frames -> Shown]
        /\ mem.pt[ptr] = IF ptr = indicator THEN VIDEO ELSE Home(ptr)
    BY <1>1, <2>1, RunningMem DEF Mems
  <2> QED BY <2>1, <2>2, <2>3, FrameFacts DEF ScreenOf
<1> QED BY <1>1, InitInv, NextInv, PTL DEF Spec, DrawsHome
=============================================================================
