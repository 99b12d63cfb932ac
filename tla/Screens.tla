------------------------------ MODULE Screens -------------------------------
(***************************************************************************)
(* The video memory of the terminals (scheduling.c, paging.c): one page of *)
(* user space per terminal, mapped to the video memory while the terminal  *)
(* is displayed and to memory of its own while it is not.                  *)
(*                                                                         *)
(* page_table_2 and the translations the CPU has cached are kept apart: a  *)
(* change of the table counts for a page only once its cached translation  *)
(* is gone.  The kernel reaches the video memory at 0xB8000 through a      *)
(* table that never changes.  Switches run with interrupts off, so each is *)
(* one step.                                                               *)
(***************************************************************************)
EXTENDS Integers

CONSTANTS
  NTERM,    \* terminals (3)
  Pictures  \* what a screen can show

ASSUME ScreensAssumption == NTERM \in Nat \ {0}

Terminals == 1 .. NTERM
Blank  == "blank"
VIDEO  == 0                           \* frame of the video memory
Home(n) == n                          \* SCREENn_MEM
Frames == {VIDEO} \cup Terminals
Absent == -1                          \* page not present
None   == -2                          \* translation not cached

VARIABLES
  mem,        \* pt: page_table_2, tlb: cached translations, frame: contents
  indicator,  \* terminal on display
  fts,        \* terminal -> 1 when its shell has been started
  ptr,        \* page the running program got from vidmap, 0 if none
  given       \* pages that vidmap has ever returned

vars == <<mem, indicator, fts, ptr, given>>

Shown == Pictures \cup {Blank}
TypeOK ==
  /\ mem \in [pt    : [Terminals -> Frames \cup {Absent}],
              tlb   : [Terminals -> Frames \cup {None}],
              frame : [Frames -> Shown]]
  /\ indicator \in Terminals
  /\ fts \in [Terminals -> {0, 1}]
  /\ given \subseteq Terminals
  /\ ptr \in {0} \cup given

(* initPaging(): page_table_2 is there, its pages are not.                 *)
Init ==
  /\ mem = [pt    |-> [n \in Terminals |-> Absent],
            tlb   |-> [n \in Terminals |-> None],
            frame |-> [f \in Frames |-> Blank]]
  /\ indicator = 1
  /\ fts = [n \in Terminals |-> 0]
  /\ ptr = 0 /\ given = {}
-----------------------------------------------------------------------------
(* An access to the page of terminal n: the cached translation if there is *)
(* one, otherwise that of the table, which is then cached.                 *)
Phys(m, n) == IF m.tlb[n] = None THEN m.pt[n] ELSE m.tlb[n]
Touch(m, n) == [m EXCEPT !.tlb[n] = Phys(m, n)]
Store(m, n, pic) == [Touch(m, n) EXCEPT !.frame[Phys(m, n)] = pic]

setupPagingDirectoryTable(m, f, n) == [m EXCEPT !.pt[n] = f]
flushTLBNot(m) == m
flushTLB(m) == [m EXCEPT !.tlb = [n \in Terminals |-> None]]

reset_screen(m) == [m EXCEPT !.frame[VIDEO] = Blank]

(* The displayed screen is saved: the table first, then the copy.          *)
copyFromVideoSwapped(m) ==
  setupPagingDirectoryTable(Store(m, indicator, m.frame[VIDEO]), Home(indicator), indicator)
copyFromVideo(m) ==
  Store(setupPagingDirectoryTable(m, Home(indicator), indicator), indicator, m.frame[VIDEO])

(* The screen of terminal n is brought back: the copy first, then the table.*)
copyToVideo(m, n) ==
  setupPagingDirectoryTable(
    [Touch(m, n) EXCEPT !.frame[VIDEO] = m.frame[Phys(m, n)]], VIDEO, n)

(* The two halves of screenN().  The new shell has no page from vidmap.    *)
First(m, n) ==
  /\ fts[n] = 0
  /\ mem' = flushTLB(setupPagingDirectoryTable(reset_screen(copyFromVideo(m)), VIDEO, n))
  /\ indicator' = n /\ fts' = [fts EXCEPT ![n] = 1]
  /\ ptr' = 0 /\ UNCHANGED given
Again(m, n) ==
  /\ fts[n] = 1
  /\ mem' = flushTLB(copyToVideo(copyFromVideo(m), n))
  /\ indicator' = n
  /\ UNCHANGED <<fts, ptr, given>>

Running == \E n \in Terminals : fts[n] = 1
AltF(n) == Running /\ (First(mem, n) \/ Again(mem, n))

(* init_screen_memory().                                                   *)
Boot ==
  /\ ~Running
  /\ First([mem EXCEPT !.pt = [n \in Terminals |-> IF n = 1 THEN VIDEO ELSE Home(n)]], 1)

(* putc() of the kernel, Ctrl-L.                                           *)
Putc(pic) == Running /\ mem' = [mem EXCEPT !.frame[VIDEO] = pic]
             /\ UNCHANGED <<indicator, fts, ptr, given>>
CtrlL == Running /\ mem' = reset_screen(mem) /\ UNCHANGED <<indicator, fts, ptr, given>>

(* vidmap(): the page of the terminal on display.                          *)
ShownPageNext == indicator + 1
ShownPage == indicator
Vidmap ==
  /\ Running
  /\ ptr' = ShownPage /\ given' = given \cup {indicator}
  /\ UNCHANGED <<mem, indicator, fts>>

(* The program draws on the page it was given.                             *)
Draw(pic) ==
  /\ ptr # 0
  /\ mem' = Store(mem, ptr, pic)
  /\ UNCHANGED <<indicator, fts, ptr, given>>

(* execute and halt: setupPage() and parentPage() flush; another program   *)
(* runs, with its own pointer or none.                                     *)
ChangeProgram ==
  /\ Running
  /\ mem' = flushTLB(mem)
  /\ ptr' \in {0} \cup given
  /\ UNCHANGED <<indicator, fts, given>>

(* The CPU may drop a cached translation at any time.                      *)
Evict(n) ==
  /\ mem' = [mem EXCEPT !.tlb[n] = None]
  /\ UNCHANGED <<indicator, fts, ptr, given>>

Next ==
  \/ Boot \/ CtrlL \/ Vidmap \/ ChangeProgram
  \/ \E n \in Terminals : AltF(n) \/ Evict(n)
  \/ \E pic \in Pictures : Putc(pic) \/ Draw(pic)

Spec == Init /\ [][Next]_vars
-----------------------------------------------------------------------------
ScreenOf(n) == mem.frame[IF n = indicator THEN VIDEO ELSE Home(n)]

(* Whenever a program runs, the page of the displayed terminal is the      *)
(* video memory, that of every other terminal its own memory, and no       *)
(* cached translation says otherwise, although copyFromVideo and           *)
(* copyToVideo change the table without a flush (scheduling.c:174, 186).   *)
Coherent ==
  Running => \A n \in Terminals :
    /\ mem.pt[n] = IF n = indicator THEN VIDEO ELSE Home(n)
    /\ mem.tlb[n] \in {None, mem.pt[n]}

(* Alt-Fn leaves what every started terminal shows as it was and gives a   *)
(* new one a blank screen, provided no translation of the page of the      *)
(* terminal that is left is cached (scheduling.c:63-199).                  *)
ScreensKept ==
  [][\A n \in Terminals : AltF(n) /\ (mem.tlb[indicator] = None \/ n = indicator) =>
       \A k \in Terminals :
         ScreenOf(k)' = IF fts[k] = 1 THEN ScreenOf(k)
                        ELSE IF k = n THEN Blank ELSE ScreenOf(k)]_vars

(* The same without the proviso.                                           *)
IndependentScreens ==
  [][\A n \in Terminals : AltF(n) =>
       \A k \in Terminals : fts[k] = 1 => ScreenOf(k)' = ScreenOf(k)]_vars
=============================================================================
