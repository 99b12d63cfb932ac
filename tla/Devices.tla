------------------------------ MODULE Devices -------------------------------
(***************************************************************************)
(* The devices together: boot (kernel.c, boot.S), the gates (idt.c), the   *)
(* interrupt controllers, the timer, the clock and the keyboard.  An       *)
(* interrupt is taken between two instructions when interrupts are on; the *)
(* handlers run with interrupts off, so each is one step.                  *)
(***************************************************************************)
EXTENDS Pic, Rtc, Keyboard

CONSTANT ClockKeys   \* BOUND: the keys used while a program uses the clock

(* Scan codes are below 128: with 128 added they mean that the key goes up. *)
ASSUME KeysAssumption == Keys \subseteq 1 .. 127 /\ ClockKeys \subseteq Keys

VARIABLES
  pic,
  gates,   \* vectors whose gate is present
  stage,   \* the next call of entry(); "up" when the first shell runs
  load     \* BOUND: what is used, all keys or the clock

vars == <<pic, gates, stage, load, rtcvars, kbdvars>>

BootCalls == <<"idt_init", "i8259_init", "keyboard_init", "rtc_init", "pit_init", "sti",
               "init_screen_memory">>
Stages == {"entry", "up", "stopped"} \cup
          {BootCalls[i] : i \in 1 .. Len(BootCalls)}

TypeOK ==
  /\ pic \in Pics
  /\ gates \subseteq 0 .. 255
  /\ stage \in Stages
  /\ rtc \in [idx : {"A", "C"}, hi : {0, Normal, 12}, rate : 6 .. 15,
              pie : BOOLEAN, c : BOOLEAN]
  /\ read_flag \in {0, 1}
  /\ call \in [at : {"user", "wait", "selA", "getA", "selA2", "putA", "selC", "getC"},
               freq : {0} \cup Freqs, prev : {0, Normal, 12}, rate : {0} \cup 6 .. 15,
               hit : BOOLEAN]
  /\ flags \in [shift : {0, 1}, ctrl : {0, 1}, alt : {0, 1}, caps : {0, 1}]
  /\ held \subseteq Keys
  /\ code \in 0 .. 255

(* What the firmware leaves: interrupts off, requests and masks unknown.   *)
Init ==
  /\ pic \in [mask : {{}, Lines}, irr : {{}, {0, 1, 8}}, isr : {{}}]
  /\ gates = {} /\ stage = "entry" /\ load \in {"keys", "clock"}
  /\ RtcInit /\ KeyboardInit
-----------------------------------------------------------------------------
(* entry(): without the magic number, or with two kinds of symbol table,   *)
(* it returns to the endless loop of boot.S.                               *)
Entry == stage = "entry" /\ stage' \in {"idt_init", "stopped"}
         /\ UNCHANGED <<pic, gates, load, rtcvars, kbdvars>>
Stopped == stage = "stopped" /\ UNCHANGED vars

(* idt_init().                                                             *)
PresentNoRtc == 0 .. 14 \cup 16 .. 19 \cup {33, 128, 32}
Present == 0 .. 14 \cup 16 .. 19 \cup {33, 128, 40, 32}

After(s) ==
  LET i == CHOOSE i \in 1 .. Len(BootCalls) : BootCalls[i] = s
  IN  IF i = Len(BootCalls) THEN "up" ELSE BootCalls[i + 1]
At(s) == stage = s /\ stage' = After(s)

IdtInit == At("idt_init") /\ gates' = Present /\ UNCHANGED <<pic, load, rtcvars, kbdvars>>
PicInit == At("i8259_init") /\ pic' = i8259_init /\ UNCHANGED <<gates, load, rtcvars, kbdvars>>
KbdInit == At("keyboard_init") /\ pic' = enable_irq(pic, 1) /\ flags' = NoFlags
           /\ UNCHANGED <<gates, load, rtcvars, held, code, out>>
ClockInit == At("rtc_init") /\ pic' = enable_irq(pic, 8) /\ rtc' = rtc_init(rtc)
             /\ UNCHANGED <<gates, load, read_flag, call, kbdvars>>
PitInit == At("pit_init") /\ pic' = enable_irq(pic, 0)
           /\ UNCHANGED <<gates, load, rtcvars, kbdvars>>
Sti   == At("sti") /\ UNCHANGED <<pic, gates, load, rtcvars, kbdvars>>
Shell == At("init_screen_memory") /\ UNCHANGED <<pic, gates, load, rtcvars, kbdvars>>
Boot == Entry \/ IdtInit \/ PicInit \/ KbdInit \/ ClockInit \/ PitInit \/ Sti \/ Shell
-----------------------------------------------------------------------------
InterruptsOn == stage \in {"init_screen_memory", "up"}

(* The CPU takes line n through its gate; without one it could not go on.  *)
Taken(n) == InterruptsOn /\ CanDeliver(pic, n) /\ Vector(n) \in gates
            /\ pic' = send_eoi(Acknowledge(pic, n), n)

PitInterrupt == Taken(0) /\ UNCHANGED <<gates, stage, load, rtcvars, kbdvars>>
RtcInterrupt == Taken(8) /\ RtcHandler /\ UNCHANGED <<gates, stage, load, kbdvars>>

(* Ctrl-C, and Alt-Fn on a new terminal, do not return to what they        *)
(* interrupted: another program runs.                                      *)
KbdInterrupt ==
  /\ Taken(1) /\ KeyboardHandler
  /\ \/ out'[1] # "halt" /\ UNCHANGED <<call, stage>>
     \/ out'[1] \in {"halt", "screen"} /\ call' = InUser /\ stage' = "up"
  /\ UNCHANGED <<gates, load, rtc, read_flag>>

(* The devices.  The clock raises its line when C was clear.               *)
PitTick == stage # "stopped" /\ pic' = Request(pic, 0)
           /\ UNCHANGED <<gates, stage, load, rtcvars, kbdvars>>
RtcTick ==
  /\ stage # "stopped"
  /\ rtc.pie /\ rtc.hi = Normal /\ ~rtc.c
  /\ rtc' = [rtc EXCEPT !.c = TRUE] /\ pic' = Request(pic, 8)
  /\ UNCHANGED <<gates, stage, load, read_flag, call, kbdvars>>
UsedKeys == IF load = "keys" THEN Keys ELSE ClockKeys
KeyEvent ==
  /\ stage # "stopped"
  /\ \E z \in UsedKeys : Press(z) \/ Release(z)
  /\ pic' = Request(pic, 1)
  /\ UNCHANGED <<gates, stage, load, rtcvars>>

(* The program that runs.                                                  *)
Call == stage = "up" /\ load = "clock" /\ RtcCall /\ UNCHANGED <<pic, gates, stage, load, kbdvars>>
Proceed == (InWrite \/ ReadEnd) /\ UNCHANGED <<pic, gates, stage, load, kbdvars>>

Next ==
  \/ Boot \/ Stopped
  \/ PitInterrupt \/ RtcInterrupt \/ KbdInterrupt
  \/ PitTick \/ RtcTick \/ KeyEvent
  \/ Call \/ Proceed

Spec == Init /\ [][Next]_vars

(* The CPU goes on; the clock ticks; interrupts come far more slowly than  *)
(* instructions, so every one that waits is taken in the end.              *)
FairSpec ==
  /\ Spec
  /\ WF_vars(Boot) /\ WF_vars(Proceed) /\ WF_vars(RtcTick)
  /\ SF_vars(PitInterrupt) /\ SF_vars(RtcInterrupt) /\ SF_vars(KbdInterrupt)
-----------------------------------------------------------------------------
(* No interrupt comes before its gate is there or on a line without one,   *)
(* whatever the firmware left masked or pending: idt_init, the masks and   *)
(* the vectors of the controllers agree (kernel.c:163-185, idt.c:12-68,    *)
(* i8259.c:19-66).                                                         *)
GateForInterrupt ==
  InterruptsOn => \A n \in Lines : CanDeliver(pic, n) => Vector(n) \in gates

(* A key that goes down or up once the controllers are initialised is      *)
(* handled, also when that is before sti, whatever the other devices do    *)
(* and even when the handler of an earlier key never returned: the end of  *)
(* interrupt is sent before halt (keyboard.c:116, 166).  Nothing is said   *)
(* of a key before that: i8259_init forgets its request, its code stays in *)
(* the keyboard's buffer, and no later key interrupts (kernel.c:163-170,   *)
(* i8259.c:19-50).                                                         *)
Initialised == stage \notin {"entry", "stopped", "idt_init", "i8259_init"}
KeysHandled == (Initialised /\ code # 0 /\ 1 \in pic.irr) ~> code = 0

(* rtc_read returns, as long as no write has stopped the divider           *)
(* (rtc.c:77-84, 137-146).                                                 *)
RtcReadReturns == [](rtc.hi = Normal) => (call.at = "wait" ~> call.at # "wait")

(* rtc_write gives the clock the frequency the program asked for and       *)
(* leaves the divider as it found it, with clock interrupts at every step  *)
(* but two: one between the choice of A and the read or the write that it  *)
(* is for leaves register C chosen, and of these nothing is said           *)
(* (rtc.c:93-128).                                                         *)
RateProgrammed ==
  [][(call.at = "getC" /\ call'.at = "user" /\ ~call.hit) =>
       rtc'.hi = call.prev /\ Hertz(rtc'.rate) = call.freq]_vars

(* When no scan code waits, ctrl_flag and alt_flag say whether the key is  *)
(* held, and shift_flag is not set without its key: no modifier sticks     *)
(* (keyboard.c:119-149).                                                   *)
ModifiersFollowKeys ==
  code = 0 => /\ flags.ctrl = 1 <=> 29 \in held
              /\ flags.alt = 1 <=> 56 \in held
              /\ flags.shift = 1 => 42 \in held

(* A letter key prints a letter, in upper case just when caps lock is on   *)
(* or shift_flag is set, with Ctrl, Alt and repeats in between             *)
(* (keyboard.c:7-84, 135-211).                                             *)
LettersTyped ==
  [][\A z \in CapsKeys : code = z /\ code' = 0 /\ out'[1] = "putc" =>
       LET upper == flags.caps = 1 \/ flags.shift = 1
       IN  \E i \in 1 .. 26 : out'[2] = i + IF upper THEN 64 ELSE 96]_vars
=============================================================================
