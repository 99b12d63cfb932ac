--------------------------- MODULE DevicesProofs ----------------------------
(***************************************************************************)
(* What is proved of the devices, for any keys, any frequencies and any    *)
(* number of keys held at a time.                                          *)
(***************************************************************************)
EXTENDS Devices, TLAPS

Booting == {"entry", "stopped"} \cup {"idt_init", "i8259_init", "keyboard_init",
             "rtc_init", "pit_init", "sti"}

(* The gates are there from idt_init on, requests come only from the three *)
(* devices, and no key is handled before interrupts are on.                *)
BootInv ==
  /\ pic.irr \subseteq {0, 1, 8}
  /\ stage \notin {"entry", "stopped", "idt_init"} => gates = Present
  /\ ~InterruptsOn => flags = NoFlags
  /\ stage # "up" => call.at = "user"

(* The masks when interrupts go on: each line a device uses is open, for   *)
(* enable_irq toggles a bit that i8259_init has set.                       *)
MaskInv ==
  /\ stage = "keyboard_init" => pic.mask = Lines \ {2}
  /\ stage = "rtc_init" => pic.mask = Lines \ {2, 1}
  /\ stage = "pit_init" => pic.mask = Lines \ {2, 1, 8}
  /\ stage \in {"sti", "init_screen_memory", "up"} => pic.mask = Lines \ {2, 1, 8, 0}
  /\ pic.isr = {}

(* The flag of a modifier agrees with its key unless the scan code that    *)
(* will change it waits; then the key is as the code says.                 *)
Follows(flag, z, up) ==
  /\ code \notin {z, up} => (flag = 1 <=> z \in held)
  /\ code = z => z \in held
  /\ code = up => z \notin held
KeyInv ==
  /\ code \in {0} \cup Keys \cup {z + 128 : z \in Keys}
  /\ Follows(flags.ctrl, 29, 157)
  /\ Follows(flags.alt, 56, 184)
  /\ code \notin {42, 170} => (flags.shift = 1 => 42 \in held)
  /\ code = 42 => 42 \in held

(* What rtc_write knows at each of its steps.  The conjuncts about the     *)
(* chip hold while no clock interrupt has come between the choice of       *)
(* register A and the access to it: the handler chooses register C.        *)
Writing == {"selA", "getA", "selA2", "putA", "selC", "getC"}
WriteInv ==
  /\ call.at \in Writing =>
       call.freq \in Freqs /\ RateOf(call.freq) # -1 /\ call.rate = RateOf(call.freq)
  /\ ~call.hit => /\ call.at \in {"getA", "putA"} => rtc.idx = "A"
                  /\ call.at \in {"selA2", "putA", "selC", "getC"} => rtc.hi = call.prev
                  /\ call.at \in {"selC", "getC"} => rtc.rate = call.rate

Inv == TypeOK /\ BootInv /\ MaskInv /\ KeyInv /\ WriteInv
-----------------------------------------------------------------------------
(* Facts about the operators.                                              *)

(* The order in which kernel.c:entry makes its calls.                      *)
LEMMA AfterFacts ==
  /\ After("idt_init") = "i8259_init"
  /\ After("i8259_init") = "keyboard_init"
  /\ After("keyboard_init") = "rtc_init"
  /\ After("rtc_init") = "pit_init"
  /\ After("pit_init") = "sti"
  /\ After("sti") = "init_screen_memory"
  /\ After("init_screen_memory") = "up"
<1>1. Len(BootCalls) = 7
  BY DEF BootCalls
<1>2. /\ BootCalls[1] = "idt_init" /\ BootCalls[2] = "i8259_init"
      /\ BootCalls[3] = "keyboard_init" /\ BootCalls[4] = "rtc_init"
      /\ BootCalls[5] = "pit_init" /\ BootCalls[6] = "sti"
      /\ BootCalls[7] = "init_screen_memory"
  BY DEF BootCalls
<1> DEFINE I(s) == CHOOSE i \in 1 .. Len(BootCalls) : BootCalls[i] = s
<1>3. \A s : (\E i \in 1 .. 7 : BootCalls[i] = s) => I(s) \in 1 .. 7 /\ BootCalls[I(s)] = s
  BY <1>1
<1>4. \A s : After(s) = IF I(s) = 7 THEN "up" ELSE BootCalls[I(s) + 1]
  BY <1>1 DEF After
<1> HIDE DEF I
<1>5. /\ I("idt_init") = 1 /\ I("i8259_init") = 2 /\ I("keyboard_init") = 3
      /\ I("rtc_init") = 4 /\ I("pit_init") = 5 /\ I("sti") = 6
      /\ I("init_screen_memory") = 7
  BY <1>2, <1>3
<1> QED
  BY <1>2, <1>4, <1>5

LEMMA StageSet ==
  Stages = {"entry", "up", "stopped", "idt_init", "i8259_init", "keyboard_init", "rtc_init",
            "pit_init", "sti", "init_screen_memory"}
<1>1. Len(BootCalls) = 7
  BY DEF BootCalls
<1>2. /\ BootCalls[1] = "idt_init" /\ BootCalls[2] = "i8259_init"
      /\ BootCalls[3] = "keyboard_init" /\ BootCalls[4] = "rtc_init"
      /\ BootCalls[5] = "pit_init" /\ BootCalls[6] = "sti"
      /\ BootCalls[7] = "init_screen_memory"
  BY DEF BootCalls
<1>3. \A i \in 1 .. 7 : i \in {1, 2, 3, 4, 5, 6, 7}
  OBVIOUS
<1> QED
  BY <1>1, <1>2, <1>3 DEF Stages

(* A request adds its line and changes nothing else.                       *)
LEMMA RequestFacts ==
  ASSUME NEW p \in Pics, NEW n \in Lines
  PROVE  /\ Request(p, n) \in Pics
         /\ Request(p, n).irr = p.irr \cup {n}
         /\ Request(p, n).mask = p.mask /\ Request(p, n).isr = p.isr
BY DEF Request, Pics

(* A handler that has sent its end of interrupt leaves what was in service *)
(* before, less its own line.                                              *)
LEMMA TakenFacts ==
  ASSUME NEW p \in Pics, NEW n \in Lines
  PROVE  LET q == send_eoi(Acknowledge(p, n), n)
         IN  /\ q \in Pics
             /\ q.irr = p.irr \ {n} /\ q.mask = p.mask
             /\ q.isr \subseteq p.isr
<1> DEFINE S == IF n < 8 THEN {n} ELSE {n, 2}
           a == Acknowledge(p, n)
<1>1. S \subseteq Lines
  BY DEF Lines
<1>2. a \in Pics /\ a.irr = p.irr \ {n} /\ a.mask = p.mask /\ a.isr = p.isr \cup S
  BY <1>1 DEF Acknowledge, Pics
<1>3. send_eoi(a, n) = [a EXCEPT !.isr = a.isr \ S]
  BY <1>2 DEF send_eoi, Pics
<1> HIDE DEF a, S
<1>4. [a EXCEPT !.isr = a.isr \ S] \in Pics
  BY <1>2 DEF Pics
<1> QED
  BY <1>2, <1>3, <1>4 DEF a, Pics

(* enable_irq opens a line that is masked.                                 *)
LEMMA EnableFacts ==
  ASSUME NEW p \in Pics, NEW n \in Lines
  PROVE  /\ enable_irq(p, n) \in Pics
         /\ enable_irq(p, n).irr = p.irr /\ enable_irq(p, n).isr = p.isr
         /\ n \in p.mask => enable_irq(p, n).mask = p.mask \ {n}
BY DEF enable_irq, Toggle, Pics

LEMMA PicInitFacts ==
  /\ i8259_init \in Pics
  /\ i8259_init.irr = {} /\ i8259_init.isr = {} /\ i8259_init.mask = Lines \ {2}
<1> DEFINE p == [mask |-> Lines, irr |-> {}, isr |-> {}]
<1>1. p \in Pics /\ p.irr = {} /\ p.isr = {} /\ p.mask = Lines
  BY DEF Pics
<1>2. 2 \in Lines
  BY DEF Lines
<1>3. i8259_init = enable_irq(p, 2)
  BY DEF i8259_init
<1> HIDE DEF p
<1> QED
  BY <1>1, <1>2, <1>3, EnableFacts

(* The rates of rtc_write's switch, and the frequency the chip makes of    *)
(* each.                                                                   *)
LEMMA RateFacts ==
  ASSUME NEW f, RateOf(f) # -1
  PROVE  RateOf(f) \in 6 .. 15 /\ Hertz(RateOf(f)) = f
<1>1. /\ Hertz(6) = 1024 /\ Hertz(7) = 512 /\ Hertz(8) = 256 /\ Hertz(9) = 128
      /\ Hertz(10) = 64 /\ Hertz(11) = 32 /\ Hertz(12) = 16 /\ Hertz(13) = 8
      /\ Hertz(14) = 4 /\ Hertz(15) = 2
  BY DEF Hertz
<1> QED
  BY <1>1 DEF RateOf

(* The letters in the two tables of keyboard.c.                            *)
LEMMA LetterTables ==
  \A z \in CapsKeys : array_of_char(z) \in 97 .. 122 /\ shift_char(z) \in 65 .. 90
<1>1. ASSUME NEW z \in 16 .. 25
      PROVE  array_of_char(z) \in 97 .. 122 /\ shift_char(z) \in 65 .. 90
  BY DEF array_of_char, shift_char, Look, Plain, Shifted
<1>2. ASSUME NEW z \in 30 .. 38
      PROVE  array_of_char(z) \in 97 .. 122 /\ shift_char(z) \in 65 .. 90
  BY DEF array_of_char, shift_char, Look, Plain, Shifted
<1>3. ASSUME NEW z \in 44 .. 50
      PROVE  array_of_char(z) \in 97 .. 122 /\ shift_char(z) \in 65 .. 90
  BY DEF array_of_char, shift_char, Look, Plain, Shifted
<1> QED
  BY <1>1, <1>2, <1>3 DEF CapsKeys

FlagSet == [shift : {0, 1}, ctrl : {0, 1}, alt : {0, 1}, caps : {0, 1}]

(* What the code of a key that goes up, or down, does to the flags.        *)
LEMMA UpFacts ==
  ASSUME NEW f \in FlagSet, NEW z \in Int
  PROVE  /\ AfterUp(f, z) \in FlagSet
         /\ AfterUp(f, z).ctrl = IF z = 29 THEN 0 ELSE f.ctrl
         /\ AfterUp(f, z).alt = IF z = 56 THEN 0 ELSE f.alt
         /\ AfterUp(f, z).shift = IF z \in {42, 54} THEN 0 ELSE f.shift
BY DEF AfterUp, FlagSet

LEMMA DownFacts ==
  ASSUME NEW f \in FlagSet, NEW z \in Int
  PROVE  /\ AfterDown(f, z) \in FlagSet
         /\ AfterDown(f, z).ctrl = IF z = 29 THEN 1 ELSE f.ctrl
         /\ AfterDown(f, z).alt = IF z = 56 THEN 1 ELSE f.alt
         /\ AfterDown(f, z).shift = IF z = 42 THEN 1 ELSE f.shift
<1>1. 29 \in Handled /\ 56 \in Handled /\ 42 \in Handled /\ 54 \notin Handled
  BY DEF Handled
<1>2. CASE z \notin Handled
  BY <1>1, <1>2 DEF AfterDown, FlagSet
<1>3. CASE z \in Handled
  <2> DEFINE sh == IF z \in {42, 54} THEN 1 ELSE f.shift
             ct == IF z = 29 THEN 1 ELSE f.ctrl
             al == IF z = 56 THEN 1 ELSE f.alt
             ca == IF z = 58 THEN 1 - f.caps ELSE f.caps
  <2>1. AfterDown(f, z) = [f EXCEPT !.shift = sh, !.ctrl = ct, !.alt = al, !.caps = ca]
    BY <1>3 DEF AfterDown, FlagSet
  <2>2. f.shift \in {0, 1} /\ f.ctrl \in {0, 1} /\ f.alt \in {0, 1} /\ f.caps \in {0, 1}
    BY DEF FlagSet
  <2>3. sh \in {0, 1} /\ ct \in {0, 1} /\ al \in {0, 1} /\ ca \in {0, 1}
    BY <2>2
  <2>4. sh = IF z = 42 THEN 1 ELSE f.shift
    BY <1>1, <1>3
  <2> HIDE DEF sh, ca
  <2>5. /\ AfterDown(f, z) \in FlagSet
        /\ AfterDown(f, z).ctrl = ct /\ AfterDown(f, z).alt = al /\ AfterDown(f, z).shift = sh
    BY <2>1, <2>3 DEF FlagSet
  <2> QED
    BY <2>4, <2>5
<1> QED
  BY <1>2, <1>3

RtcSet == [idx : {"A", "C"}, hi : {0, Normal, 12}, rate : 6 .. 15, pie : BOOLEAN, c : BOOLEAN]
CallSet == [at : {"user", "wait", "selA", "getA", "selA2", "putA", "selC", "getC"},
            freq : {0} \cup Freqs, prev : {0, Normal, 12}, rate : {0} \cup 6 .. 15,
            hit : BOOLEAN]

(* The parts of the type invariant by name.                                *)
LEMMA TypeParts ==
  TypeOK <=> /\ pic \in Pics /\ gates \subseteq 0 .. 255 /\ stage \in Stages
             /\ rtc \in RtcSet /\ read_flag \in {0, 1} /\ call \in CallSet
             /\ flags \in FlagSet /\ held \subseteq Keys /\ code \in 0 .. 255
BY DEF TypeOK, RtcSet, CallSet, FlagSet

LEMMA InUserFacts ==
  InUser \in CallSet /\ InUser.at = "user" /\ InUser.hit = FALSE
BY DEF InUser, CallSet, Normal

LEMMA NoFlagsFacts ==
  NoFlags \in FlagSet /\ NoFlags.ctrl = 0 /\ NoFlags.alt = 0 /\ NoFlags.shift = 0
BY DEF NoFlags, FlagSet
-----------------------------------------------------------------------------
LEMMA InvInit == Init => Inv
<1> SUFFICES ASSUME Init PROVE Inv
  OBVIOUS
<1>1. TypeOK
  <2>1. pic \in Pics
    BY DEF Init, Pics, Lines
  <2>2. rtc \in RtcSet
    <3>1. PICK c \in BOOLEAN :
            rtc = [idx |-> "C", hi |-> Normal, rate |-> 6, pie |-> FALSE, c |-> c]
      BY DEF Init, RtcInit
    <3> QED
      BY <3>1 DEF RtcSet
  <2> QED
    BY <2>1, <2>2, TypeParts, InUserFacts, NoFlagsFacts, StageSet
    DEF Init, RtcInit, KeyboardInit
<1>2. BootInv
  BY InUserFacts DEF Init, RtcInit, KeyboardInit, BootInv, InterruptsOn
<1>3. MaskInv
  BY DEF Init, MaskInv
<1>4. KeyInv
  BY NoFlagsFacts DEF Init, KeyboardInit, KeyInv, Follows
<1>5. WriteInv
  BY InUserFacts DEF Init, RtcInit, WriteInv, Writing
<1> QED
  BY <1>1, <1>2, <1>3, <1>4, <1>5 DEF Inv

(* Steps of the boot.                                                      *)
LEMMA BootStep ==
  ASSUME Inv, Boot
  PROVE  Inv'
<1> USE DEF Inv, At
<1>1. CASE Entry
  <2>1. TypeOK'
    BY <1>1, TypeParts, StageSet DEF Entry, rtcvars, kbdvars, TypeOK
  <2> QED
    BY <1>1, <2>1 DEF Entry, rtcvars, kbdvars, BootInv, MaskInv, KeyInv, Follows, WriteInv,
      InterruptsOn
<1>2. CASE IdtInit
  <2>1. TypeOK'
    BY <1>2, AfterFacts, StageSet DEF IdtInit, Present, rtcvars, kbdvars, TypeOK
  <2> QED
    BY <1>2, <2>1, AfterFacts DEF IdtInit, rtcvars, kbdvars, BootInv, MaskInv, KeyInv, Follows,
      WriteInv, InterruptsOn
<1>3. CASE PicInit
  <2>1. TypeOK'
    BY <1>3, AfterFacts, StageSet, PicInitFacts DEF PicInit, rtcvars, kbdvars, TypeOK
  <2> QED
    BY <1>3, <2>1, AfterFacts, PicInitFacts DEF PicInit, rtcvars, kbdvars, BootInv, MaskInv,
      KeyInv, Follows, WriteInv, InterruptsOn
<1>4. CASE KbdInit
  <2>1. pic \in Pics /\ 1 \in Lines /\ 1 \in pic.mask /\ 1 # 2
    BY <1>4 DEF KbdInit, TypeOK, MaskInv, Lines
  <2>2. /\ pic' \in Pics /\ pic'.irr = pic.irr /\ pic'.isr = pic.isr
        /\ pic'.mask = pic.mask \ {1}
    BY <1>4, <2>1, EnableFacts DEF KbdInit
  <2>3. TypeOK'
    BY <1>4, <2>2, AfterFacts, StageSet, NoFlagsFacts DEF KbdInit, rtcvars, TypeOK, FlagSet
  <2>4. BootInv' /\ KeyInv'
    BY <1>4, <2>2, AfterFacts, NoFlagsFacts
    DEF KbdInit, rtcvars, BootInv, KeyInv, Follows, InterruptsOn
  <2>5. MaskInv' /\ WriteInv'
    BY <1>4, <2>2, AfterFacts DEF KbdInit, rtcvars, MaskInv, WriteInv
  <2> QED
    BY <2>3, <2>4, <2>5
<1>5. CASE ClockInit
  <2>1. pic \in Pics /\ 8 \in Lines /\ 8 \in pic.mask
    BY <1>5 DEF ClockInit, TypeOK, MaskInv, Lines
  <2>2. /\ pic' \in Pics /\ pic'.irr = pic.irr /\ pic'.isr = pic.isr
        /\ pic'.mask = pic.mask \ {8}
    BY <1>5, <2>1, EnableFacts DEF ClockInit
  <2>3. rtc' \in RtcSet
    BY <1>5, TypeParts DEF ClockInit, rtc_init, RtcSet
  <2>4. TypeOK'
    BY <1>5, <2>2, <2>3, AfterFacts, StageSet DEF ClockInit, kbdvars, TypeOK, RtcSet
  <2>5. BootInv' /\ KeyInv'
    BY <1>5, <2>2, AfterFacts DEF ClockInit, kbdvars, BootInv, KeyInv, Follows, InterruptsOn
  <2>6. MaskInv'
    BY <1>5, <2>2, AfterFacts DEF ClockInit, MaskInv
  <2>7. WriteInv'
    BY <1>5 DEF ClockInit, BootInv, WriteInv, Writing
  <2> QED
    BY <2>4, <2>5, <2>6, <2>7
<1>6. CASE PitInit
  <2>1. pic \in Pics /\ 0 \in Lines /\ 0 \in pic.mask
    BY <1>6 DEF PitInit, TypeOK, MaskInv, Lines
  <2>2. /\ pic' \in Pics /\ pic'.irr = pic.irr /\ pic'.isr = pic.isr
        /\ pic'.mask = pic.mask \ {0}
    BY <1>6, <2>1, EnableFacts DEF PitInit
  <2>3. TypeOK'
    BY <1>6, <2>2, AfterFacts, StageSet DEF PitInit, rtcvars, kbdvars, TypeOK
  <2>4. BootInv' /\ KeyInv'
    BY <1>6, <2>2, AfterFacts
    DEF PitInit, rtcvars, kbdvars, BootInv, KeyInv, Follows, InterruptsOn
  <2>5. MaskInv' /\ WriteInv'
    BY <1>6, <2>2, AfterFacts DEF PitInit, rtcvars, MaskInv, WriteInv
  <2> QED
    BY <2>3, <2>4, <2>5
<1>7. CASE Sti
  <2>1. TypeOK'
    BY <1>7, AfterFacts, StageSet DEF Sti, rtcvars, kbdvars, TypeOK
  <2> QED
    BY <1>7, <2>1, AfterFacts DEF Sti, rtcvars, kbdvars, BootInv, MaskInv, KeyInv, Follows,
      WriteInv, InterruptsOn
<1>8. CASE Shell
  <2>1. TypeOK'
    BY <1>8, AfterFacts, StageSet DEF Shell, rtcvars, kbdvars, TypeOK
  <2> QED
    BY <1>8, <2>1, AfterFacts DEF Shell, rtcvars, kbdvars, BootInv, MaskInv, KeyInv, Follows,
      WriteInv, InterruptsOn
<1> QED
  BY <1>1, <1>2, <1>3, <1>4, <1>5, <1>6, <1>7, <1>8 DEF Boot

(* A step of the program or the devices that leaves the boot alone.        *)
LEMMA TakenStep ==
  ASSUME Inv, NEW n \in {0, 1, 8}, Taken(n)
  PROVE  /\ pic' \in Pics
         /\ pic'.irr \subseteq {0, 1, 8} /\ pic'.mask = pic.mask /\ pic'.isr = {}
<1>1. n \in Lines /\ pic \in Pics
  BY DEF Inv, TypeOK, Lines
<1> QED
  BY <1>1, TakenFacts DEF Taken, Inv, BootInv, MaskInv

LEMMA RequestStep ==
  ASSUME Inv, NEW n \in {0, 1, 8}, pic' = Request(pic, n)
  PROVE  /\ pic' \in Pics
         /\ pic'.irr \subseteq {0, 1, 8} /\ pic'.mask = pic.mask /\ pic'.isr = {}
<1>1. n \in Lines /\ pic \in Pics
  BY DEF Inv, TypeOK, Lines
<1> QED
  BY <1>1, RequestFacts DEF Inv, BootInv, MaskInv

(* The timer and the clock: their interrupts and their ticks.              *)
LEMMA ClockStep ==
  ASSUME Inv, PitInterrupt \/ RtcInterrupt \/ PitTick \/ RtcTick
  PROVE  Inv'
<1>1. /\ pic' \in Pics
      /\ pic'.irr \subseteq {0, 1, 8} /\ pic'.mask = pic.mask /\ pic'.isr = {}
  BY TakenStep, RequestStep DEF PitInterrupt, RtcInterrupt, PitTick, RtcTick
<1>2. UNCHANGED <<gates, stage, kbdvars>>
  BY DEF PitInterrupt, RtcInterrupt, PitTick, RtcTick
<1>3. /\ rtc' \in RtcSet /\ read_flag' \in {0, 1} /\ call' \in CallSet
      /\ call'.at = call.at /\ call'.freq = call.freq /\ call'.rate = call.rate
      /\ call'.prev = call.prev /\ rtc'.hi = rtc.hi /\ rtc'.rate = rtc.rate
      /\ ~call'.hit => /\ ~call.hit
                       /\ call.at \in {"getA", "putA"} => rtc'.idx = rtc.idx
  <2>1. rtc \in RtcSet /\ read_flag \in {0, 1} /\ call \in CallSet
    BY TypeParts DEF Inv
  <2>2. CASE UNCHANGED rtcvars
    BY <2>1, <2>2 DEF rtcvars
  <2>3. CASE RtcHandler
    <3>1. rtc' \in RtcSet /\ rtc'.hi = rtc.hi /\ rtc'.rate = rtc.rate
      BY <2>1, <2>3 DEF RtcHandler, HandlerReads, RtcSet
    <3> DEFINE h == call.hit \/ call.at \in {"getA", "putA"}
    <3>2. call' = [call EXCEPT !.hit = h] /\ h \in BOOLEAN
      BY <2>1, <2>3 DEF RtcHandler, CallSet
    <3> HIDE DEF h
    <3>3. /\ call' \in CallSet /\ call'.at = call.at /\ call'.freq = call.freq
          /\ call'.rate = call.rate /\ call'.prev = call.prev /\ call'.hit = h
      BY <2>1, <3>2 DEF CallSet
    <3> QED
      BY <2>3, <3>1, <3>3 DEF RtcHandler, h
  <2>4. CASE RtcTick
    <3>1. /\ rtc' \in RtcSet
          /\ rtc'.idx = rtc.idx /\ rtc'.hi = rtc.hi /\ rtc'.rate = rtc.rate
      BY <2>1, <2>4 DEF RtcTick, RtcSet
    <3> QED
      BY <2>1, <2>4, <3>1 DEF RtcTick
  <2> QED
    BY <2>2, <2>3, <2>4 DEF PitInterrupt, RtcInterrupt, PitTick
<1>4. TypeOK'
  BY <1>1, <1>2, <1>3 DEF Inv, TypeOK, kbdvars, RtcSet, CallSet
<1>5. BootInv' /\ MaskInv'
  BY <1>1, <1>2, <1>3 DEF Inv, BootInv, MaskInv, kbdvars, InterruptsOn
<1>6. KeyInv'
  BY <1>2 DEF Inv, KeyInv, Follows, kbdvars
<1>7. WriteInv'
  <2>1. call'.at \in Writing =>
          call'.freq \in Freqs /\ RateOf(call'.freq) # -1 /\ call'.rate = RateOf(call'.freq)
    BY <1>3 DEF Inv, WriteInv
  <2>2. ASSUME ~call'.hit
        PROVE  /\ call'.at \in {"getA", "putA"} => rtc'.idx = "A"
               /\ call'.at \in {"selA2", "putA", "selC", "getC"} => rtc'.hi = call'.prev
               /\ call'.at \in {"selC", "getC"} => rtc'.rate = call'.rate
    <3>1. ~call.hit /\ (call.at \in {"getA", "putA"} => rtc'.idx = rtc.idx)
      BY <1>3, <2>2
    <3>2. /\ call.at \in {"getA", "putA"} => rtc.idx = "A"
          /\ call.at \in {"selA2", "putA", "selC", "getC"} => rtc.hi = call.prev
          /\ call.at \in {"selC", "getC"} => rtc.rate = call.rate
      BY <3>1 DEF Inv, WriteInv
    <3> QED
      BY <1>3, <3>1, <3>2
  <2> QED
    BY <2>1, <2>2 DEF WriteInv
<1> QED
  BY <1>4, <1>5, <1>6, <1>7 DEF Inv

(* A scan code is put into the buffer, or handled.                         *)
LEMMA KeyEventStep ==
  ASSUME Inv, KeyEvent
  PROVE  Inv'
<1>1. /\ pic' \in Pics
      /\ pic'.irr \subseteq {0, 1, 8} /\ pic'.mask = pic.mask /\ pic'.isr = {}
  BY RequestStep DEF KeyEvent
<1>2. PICK z \in Keys : Press(z) \/ Release(z)
  BY KeysAssumption DEF KeyEvent, UsedKeys
<1>3. z \in 1 .. 127 /\ code = 0
  BY <1>2, KeysAssumption DEF Press, Release
<1>4. UNCHANGED <<gates, stage, rtc, read_flag, call, flags>>
  BY <1>2 DEF KeyEvent, rtcvars, Press, Release
<1>5. TypeOK'
  <2>1. held' \subseteq Keys /\ code' \in 0 .. 255
    <3>1. held \subseteq Keys
      BY TypeParts DEF Inv
    <3>2. z + 128 \in 0 .. 255 /\ z \in 0 .. 255
      BY <1>3
    <3> QED
      BY <1>2, <3>1, <3>2 DEF Press, Release
  <2> QED
    BY <1>1, <1>4, <2>1 DEF Inv, TypeOK
<1>6. BootInv' /\ MaskInv'
  BY <1>1, <1>4 DEF Inv, BootInv, MaskInv, InterruptsOn
<1>7. KeyInv'
  <2>1. CASE Press(z)
    <3>1. code' = z /\ held' = held \cup {z}
      BY <2>1 DEF Press
    <3> QED
      BY <1>3, <1>4, <3>1 DEF Inv, KeyInv, Follows
  <2>2. CASE Release(z)
    <3>1. code' = z + 128 /\ held' = held \ {z}
      BY <2>2 DEF Release
    <3> QED
      BY <1>3, <1>4, <3>1 DEF Inv, KeyInv, Follows
  <2> QED
    BY <1>2, <2>1, <2>2
<1>8. WriteInv'
  BY <1>4 DEF Inv, WriteInv
<1> QED
  BY <1>5, <1>6, <1>7, <1>8 DEF Inv

LEMMA KbdInterruptStep ==
  ASSUME Inv, KbdInterrupt
  PROVE  Inv'
<1>1. /\ pic' \in Pics
      /\ pic'.irr \subseteq {0, 1, 8} /\ pic'.mask = pic.mask /\ pic'.isr = {}
  BY TakenStep DEF KbdInterrupt
<1>2. /\ InterruptsOn /\ stage \in Stages /\ stage' \in {stage, "up"}
      /\ UNCHANGED <<gates, rtc, read_flag, held>> /\ code' = 0
  BY DEF KbdInterrupt, Taken, KeyboardHandler, Inv, TypeOK
<1>3. (call' = call /\ stage' = stage) \/ (call' = InUser /\ stage' = "up")
  BY DEF KbdInterrupt
<1>4. flags \in FlagSet /\ code \in 0 .. 255
  BY TypeParts DEF Inv
<1>5. /\ flags' \in FlagSet
      /\ flags'.ctrl = IF code = 157 THEN 0 ELSE IF code = 29 THEN 1 ELSE flags.ctrl
      /\ flags'.alt = IF code = 184 THEN 0 ELSE IF code = 56 THEN 1 ELSE flags.alt
      /\ flags'.shift = IF code \in {170, 182} THEN 0 ELSE IF code = 42 THEN 1 ELSE flags.shift
  <2>1. CASE code >= 128
    <3>1. flags' = AfterUp(flags, code - 128) /\ code - 128 \in Int
      BY <1>4, <2>1 DEF KbdInterrupt, KeyboardHandler
    <3> QED
      BY <1>4, <2>1, <3>1, UpFacts
  <2>2. CASE ~(code >= 128)
    <3>1. flags' = AfterDown(flags, code) /\ code \in Int
      BY <1>4, <2>2 DEF KbdInterrupt, KeyboardHandler
    <3> QED
      BY <1>4, <2>2, <3>1, DownFacts
  <2> QED
    BY <2>1, <2>2
<1>6. TypeOK'
  BY <1>1, <1>2, <1>3, <1>5, InUserFacts, StageSet DEF Inv, TypeOK, FlagSet, CallSet
<1>7. BootInv' /\ MaskInv'
  BY <1>1, <1>2, <1>3, InUserFacts DEF Inv, BootInv, MaskInv, InterruptsOn
<1>8. KeyInv'
  BY <1>2, <1>4, <1>5 DEF Inv, KeyInv, Follows
<1>9. WriteInv'
  BY <1>2, <1>3, InUserFacts DEF Inv, WriteInv, Writing
<1> QED
  BY <1>6, <1>7, <1>8, <1>9 DEF Inv

(* The system calls of the clock, one access to a port at a time.          *)
LEMMA CallStep ==
  ASSUME Inv, Call \/ Proceed
  PROVE  Inv'
<1>1. UNCHANGED <<pic, gates, stage, kbdvars>>
  BY DEF Call, Proceed
<1>2. stage = "up"
  BY DEF Call, Proceed, InWrite, ReadEnd, SelectA, GetA, SelectA2, PutA, SelectC, GetC, Goto,
    Inv, BootInv
<1>3. rtc \in RtcSet /\ read_flag \in {0, 1} /\ call \in CallSet
  BY TypeParts DEF Inv
<1>4. ReadBegin \/ ReadEnd \/ (\E f \in Freqs : WriteRefused(f) \/ WriteBegin(f)) \/ InWrite
  BY DEF Call, Proceed, RtcCall
<1> DEFINE Good == rtc' \in RtcSet /\ read_flag' \in {0, 1} /\ call' \in CallSet /\ WriteInv'
<1>5. Good
  <2> USE <1>3 DEF Inv
  <2>1. CASE ReadBegin
    <3>1. call' \in CallSet /\ call'.at = "wait"
      BY <2>1 DEF ReadBegin, CallSet
    <3> QED
      BY <2>1, <3>1 DEF ReadBegin, WriteInv, Writing
  <2>2. CASE ReadEnd
    BY <2>2, InUserFacts DEF ReadEnd, WriteInv, Writing
  <2>3. ASSUME NEW f \in Freqs, WriteRefused(f) PROVE Good
    BY <2>3 DEF WriteRefused, rtcvars, WriteInv
  <2>4. ASSUME NEW f \in Freqs, WriteBegin(f) PROVE Good
    <3>1. RateOf(f) # -1 /\ RateOf(f) \in 6 .. 15
      BY <2>4, RateFacts DEF WriteBegin
    <3>2. call' = [at |-> "selA", freq |-> f, prev |-> 0, rate |-> RateOf(f), hit |-> FALSE]
      BY <2>4 DEF WriteBegin
    <3>3. /\ call' \in CallSet /\ call'.at = "selA" /\ call'.rate = RateOf(f)
          /\ call'.freq = f
      BY <3>1, <3>2 DEF CallSet
    <3> QED
      BY <2>4, <3>1, <3>3 DEF WriteBegin, WriteInv
  <2>5. CASE SelectA
    <3>1. call.at = "selA" /\ rtc' = [rtc EXCEPT !.idx = "A"] /\ read_flag' = read_flag
          /\ call' = [call EXCEPT !.at = "getA"]
      BY <2>5 DEF SelectA, Goto, Select
    <3>2. /\ call' \in CallSet /\ call'.at = "getA" /\ call'.rate = call.rate
          /\ call'.freq = call.freq
      BY <3>1 DEF CallSet
    <3>3. rtc' \in RtcSet /\ rtc'.idx = "A"
      BY <3>1 DEF RtcSet
    <3> QED
      BY <3>1, <3>2, <3>3 DEF WriteInv, Writing
  <2>6. CASE GetA
    <3>1. /\ call.at = "getA" /\ rtc' = AfterIn /\ read_flag' = read_flag
          /\ call' = [call EXCEPT !.at = "selA2", !.prev = UpperHalf]
      BY <2>6 DEF GetA
    <3>2. UpperHalf \in {0, Normal, 12} /\ (rtc.idx = "A" => UpperHalf = rtc.hi)
      BY DEF UpperHalf, RtcSet
    <3>3. /\ call' \in CallSet /\ call'.at = "selA2" /\ call'.rate = call.rate
          /\ call'.freq = call.freq
          /\ call'.prev = UpperHalf /\ call'.hit = call.hit
      BY <3>1, <3>2 DEF CallSet
    <3>4. rtc' \in RtcSet /\ rtc'.hi = rtc.hi
      BY <3>1 DEF RtcSet, AfterIn
    <3> QED
      BY <3>1, <3>2, <3>3, <3>4 DEF WriteInv, Writing
  <2>7. CASE SelectA2
    <3>1. /\ call.at = "selA2" /\ rtc' = [rtc EXCEPT !.idx = "A"] /\ read_flag' = read_flag
          /\ call' = [call EXCEPT !.at = "putA"]
      BY <2>7 DEF SelectA2, Goto, Select
    <3>2. /\ call' \in CallSet /\ call'.at = "putA" /\ call'.rate = call.rate
          /\ call'.freq = call.freq
          /\ call'.prev = call.prev /\ call'.hit = call.hit
      BY <3>1 DEF CallSet
    <3>3. rtc' \in RtcSet /\ rtc'.idx = "A" /\ rtc'.hi = rtc.hi
      BY <3>1 DEF RtcSet
    <3> QED
      BY <3>1, <3>2, <3>3 DEF WriteInv, Writing
  <2>8. CASE PutA
    <3>1. /\ call.at = "putA" /\ rtc' = AfterOut(call.prev, call.rate)
          /\ read_flag' = read_flag /\ call' = [call EXCEPT !.at = "selC"]
      BY <2>8 DEF PutA, Goto
    <3>2. /\ call' \in CallSet /\ call'.at = "selC" /\ call'.rate = call.rate
          /\ call'.freq = call.freq
          /\ call'.prev = call.prev /\ call'.hit = call.hit
      BY <3>1 DEF CallSet
    <3>3. call.rate \in 6 .. 15
      <4>1. RateOf(call.freq) # -1 /\ call.rate = RateOf(call.freq)
        BY <3>1 DEF WriteInv, Writing
      <4> QED
        BY <4>1, RateFacts
    <3>4. call.prev \in {0, Normal, 12}
      BY DEF CallSet
    <3>5. /\ rtc' \in RtcSet
          /\ rtc.idx = "A" => rtc'.hi = call.prev /\ rtc'.rate = call.rate
      BY <3>1, <3>3, <3>4 DEF RtcSet, AfterOut
    <3> QED
      BY <3>1, <3>2, <3>5 DEF WriteInv, Writing
  <2>9. CASE SelectC
    <3>1. /\ call.at = "selC" /\ rtc' = [rtc EXCEPT !.idx = "C"] /\ read_flag' = read_flag
          /\ call' = [call EXCEPT !.at = "getC"]
      BY <2>9 DEF SelectC, Goto, Select
    <3>2. /\ call' \in CallSet /\ call'.at = "getC" /\ call'.rate = call.rate
          /\ call'.freq = call.freq
          /\ call'.prev = call.prev /\ call'.hit = call.hit
      BY <3>1 DEF CallSet
    <3>3. rtc' \in RtcSet /\ rtc'.hi = rtc.hi /\ rtc'.rate = rtc.rate
      BY <3>1 DEF RtcSet
    <3> QED
      BY <3>1, <3>2, <3>3 DEF WriteInv, Writing
  <2>10. CASE GetC
    <3>1. rtc' \in RtcSet
      BY <2>10 DEF GetC, AfterIn, RtcSet
    <3> QED
      BY <2>10, <3>1, InUserFacts DEF GetC, WriteInv, Writing
  <2> QED
    BY <1>4, <2>1, <2>2, <2>3, <2>4, <2>5, <2>6, <2>7, <2>8, <2>9, <2>10 DEF InWrite
<1> HIDE DEF Good
<1>6. TypeOK'
  BY <1>1, <1>5 DEF Good, Inv, TypeOK, kbdvars, RtcSet, CallSet
<1>7. BootInv' /\ MaskInv' /\ KeyInv'
  BY <1>1, <1>2 DEF Inv, BootInv, MaskInv, KeyInv, Follows, kbdvars, InterruptsOn
<1> QED
  BY <1>5, <1>6, <1>7 DEF Good, Inv

LEMMA InvNext == Inv /\ [Next]_vars => Inv'
<1> SUFFICES ASSUME Inv, [Next]_vars PROVE Inv'
  OBVIOUS
<1>1. CASE UNCHANGED vars
  BY <1>1 DEF vars, rtcvars, kbdvars, Inv, TypeOK, BootInv, MaskInv, KeyInv, Follows, WriteInv,
    InterruptsOn
<1>2. CASE Stopped
  BY <1>1, <1>2 DEF Stopped
<1> QED
  BY <1>1, <1>2, BootStep, ClockStep, KeyEventStep, KbdInterruptStep, CallStep DEF Next

LEMMA InvAlways == Spec => []Inv
<1>1. Spec => Init /\ [][Next]_vars
  BY DEF Spec
<1> QED
  BY <1>1, InvInit, InvNext, PTL
-----------------------------------------------------------------------------
(* The devices keep their types: no register, flag or scan code leaves its *)
(* range (rtc.c, keyboard.c, i8259.c).                                     *)
THEOREM DeviceTypes == Spec => []TypeOK
<1>1. Inv => TypeOK
  BY DEF Inv
<1> QED
  BY <1>1, InvAlways, PTL

(* An interrupt that can be delivered has its gate (idt.c:12-68,           *)
(* i8259.c:19-66, kernel.c:163-185).                                       *)
THEOREM GatesPresent == Spec => []GateForInterrupt
<1>1. Inv => GateForInterrupt
  <2> SUFFICES ASSUME Inv, InterruptsOn, NEW n \in Lines, CanDeliver(pic, n)
               PROVE  Vector(n) \in gates
    BY DEF GateForInterrupt
  <2>1. n \in {0, 1, 8}
    BY DEF CanDeliver, Inv, BootInv
  <2>2. Vector(n) \in {32, 33, 40}
    BY <2>1 DEF Vector
  <2>3. gates = Present
    BY DEF Inv, BootInv, InterruptsOn
  <2> QED
    BY <2>2, <2>3 DEF Present
<1> QED
  BY <1>1, InvAlways, PTL

(* Once interrupts are on, the lines of the timer, the keyboard, the slave *)
(* and the clock are open and no other; and between two handlers nothing   *)
(* is in service, so no line stays blocked behind a handler that did not   *)
(* return (i8259.c:19-93, keyboard.c:116, 166).                            *)
LinesOpen == InterruptsOn => pic.mask = Lines \ {0, 1, 2, 8} /\ pic.isr = {}

THEOREM LinesAreOpen == Spec => []LinesOpen
<1>1. Inv => LinesOpen
  BY DEF Inv, MaskInv, LinesOpen, InterruptsOn
<1> QED
  BY <1>1, InvAlways, PTL

(* No modifier sticks: the flags agree with the keys whenever every scan   *)
(* code has been handled (keyboard.c:119-149).                             *)
THEOREM ModifiersRight == Spec => []ModifiersFollowKeys
<1>1. Inv => ModifiersFollowKeys
  BY DEF Inv, KeyInv, Follows, ModifiersFollowKeys
<1> QED
  BY <1>1, InvAlways, PTL

(* rtc_write programs the frequency it was asked for and leaves the        *)
(* divider alone, wherever clock interrupts come, except between the       *)
(* choice of register A and the access to it (rtc.c:93-128).               *)
THEOREM WriteProgramsRate == Spec => RateProgrammed
<1> DEFINE Done == (call.at = "getC" /\ call'.at = "user" /\ ~call.hit) =>
              rtc'.hi = call.prev /\ Hertz(rtc'.rate) = call.freq
<1>1. Inv /\ [Next]_vars => [Done]_vars
  <2> SUFFICES ASSUME Inv, Next, call.at = "getC", call'.at = "user", ~call.hit
               PROVE  rtc'.hi = call.prev /\ Hertz(rtc'.rate) = call.freq
    BY DEF vars
  <2>1. rtc.hi = call.prev /\ rtc.rate = call.rate
    BY DEF Inv, WriteInv
  <2>2. RateOf(call.freq) # -1 /\ call.rate = RateOf(call.freq)
    BY DEF Inv, WriteInv, Writing
  <2>3. Hertz(call.rate) = call.freq
    BY <2>2, RateFacts
  <2>4. stage = "up" /\ rtc \in RtcSet
    BY TypeParts DEF Inv, BootInv
  <2>5. rtc'.hi = rtc.hi /\ rtc'.rate = rtc.rate
    <3>1. CASE RtcInterrupt
      BY <2>4, <3>1 DEF RtcInterrupt, RtcHandler, HandlerReads, RtcSet
    <3>2. CASE RtcTick
      BY <2>4, <3>2 DEF RtcTick, RtcSet
    <3>3. CASE Proceed
      BY <2>4, <3>3 DEF Proceed, ReadEnd, InWrite, SelectA, GetA, SelectA2, PutA, SelectC, GetC,
        Goto, AfterIn, RtcSet
    <3>4. CASE UNCHANGED rtc
      BY <3>4
    <3>5. CASE Call
      BY <3>5 DEF Call, RtcCall, ReadBegin, WriteRefused, WriteBegin
    <3>6. ~Boot
      BY <2>4 DEF Boot, Entry, At, IdtInit, PicInit, KbdInit, ClockInit, PitInit, Sti, Shell
    <3> QED
      BY <3>1, <3>2, <3>3, <3>4, <3>5, <3>6
      DEF Next, Stopped, PitInterrupt, KbdInterrupt, PitTick, KeyEvent, vars, rtcvars
  <2> QED
    BY <2>1, <2>3, <2>5
<1>2. Spec => [][Next]_vars
  BY DEF Spec
<1> QED
  BY <1>1, <1>2, InvAlways, PTL DEF RateProgrammed

(* A letter key prints a letter, in the case that caps lock and shift ask  *)
(* for (keyboard.c:7-84, 135-211).                                         *)
THEOREM LettersRight == Spec => LettersTyped
<1> DEFINE Typed == \A z \in CapsKeys : code = z /\ code' = 0 /\ out'[1] = "putc" =>
              LET upper == flags.caps = 1 \/ flags.shift = 1
              IN  \E i \in 1 .. 26 : out'[2] = i + IF upper THEN 64 ELSE 96
<1>1. Inv /\ [Next]_vars => [Typed]_vars
  <2> SUFFICES ASSUME Inv, Next, NEW z \in CapsKeys, code = z, code' = 0, out'[1] = "putc"
               PROVE  \E i \in 1 .. 26 :
                        out'[2] = i + IF flags.caps = 1 \/ flags.shift = 1 THEN 64 ELSE 96
    BY DEF vars
  <2>1. z \in 16 .. 50 /\ z \in 2 .. 53
    BY DEF CapsKeys
  <2>2. KbdInterrupt
    <3>1. code' # code
      BY <2>1
    <3>2. ~KeyEvent
      BY <2>1 DEF KeyEvent, Press, Release
    <3> QED
      BY <3>1, <3>2 DEF Next, Boot, Entry, IdtInit, PicInit, KbdInit, ClockInit, PitInit, Sti,
        Shell, Stopped, PitInterrupt, RtcInterrupt, PitTick, RtcTick, Call, Proceed, vars, kbdvars
  <2>3. out' = Effect(flags, z)
    BY <2>1, <2>2 DEF KbdInterrupt, KeyboardHandler
  <2>4. out' = <<"putc", IF Upper(flags, z) THEN shift_char(z) ELSE array_of_char(z)>>
    BY <2>1, <2>3 DEF Effect
  <2>5. out'[2] = IF flags.caps = 1 \/ flags.shift = 1 THEN shift_char(z) ELSE array_of_char(z)
    BY <2>1, <2>4 DEF Upper
  <2>6. array_of_char(z) \in 97 .. 122 /\ shift_char(z) \in 65 .. 90
    BY LetterTables
  <2>7. CASE flags.caps = 1 \/ flags.shift = 1
    <3>1. shift_char(z) - 64 \in 1 .. 26 /\ out'[2] = (shift_char(z) - 64) + 64
      BY <2>5, <2>6, <2>7
    <3> QED
      BY <2>7, <3>1
  <2>8. CASE ~(flags.caps = 1 \/ flags.shift = 1)
    <3>1. array_of_char(z) - 96 \in 1 .. 26 /\ out'[2] = (array_of_char(z) - 96) + 96
      BY <2>5, <2>6, <2>8
    <3> QED
      BY <2>8, <3>1
  <2> QED
    BY <2>7, <2>8
<1>2. Spec => [][Next]_vars
  BY DEF Spec
<1> QED
  BY <1>1, <1>2, InvAlways, PTL DEF LettersTyped
=============================================================================
