-------------------------------- MODULE Rtc ---------------------------------
(***************************************************************************)
(* The real-time clock (rtc.c): the chip behind its index and data port,   *)
(* the handler, and rtc_read and rtc_write, which run with interrupts on   *)
(* and are cut at every access to a port.                                  *)
(***************************************************************************)
EXTENDS Integers

CONSTANT Freqs   \* what programs write to the clock

Normal == 2      \* upper half of register A: the divider runs

VARIABLES
  rtc,       \* idx: register selected; hi, rate: register A; pie: periodic
             \* interrupt on (B); c: interrupt noted in register C
  read_flag,
  call       \* at: next step of the system call; freq: the frequency asked
             \* for; its locals prev and rate; hit: an RTC interrupt came
             \* between the choice of register A and the access to it

rtcvars == <<rtc, read_flag, call>>

InUser == [at |-> "user", freq |-> 0, prev |-> 0, rate |-> 0, hit |-> FALSE]

(* The chip as the firmware leaves it.                                     *)
RtcInit ==
  /\ rtc \in [idx : {"C"}, hi : {Normal}, rate : {6}, pie : {FALSE}, c : BOOLEAN]
  /\ read_flag = 0 /\ call = InUser

(* rtc_init(): rate 6, periodic interrupt on, C read.                      *)
rtc_init(r) == [idx |-> "C", hi |-> r.hi, rate |-> 6, pie |-> TRUE, c |-> FALSE]

(* The switch of rtc_write().                                              *)
RateOfSlow(f) == IF f = 2 THEN 16 ELSE IF f = 1024 THEN 6 ELSE -1
RateOf(f) ==
  CASE f = 2 -> 15 [] f = 4 -> 14 [] f = 8 -> 13 [] f = 16 -> 12 [] f = 32 -> 11
    [] f = 64 -> 10 [] f = 128 -> 9 [] f = 256 -> 8 [] f = 512 -> 7 [] f = 1024 -> 6
    [] OTHER -> -1

(* Hertz at a rate: what the chip does with it.                            *)
Hertz(rate) == 32768 \div (2 ^ (rate - 1))

(* Ports: register C reads as 0xC0 or 0 and a read clears it.              *)
Select(reg) == rtc' = [rtc EXCEPT !.idx = reg]
UpperHalf == IF rtc.idx = "A" THEN rtc.hi ELSE IF rtc.c THEN 12 ELSE 0
AfterIn == IF rtc.idx = "C" THEN [rtc EXCEPT !.c = FALSE] ELSE rtc
AfterOut(hi, rate) == IF rtc.idx = "A" THEN [rtc EXCEPT !.hi = hi, !.rate = rate] ELSE rtc

(* rtc_handler(): register C is read, so the chip can interrupt again.     *)
HandlerReadsNothing == [rtc EXCEPT !.idx = "C"]
HandlerReads == [rtc EXCEPT !.idx = "C", !.c = FALSE]
RtcHandler ==
  /\ rtc' = HandlerReads
  /\ read_flag' = 1
  /\ call' = [call EXCEPT !.hit = @ \/ call.at \in {"getA", "putA"}]

(* rtc_read(): the flag is cleared, then the loop.                         *)
ReadBegin == call.at = "user" /\ call' = [call EXCEPT !.at = "wait"]
             /\ read_flag' = 0 /\ UNCHANGED rtc
ReadEnd == call.at = "wait" /\ read_flag = 1 /\ call' = InUser /\ UNCHANGED <<rtc, read_flag>>

(* rtc_write(): other frequencies return at once.                          *)
WriteRefused(f) == call.at = "user" /\ RateOf(f) = -1 /\ UNCHANGED rtcvars
WriteBegin(f) ==
  /\ call.at = "user" /\ RateOf(f) # -1
  /\ call' = [at |-> "selA", freq |-> f, prev |-> 0, rate |-> RateOf(f), hit |-> FALSE]
  /\ UNCHANGED <<rtc, read_flag>>
Goto(a, b) == call.at = a /\ call' = [call EXCEPT !.at = b]
SelectA  == Goto("selA", "getA") /\ Select("A") /\ UNCHANGED read_flag
GetA     == /\ call.at = "getA"
            /\ call' = [call EXCEPT !.at = "selA2", !.prev = UpperHalf]
            /\ rtc' = AfterIn /\ UNCHANGED read_flag
SelectA2Once == Goto("selA2", "putA") /\ UNCHANGED <<rtc, read_flag>>
SelectA2 == Goto("selA2", "putA") /\ Select("A") /\ UNCHANGED read_flag
PutA     == Goto("putA", "selC") /\ rtc' = AfterOut(call.prev, call.rate) /\ UNCHANGED read_flag
SelectC  == Goto("selC", "getC") /\ Select("C") /\ UNCHANGED read_flag
GetC     == call.at = "getC" /\ call' = InUser /\ rtc' = AfterIn /\ UNCHANGED read_flag

InWrite == SelectA \/ GetA \/ SelectA2 \/ PutA \/ SelectC \/ GetC
RtcCall == ReadBegin \/ \E f \in Freqs : WriteRefused(f) \/ WriteBegin(f)
=============================================================================
