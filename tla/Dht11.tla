------------------------------- MODULE Dht11 -------------------------------
(***************************************************************************)
(* The sensor thread (applications/aht10.c, dht11_handle) and the sensor's *)
(* one-wire protocol. Time passes in units; in each unit the line moves on *)
(* and the thread either polls it once or is held up: by a thread of its   *)
(* own priority 7 whose time slice it is, or by an interrupt, the button's *)
(* prints included. Every wait is a loop without a timeout.                *)
(*                                                                         *)
(* The sensor (external) answers with low, high, then a low and a high for *)
(* each bit, the high longer for a one, and a last low, after which the    *)
(* pull-up keeps the line high for ever. It may not answer at all.         *)
(***************************************************************************)
EXTENDS Integers, Sequences

CONSTANTS Width,                       \* 8: bits of a byte
          Release, RespLow, RespHigh,  \* lengths of the answer's levels
          BitLow, HighZero, HighOne,   \* lengths of a bit's levels
          Sample,                      \* delay_us(50), which waits 25 us (aht10.c:32)
          Slack,                       \* units per bit a hold-up may take
          HeldMax,                     \* bound: hold-ups in one read
          Measured,                    \* what the sensor may measure: 4 bytes
          ReadEvery, AlarmEvery,       \* 50 and 200 iterations
          HumHigh, HumLow, TempHigh, TempLow   \* 90, 10, 40, 1

\* The sample falls behind the high of a zero and, with the hold-up, before
\* the end of the high of a one. The first of these rests on the sensor: at
\* 25 us a zero that stays high for up to 28 us leaves nothing to spare but the
\* time that polling and calls take. No level is over before it can be noticed,
\* and a zero is sampled before the next bit even if hold-ups of both add up.
ASSUME Dht11Assumption ==
    /\ {Width, Release, RespHigh, HighZero} \subseteq Nat \ {0}
    /\ {RespLow, BitLow, HighOne, Sample, Slack, HeldMax} \subseteq Nat
    /\ HighZero =< Sample /\ Sample + Slack < HighOne
    /\ \A level \in {RespLow, RespHigh, BitLow, HighZero} : Slack < level
    /\ Sample + 2 * Slack < HighZero + BitLow
    /\ \A m \in Measured : m \in [1 .. 4 -> 0 .. 2^Width - 1]
    /\ {ReadEvery, AlarmEvery} \subseteq Nat /\ ReadEvery < AlarmEvery

\* What the proofs need to know of exponentiation.
ASSUME PowersOfTwo ==
    2^0 = 1 /\ \A m \in 0 .. Width - 1 : 2^m \in Nat \ {0} /\ 2^(m + 1) = 2 * 2^m

Octet == 0 .. 2^Width - 1
Bits == 5 * Width

VARIABLES dht11_data,         \* the five bytes
          k, read_data, bits, \* byte being read, its value, its bits so far
          n, i, beep_value3,  \* dht11_handle's counters and the alarm
          stage, d,           \* which loop polls; what is left of the delay
          sent, answers,      \* the sensor's frame; does it answer?
          seg, age,           \* level of the frame on the line, units into it
          held, total, over   \* history: hold-ups in this bit and in this
                              \* read; did a bit have more than Slack?

thread == <<dht11_data, k, read_data, bits, stage, d>>
loop == <<n, i, beep_value3>>
signal == <<seg, age>>
holds == <<held, total, over>>
dhtvars == <<thread, loop, sent, answers, signal, holds>>

----------------------------------------------------------------------------
(* The line. Even levels are high.                                         *)

Last == 2 * Bits + 4
DQ_IN == IF seg % 2 = 0 THEN 1 ELSE 0

Frame(m) == Append(m, (m[1] + m[2] + m[3] + m[4]) % 2^Width)
BitOf(bytes, b) == (bytes[b \div Width + 1] \div 2^(Width - 1 - (b % Width))) % 2

Duration == CASE seg = 0 -> Release
              [] seg = 1 -> RespLow
              [] seg = 2 -> RespHigh
              [] seg > 2 /\ seg % 2 = 1 -> BitLow
              [] OTHER -> IF BitOf(sent, seg \div 2 - 2) = 1 THEN HighOne ELSE HighZero

Resting == seg = Last \/ ~answers
Edge == ~Resting /\ age + 1 = Duration

Wave == /\ seg' = IF Edge THEN seg + 1 ELSE seg
        /\ age' = IF Edge \/ Resting THEN 0 ELSE age + 1

----------------------------------------------------------------------------
(* dht11_start and dht11_read_byte: the thread polls once.                 *)

\* while(DQ_IN == level); and what follows the loop
Await(p, level, next) ==
    /\ stage = p
    /\ stage' = IF DQ_IN = level THEN p ELSE next
    /\ UNCHANGED <<dht11_data, k, read_data, bits, d>>

\* read_data <<= 1; read_data |= bit; a full byte goes to dht11_data. Only
\* printing depends on the checksum, dht11_result is read by nobody.
Store_OneByteMore(bit) ==
    LET full == bits + 1 = Width
        byte == (2 * read_data + bit) % 2^Width IN
      /\ dht11_data' = IF full THEN [dht11_data EXCEPT ![k] = byte] ELSE dht11_data
      /\ k' = IF full THEN k + 1 ELSE k
      /\ bits' = IF full THEN 0 ELSE bits + 1
      /\ read_data' = IF full THEN 0 ELSE byte
      /\ stage' = IF full /\ k = 6 THEN "loop" ELSE "rise"
Store_LowFirst(bit) ==
    LET full == bits + 1 = Width
        byte == (read_data + bit * 2^bits) % 2^Width IN
      /\ dht11_data' = IF full THEN [dht11_data EXCEPT ![k] = byte] ELSE dht11_data
      /\ k' = IF full THEN k + 1 ELSE k
      /\ bits' = IF full THEN 0 ELSE bits + 1
      /\ read_data' = IF full THEN 0 ELSE byte
      /\ stage' = IF full /\ k = 5 THEN "loop" ELSE "rise"
Store(bit) ==
    LET full == bits + 1 = Width
        byte == (2 * read_data + bit) % 2^Width IN
      /\ dht11_data' = IF full THEN [dht11_data EXCEPT ![k] = byte] ELSE dht11_data
      /\ k' = IF full THEN k + 1 ELSE k
      /\ bits' = IF full THEN 0 ELSE bits + 1
      /\ read_data' = IF full THEN 0 ELSE byte
      /\ stage' = IF full /\ k = 5 THEN "loop" ELSE "rise"

Rise == /\ stage = "rise"
        /\ IF DQ_IN = 1 THEN stage' = "delay" /\ d' = Sample - 1
                        ELSE UNCHANGED <<stage, d>>
        /\ UNCHANGED <<dht11_data, k, read_data, bits>>

\* The delay waits on a counter that does not move.
Delay_Stopped == /\ stage = "delay" /\ d > 0
                 /\ UNCHANGED <<dht11_data, k, read_data, bits, stage, d>>
\* rt_hw_us_delay measures by the SysTick counter: a hold-up counts.
Delay == /\ stage = "delay" /\ d > 0
         /\ d' = d - 1
         /\ UNCHANGED <<dht11_data, k, read_data, bits, stage>>

\* A one is stored without waiting for the line to fall.
TakeSample_NoFall == /\ stage = "delay" /\ d = 0
                     /\ Store(DQ_IN)
                     /\ UNCHANGED d
TakeSample == /\ stage = "delay" /\ d = 0
              /\ IF DQ_IN = 1
                   THEN /\ stage' = "fall"
                        /\ UNCHANGED <<dht11_data, k, read_data, bits>>
                   ELSE Store(0)
              /\ UNCHANGED d

Fall == /\ stage = "fall"
        /\ IF DQ_IN = 0 THEN Store(1)
                        ELSE UNCHANGED <<dht11_data, k, read_data, bits, stage>>
        /\ UNCHANGED d

dht11_start == \/ Await("low1", 1, "high")
               \/ Await("high", 0, "low2")
               \/ Await("low2", 1, "rise")
dht11_read_byte == Rise \/ Delay \/ TakeSample \/ Fall

Poll == /\ dht11_start \/ dht11_read_byte
        /\ held' = IF Edge /\ seg % 2 = 0 THEN 0 ELSE held
        /\ UNCHANGED <<total, over>>

HeldUp == /\ total < HeldMax
          /\ d' = IF stage = "delay" /\ d > 0 THEN d - 1 ELSE d
          /\ UNCHANGED <<dht11_data, k, read_data, bits, stage>>
          /\ held' = IF Edge /\ seg % 2 = 0 THEN 0 ELSE held + 1
          /\ total' = total + 1
          /\ over' = (over \/ held + 1 > Slack)

Unit == /\ stage # "loop"
        /\ Wave /\ (Poll \/ HeldUp)
        /\ UNCHANGED <<loop, sent, answers>>

----------------------------------------------------------------------------
(* dht11_handle: one iteration, to the delay or into the loops above. What *)
(* it does with PS2_KEY is module ReviewLog's.                             *)

OutOfLimits(data) == \/ data[1] >= HumHigh \/ data[1] =< HumLow
                     \/ data[3] >= TempHigh \/ data[3] =< TempLow

\* The alarm is tested before the sensor was ever read.
Alarm_TooEarly == IF i >= ReadEvery
                    THEN /\ beep_value3' = IF OutOfLimits(dht11_data) THEN 1 ELSE beep_value3
                         /\ i' = 0
                    ELSE i' = i + 1 /\ UNCHANGED beep_value3
Alarm == IF i >= AlarmEvery
           THEN /\ beep_value3' = IF OutOfLimits(dht11_data) THEN 1 ELSE beep_value3
                /\ i' = 0
           ELSE i' = i + 1 /\ UNCHANGED beep_value3

StartRead == /\ n' = 0
             /\ \E m \in Measured : sent' = Frame(m)
             /\ answers' \in BOOLEAN
             /\ stage' = "low1" /\ k' = 1 /\ read_data' = 0 /\ bits' = 0
             /\ seg' = 0 /\ age' = 0
             /\ held' = 0 /\ total' = 0 /\ over' = FALSE
             /\ UNCHANGED <<dht11_data, d>>

Iterate == /\ stage = "loop"
           /\ Alarm
           /\ IF n >= ReadEvery
                THEN StartRead
                ELSE /\ n' = n + 1
                     /\ UNCHANGED <<thread, sent, answers, signal, holds>>

DhtInit == /\ dht11_data = [b \in 1 .. 5 |-> 0]
           /\ k = 1 /\ read_data = 0 /\ bits = 0
           /\ n = 0 /\ i = 0 /\ beep_value3 = 0
           /\ stage = "loop" /\ d = 0
           /\ sent \in {Frame(m) : m \in Measured} /\ answers = TRUE
           /\ seg = 0 /\ age = 0
           /\ held = 0 /\ total = 0 /\ over = FALSE

DhtNext == Iterate \/ Unit

\* The thread is never ready for ever without running: see module Scheduler.
DhtSpec == DhtInit /\ [][DhtNext]_dhtvars /\ WF_dhtvars(DhtNext)

----------------------------------------------------------------------------
ReadOver == stage = "loop" /\ k = 6

(* A read during which no bit was held up for more than Slack delivers the *)
(* frame, wherever in the bits the hold-ups fell.                          *)
DecodesTheFrame == ReadOver /\ ~over => dht11_data = sent

(* However badly it was held up, a read that ends has ones only where the  *)
(* frame has: a one may have been taken for a zero, never a zero for a     *)
(* one.                                                                    *)
EndedReadKeptStep ==
    ReadOver => \A b \in 0 .. Bits - 1 :
                  BitOf(dht11_data, b) = 1 => BitOf(sent, b) = 1

(* The thread is caught in a loop that nothing ends only by a sensor that  *)
(* does not answer or by a hold-up of more than Slack in one bit.          *)
Caught == /\ stage \in {"low1", "low2", "fall"} /\ DQ_IN = 1
          /\ Resting
CaughtOnlyByHoldUp == Caught => over \/ ~answers

(* With an answering sensor and short hold-ups the thread keeps leaving    *)
(* the loops, which everything below priority 7 depends on.                *)
KeepsLooping == <>[](answers /\ ~over) => []<>(stage = "loop")

(* The alarm is never raised on the zeros from before the first read, and  *)
(* by a measurement only if it is out of limits, unless the bits were      *)
(* disturbed: the checksum does not guard it.                              *)
AlarmIsJustified ==
    [][beep_value3 = 0 /\ beep_value3' = 1 => over \/ OutOfLimits(sent)]_dhtvars
=============================================================================
