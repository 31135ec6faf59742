----------------------------- MODULE PwmDriver -----------------------------
(***************************************************************************)
(* The PWM driver (drivers/drv_pwm.c) under rt_pwm_set, rt_pwm_enable,     *)
(* rt_pwm_disable and the device's write (rt_drv_pwm.c): it turns a period *)
(* and a pulse in nanoseconds into prescaler, reload and compare values of *)
(* a timer whose channels share the first two. Prescaler and compare are   *)
(* buffered by the timer until its next update event, the reload value is  *)
(* not, and the timer counts on between the writes of drv_pwm_set. Each    *)
(* timer is used by one thread, so calls do not overlap. The timer is      *)
(* external; Count models it. Times are scaled down: the ratios of clock,  *)
(* Kilo, MAX_PERIOD and the word size are what matters.                    *)
(***************************************************************************)
EXTENDS Integers, FiniteSetsExt

CONSTANTS Pclk,         \* 170: frequency of APB2 and of the timer, in MHz
          Kilo,         \* 1000
          MAX_PERIOD, MIN_PERIOD, MIN_PULSE,   \* 65535, 3 and 2
          Word,         \* 2^32: register accesses are 32 bits wide
          Channels,
          Periods, Pulses,   \* what clients ask for, in ns
          Writes             \* pulses given to the device's write

ASSUME PwmAssumption ==
    /\ {Pclk, Kilo, MAX_PERIOD, Word} \subseteq Nat \ {0}
    /\ MIN_PULSE \in Nat \ {0, 1} /\ MIN_PERIOD \in Nat /\ MIN_PULSE < MIN_PERIOD
    /\ MIN_PERIOD < MAX_PERIOD
    /\ UNION {Periods, Pulses, Writes} \subseteq Nat
    /\ IsFiniteSet(Channels)

VARIABLES psc, ccr,        \* the values written
          pscNow, ccrNow,  \* the buffered values in use
          arr, cnt,        \* reload value and counter
          on,              \* enabled channels; the timer runs while there are any
          call,            \* the call in progress
          asked            \* history: last request of each channel

regs == <<psc, ccr, pscNow, ccrNow, arr, cnt>>
vars == <<psc, ccr, pscNow, ccrNow, arr, cnt, on, call, asked>>

Nothing == [period |-> 0, pulse |-> 0]
Idle == [step |-> "idle"]

----------------------------------------------------------------------------
\* What the driver takes the timer's clock to be: twice that of its bus. A timer
\* runs at twice its bus clock when the bus divides the system clock; here the
\* divider is 1 (drivers/drv_clk.c) and the timer runs at Pclk.
TimClock == 2 * Pclk

PeriodTicks(ns) == (ns * TimClock) \div Kilo

Prescaler(ns) == (PeriodTicks(ns) \div MAX_PERIOD) + 1

Reload(ns) == Max({PeriodTicks(ns) \div Prescaler(ns), MIN_PERIOD})

\* A pulse longer than the period is let through.
Compare_Unbounded(period, ns) ==
    Max({((ns * TimClock) \div Prescaler(period)) \div Kilo, MIN_PULSE})
Compare(period, ns) ==
    Min({Max({((ns * TimClock) \div Prescaler(period)) \div Kilo, MIN_PULSE}),
         Reload(period)})

\* What drv_pwm_get answers for a number of ticks: the product is 32 bits wide.
Nanoseconds(ticks) == ((ticks * (psc + 1) * Kilo) % Word) \div TimClock

----------------------------------------------------------------------------
Init == /\ psc = 0 /\ pscNow = 0 /\ arr = 0 /\ cnt = 0
        /\ ccr = [c \in Channels |-> 0] /\ ccrNow = ccr
        /\ on = {} /\ call = Idle
        /\ asked = [c \in Channels |-> Nothing]

Begin(c, period, pulse) ==
    /\ call = Idle
    /\ call' = [step |-> "psc", ch |-> c, period |-> period, pulse |-> pulse]
    /\ UNCHANGED <<psc, ccr, pscNow, ccrNow, arr, cnt, on, asked>>

rt_pwm_set == \E c \in Channels, period \in Periods, pulse \in Pulses :
                 Begin(c, period, pulse)

\* drv_pwm_get, then drv_pwm_set with the period it answered. Bound: once
\* after a rt_pwm_set of the channel.
_pwm_write == \E c \in Channels, pulse \in Writes :
                 /\ asked[c].period \in Periods
                 /\ Begin(c, Nanoseconds(arr + 1), pulse)

SetPrescaler == /\ call.step = "psc"
                /\ psc' = Prescaler(call.period) - 1
                /\ call' = [call EXCEPT !.step = "arr"]
                /\ UNCHANGED <<ccr, pscNow, ccrNow, arr, cnt, on, asked>>

SetAutoreload == /\ call.step = "arr"
                 /\ arr' = Reload(call.period) - 1
                 /\ call' = [call EXCEPT !.step = "ccr"]
                 /\ UNCHANGED <<psc, ccr, pscNow, ccrNow, cnt, on, asked>>

SetCompare == /\ call.step = "ccr"
              /\ ccr' = [ccr EXCEPT ![call.ch] =
                           Compare(call.period, call.pulse) - 1]
              /\ call' = [call EXCEPT !.step = "cnt"]
              /\ UNCHANGED <<psc, pscNow, ccrNow, arr, cnt, on, asked>>

SetCounter == /\ call.step = "cnt"
              /\ cnt' = 0
              /\ call' = [call EXCEPT !.step = "update"]
              /\ UNCHANGED <<psc, ccr, pscNow, ccrNow, arr, on, asked>>

\* An update event puts the buffered values to use.
Update == pscNow' = psc /\ ccrNow' = ccr /\ cnt' = 0

Return == /\ asked' = [asked EXCEPT ![call.ch] =
                         [period |-> call.period, pulse |-> call.pulse]]
          /\ call' = Idle
          /\ UNCHANGED <<psc, ccr, arr, on>>
\* The event is left to the timer's own overflow.
GenerateEvent_Omitted == /\ call.step = "update"
                         /\ UNCHANGED <<pscNow, ccrNow, cnt>>
                         /\ Return
GenerateEvent == /\ call.step = "update"
                 /\ Update
                 /\ Return

drv_pwm_enable(c, enable) == /\ call = Idle
                             /\ on' = IF enable THEN on \cup {c} ELSE on \ {c}
                             /\ on' # on
                             /\ UNCHANGED <<regs, call, asked>>

\* A tick of the prescaled clock. A counter that was overtaken by a smaller
\* reload value runs on to its own end. With a reload value of 0 it stands.
Count == /\ on # {} /\ arr > 0
         /\ IF cnt = arr THEN Update
            ELSE /\ cnt' = (cnt + 1) % (MAX_PERIOD + 1)
                 /\ UNCHANGED <<pscNow, ccrNow>>
         /\ UNCHANGED <<psc, ccr, arr, on, call, asked>>

Set == SetPrescaler \/ SetAutoreload \/ SetCompare \/ SetCounter \/ GenerateEvent

Next == \/ rt_pwm_set
        \/ _pwm_write
        \/ Set
        \/ \E c \in Channels, enable \in BOOLEAN : drv_pwm_enable(c, enable)
        \/ Count

Spec == Init /\ [][Next]_vars

----------------------------------------------------------------------------
\* Channels whose last request had the period the timer now has.
Valid == {c \in Channels : asked[c] # Nothing /\ call = Idle
                           /\ Prescaler(asked[c].period) = psc + 1
                           /\ Reload(asked[c].period) = arr + 1}

Tick == (pscNow + 1) * Kilo
\* n ticks are ns nanoseconds to within less than two ticks, at f MHz.
Lasts(n, ns, f) == n * Tick =< ns * f /\ ns * f < (n + 2) * Tick

\* A period and a pulse of channel c, at f MHz, or an end of their range.
RightAt(c, f) ==
    LET period == asked[c].period  pulse == asked[c].pulse
    IN  /\ \/ Lasts(arr + 1, period, f)
           \/ arr + 1 = MIN_PERIOD /\ period * f < MIN_PERIOD * Tick
        /\ \/ Lasts(ccrNow[c], pulse, f)
           \/ ccrNow[c] = MIN_PULSE - 1 /\ pulse * f < MIN_PULSE * Tick
           \/ ccrNow[c] = arr /\ pulse * f >= (arr + 1) * Tick

(* Whatever was asked of the other channel before, between and after, and  *)
(* wherever the running timer was: a channel whose period is the timer's   *)
(* is high for the pulse asked for and repeats after the period asked for, *)
(* to within two ticks of the clock the driver assumes, with the values    *)
(* the timer really has in use. Requests out of range give the ends of the *)
(* range. It says nothing of the real clock.                               *)
AsAskedAtTimClock == \A c \in Valid : RightAt(c, TimClock)

(* rt_drv_pwm.h gives the unit of period and pulse as ns: the times are    *)
(* right on the clock the timer really has. They are not, but twice as     *)
(* long, because the driver doubles the clock of a bus that divides by 1.  *)
TimesAreNs == \A c \in Valid : RightAt(c, Pclk)

(* A channel whose period is the timer's always has a low phase and a high *)
(* one: no request leaves a motor or servo line stuck at one level.        *)
NeverStuck == \A c \in Valid : ccrNow[c] \in 1 .. arr
=============================================================================
