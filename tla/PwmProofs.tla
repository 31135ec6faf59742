----------------------------- MODULE PwmProofs -----------------------------
(***************************************************************************)
(* For every clock, every limit that satisfies the assumption of PwmDriver *)
(* and every request: a channel whose period is the timer's is high for    *)
(* the pulse asked for on the clock the driver assumes, and never stuck at *)
(* one level. And for every period, every set of pulses shorter than the   *)
(* sleep and every preemption of the servo thread: how long the servo      *)
(* lines are high.                                                         *)
(***************************************************************************)
EXTENDS ServoPulses, WellFoundedInduction, TLAPS

Request == [period : Nat, pulse : Nat]

(* The registers, the call and the history have these types.               *)
TypesOK == /\ psc \in Nat /\ arr \in Nat
           /\ ccr \in [Channels -> Int]
           /\ asked \in [Channels -> Request]
           /\ \/ call = Idle
              \/ call \in [step : {"psc", "arr", "ccr", "cnt", "update"}, ch : Channels,
                           period : Nat, pulse : Nat]

(* Between two calls the timer uses the values that were written last: the *)
(* update event at the end of drv_pwm_set leaves nothing in the buffers.   *)
Settled == call = Idle => pscNow = psc /\ ccrNow = ccr

(* The compare value of a channel is that of its last request, or, once    *)
(* SetCompare is done, that of the call in progress: neither a call for    *)
(* the other channel nor the counter changes it.                           *)
Stored == call.step \in {"cnt", "update"}
Programmed ==
    /\ \A c \in Channels : asked[c] # Nothing /\ ~(Stored /\ call.ch = c)
                              => ccr[c] = Compare(asked[c].period, asked[c].pulse) - 1
    /\ Stored => ccr[call.ch] = Compare(call.period, call.pulse) - 1

IInv == TypesOK /\ Settled /\ Programmed

----------------------------------------------------------------------------
(* Min and Max of two integers.                                            *)
LEMMA MinMaxOfTwo ==
  ASSUME NEW a \in Int, NEW b \in Int
  PROVE  /\ Max({a, b}) = IF a >= b THEN a ELSE b
         /\ Min({a, b}) = IF a =< b THEN a ELSE b
<1>1. Max({a, b}) = IF a >= b THEN a ELSE b
  BY DEF Max
<1>2. Min({a, b}) = IF a =< b THEN a ELSE b
  BY DEF Min
<1>3. QED  BY <1>1, <1>2

(* Quotients of natural numbers.                                           *)
LEMMA Quotient ==
  ASSUME NEW a \in Nat, NEW b \in Nat \ {0}
  PROVE  /\ a \div b \in Nat
         /\ (a \div b) * b =< a
         /\ a < (a \div b) * b + b
  OBVIOUS

(* Dividing by b and then by d rounds down once, as dividing by b * d.     *)
LEMMA QuotientTwice ==
  ASSUME NEW a \in Nat, NEW b \in Nat \ {0}, NEW d \in Nat \ {0}
  PROVE  LET q == (a \div b) \div d
         IN  q \in Nat /\ q * (b * d) =< a /\ a < (q + 1) * (b * d)
<1> DEFINE r == a \div b
           q == r \div d
<1>1. r \in Nat /\ r * b =< a /\ a < r * b + b
  BY Quotient
<1>2. q \in Nat /\ q * d =< r /\ r < q * d + d
  BY <1>1, Quotient
<1> HIDE DEF r, q
<1>3. q * d * b =< r * b
  BY <1>1, <1>2
<1>4. (r + 1) * b =< (q * d + d) * b
  BY <1>1, <1>2
<1>5. q * (b * d) = q * d * b /\ (q + 1) * (b * d) = (q * d + d) * b
  BY <1>2
<1>6. (r + 1) * b = r * b + b /\ r * b \in Int /\ (q * d + d) * b \in Int /\ q * d * b \in Int
  BY <1>1, <1>2
<1>7. q * d * b =< a /\ a < (q * d + d) * b
  BY <1>1, <1>3, <1>4, <1>6
<1>8. QED
  BY <1>2, <1>5, <1>7 DEF q, r

(* The constants are numbers.                                              *)
LEMMA Constants ==
  /\ TimClock \in Nat \ {0} /\ TimClock = 2 * Pclk
  /\ Kilo \in Nat \ {0} /\ MAX_PERIOD \in Nat \ {0} /\ Word \in Nat \ {0}
  /\ MIN_PULSE \in Nat /\ MIN_PERIOD \in Nat
  /\ 2 =< MIN_PULSE /\ MIN_PULSE < MIN_PERIOD
  BY PwmAssumption DEF TimClock

(* The prescaler is never 0, and no division by it fails.                  *)
LEMMA PrescalerType ==
  ASSUME NEW ns \in Nat
  PROVE  PeriodTicks(ns) \in Nat /\ Prescaler(ns) \in Nat \ {0}
<1>1. ns * TimClock \in Nat
  BY Constants
<1>2. PeriodTicks(ns) \in Nat
  BY <1>1, Constants, Quotient DEF PeriodTicks
<1>3. PeriodTicks(ns) \div MAX_PERIOD \in Nat
  BY <1>2, Constants, Quotient
<1>4. QED
  BY <1>2, <1>3 DEF Prescaler

(* The reload value is the period in ticks, but at least MIN_PERIOD.       *)
LEMMA ReloadLasts ==
  ASSUME NEW ns \in Nat
  PROVE  /\ Reload(ns) \in Nat /\ MIN_PERIOD =< Reload(ns)
         /\ LET t == Prescaler(ns) * Kilo
            IN \/ Reload(ns) * t =< ns * TimClock /\ ns * TimClock < (Reload(ns) + 2) * t
               \/ Reload(ns) = MIN_PERIOD /\ ns * TimClock < MIN_PERIOD * t
<1> DEFINE p == Prescaler(ns)
           x == ns * TimClock
           q == (x \div Kilo) \div p
           t == p * Kilo
<1>1. x \in Nat /\ p \in Nat \ {0}
  BY Constants, PrescalerType
<1>2. /\ q \in Nat /\ q * (Kilo * p) =< x /\ x < (q + 1) * (Kilo * p)
  BY <1>1, Constants, QuotientTwice
<1>3. t \in Nat /\ Kilo * p = t
  BY <1>1, Constants
<1>4. Reload(ns) = IF q >= MIN_PERIOD THEN q ELSE MIN_PERIOD
  BY <1>2, MinMaxOfTwo, Constants DEF Reload, PeriodTicks
<1> HIDE DEF p, x, q, t
<1>5. /\ q * t =< x /\ x < (q + 1) * t
      /\ (q + 2) * t = (q + 1) * t + t /\ (q + 1) * t \in Int
  BY <1>2, <1>3
<1>6. q < MIN_PERIOD => (q + 1) * t =< MIN_PERIOD * t /\ MIN_PERIOD * t \in Int
  <2>1. ASSUME NEW a \in Nat, NEW b \in Nat, a =< b  PROVE a * t =< b * t
    BY <1>3, <2>1
  <2>2. q + 1 \in Nat /\ (q < MIN_PERIOD => q + 1 =< MIN_PERIOD)
    BY <1>2, Constants
  <2>3. QED  BY <1>3, <2>1, <2>2, Constants
<1>7. CASE q >= MIN_PERIOD
  BY <1>1, <1>2, <1>3, <1>4, <1>5, <1>7 DEF p, x, t
<1>8. CASE q < MIN_PERIOD
  BY <1>1, <1>2, <1>3, <1>4, <1>5, <1>6, <1>8, Constants DEF p, x, t
<1>9. QED
  BY <1>2, <1>7, <1>8, Constants

(* The compare value is the pulse in ticks, but at least MIN_PULSE and at  *)
(* most the reload value.                                                  *)
LEMMA CompareLasts ==
  ASSUME NEW period \in Nat, NEW ns \in Nat
  PROVE  LET t == Prescaler(period) * Kilo
             v == Compare(period, ns)
         IN /\ v \in Nat /\ MIN_PULSE =< v /\ v =< Reload(period)
            /\ \/ (v - 1) * t =< ns * TimClock /\ ns * TimClock < (v + 1) * t
               \/ v = MIN_PULSE /\ ns * TimClock < MIN_PULSE * t
               \/ v = Reload(period) /\ ns * TimClock >= Reload(period) * t
<1> DEFINE p == Prescaler(period)
           x == ns * TimClock
           q == (x \div p) \div Kilo
           t == p * Kilo
           r == Reload(period)
<1>1. x \in Nat /\ p \in Nat \ {0} /\ r \in Nat /\ MIN_PERIOD =< r
  BY Constants, PrescalerType, ReloadLasts
<1>2. q \in Nat /\ q * t =< x /\ x < (q + 1) * t /\ t \in Nat
  BY <1>1, Constants, QuotientTwice
<1>3. Compare(period, ns) = IF q >= MIN_PULSE THEN (IF q =< r THEN q ELSE r)
                                              ELSE MIN_PULSE
  <2> DEFINE m == Max({q, MIN_PULSE})
  <2>1. Compare(period, ns) = Min({m, r})
    BY DEF Compare
  <2>2. MIN_PULSE =< r /\ q \in Int /\ r \in Int /\ MIN_PULSE \in Int
    BY <1>1, <1>2, Constants
  <2> HIDE DEF q, r
  <2>3. m = IF q >= MIN_PULSE THEN q ELSE MIN_PULSE
    BY <2>2, MinMaxOfTwo
  <2>4. m \in Int
    BY <2>2, <2>3
  <2> HIDE DEF m
  <2>5. Min({m, r}) = IF m =< r THEN m ELSE r
    BY <2>2, <2>4, MinMaxOfTwo
  <2>6. QED
    BY <2>1, <2>2, <2>3, <2>5
<1> HIDE DEF p, x, q, t, r
<1>4. ASSUME NEW a \in Int, NEW b \in Int, a =< b  PROVE a * t =< b * t
  BY <1>2, <1>4
<1>5. CASE q < MIN_PULSE
  <2>1. (q + 1) * t =< MIN_PULSE * t
    BY <1>2, <1>4, <1>5, Constants
  <2>2. x < MIN_PULSE * t
    BY <1>1, <1>2, <2>1, Constants
  <2>3. QED
    BY <1>1, <1>2, <1>3, <1>5, <2>2, Constants DEF p, x, t, r
<1>6. CASE q >= MIN_PULSE /\ q > r
  <2>1. r * t =< q * t
    BY <1>1, <1>2, <1>4, <1>6
  <2>2. x >= r * t
    BY <1>1, <1>2, <2>1
  <2>3. QED
    BY <1>1, <1>2, <1>3, <1>6, <2>2, Constants DEF p, x, t, r
<1>7. CASE q >= MIN_PULSE /\ q =< r
  <2>1. (q - 1) * t =< q * t
    BY <1>2, <1>4
  <2>2. (q - 1) * t =< x
    BY <1>1, <1>2, <2>1
  <2>3. QED
    BY <1>1, <1>2, <1>3, <1>7, <2>2, Constants DEF p, x, t, r
<1>8. QED
  BY <1>1, <1>2, <1>5, <1>6, <1>7, Constants

----------------------------------------------------------------------------
(* drv_pwm_get answers a natural number of nanoseconds.                    *)
LEMMA NanosecondsType ==
  ASSUME TypesOK, NEW n \in Nat  PROVE Nanoseconds(n) \in Nat
<1>1. n * (psc + 1) * Kilo \in Nat
  BY Constants DEF TypesOK
<1>2. (n * (psc + 1) * Kilo) % Word \in Nat
  BY <1>1, Constants
<1>3. QED
  BY <1>2, Constants, Quotient DEF Nanoseconds

(* No channel was asked for anything at boot.                              *)
LEMMA Initial == Init => IInv
  BY DEF Init, IInv, TypesOK, Settled, Programmed, Stored, Idle, Nothing, Request

(* A call that begins has written nothing yet.                             *)
LEMMA BeginKeeps ==
  ASSUME IInv, NEW c \in Channels, NEW period \in Nat, NEW pulse \in Nat,
         Begin(c, period, pulse)
  PROVE  IInv'
<1>1. /\ call = Idle
      /\ call' = [step |-> "psc", ch |-> c, period |-> period, pulse |-> pulse]
      /\ UNCHANGED <<psc, ccr, pscNow, ccrNow, arr, cnt, on, asked>>
  BY DEF Begin
<1>2. ~Stored /\ ~Stored' /\ call' # Idle
  BY <1>1 DEF Stored, Idle
<1>3. TypesOK'
  BY <1>1 DEF IInv, TypesOK
<1>4. Settled' /\ Programmed'
  BY <1>1, <1>2 DEF IInv, Settled, Programmed
<1>5. QED  BY <1>3, <1>4 DEF IInv

(* The five steps of drv_pwm_set, of which only the third and the last     *)
(* concern the compare value.                                              *)
LEMMA SetKeeps == ASSUME IInv, Set  PROVE IInv'
<1> DEFINE Calls == [step : {"psc", "arr", "ccr", "cnt", "update"}, ch : Channels,
                     period : Nat, pulse : Nat]
<1>1. call \in Calls /\ call # Idle
  BY DEF IInv, TypesOK, Idle, Set, SetPrescaler, SetAutoreload, SetCompare,
         SetCounter, GenerateEvent
<1>2. CASE SetPrescaler
  <2>1. /\ call' \in Calls /\ call'.ch = call.ch /\ call' # Idle
        /\ call.step = "psc" /\ call'.step = "arr"
    BY <1>1, <1>2 DEF SetPrescaler, Idle
  <2>2. psc' \in Nat /\ UNCHANGED <<ccr, arr, asked>>
    BY <1>1, <1>2, PrescalerType DEF SetPrescaler
  <2>3. TypesOK'
    BY <2>1, <2>2 DEF IInv, TypesOK
  <2>4. Settled' /\ Programmed'
    BY <2>1, <2>2 DEF IInv, Settled, Programmed, Stored
  <2>5. QED  BY <2>3, <2>4 DEF IInv
<1>3. CASE SetAutoreload
  <2>1. /\ call' \in Calls /\ call'.ch = call.ch /\ call' # Idle
        /\ call.step = "arr" /\ call'.step = "ccr"
    BY <1>1, <1>3 DEF SetAutoreload, Idle
  <2>2. arr' \in Nat /\ UNCHANGED <<psc, ccr, asked>>
    BY <1>1, <1>3, ReloadLasts, Constants DEF SetAutoreload
  <2>3. TypesOK'
    BY <2>1, <2>2 DEF IInv, TypesOK
  <2>4. Settled' /\ Programmed'
    BY <2>1, <2>2 DEF IInv, Settled, Programmed, Stored
  <2>5. QED  BY <2>3, <2>4 DEF IInv
<1>4. CASE SetCompare
  <2> DEFINE v == Compare(call.period, call.pulse) - 1
  <2>1. /\ call' = [call EXCEPT !.step = "cnt"] /\ call.step = "ccr"
        /\ ccr' = [ccr EXCEPT ![call.ch] = v] /\ UNCHANGED <<psc, arr, asked>>
    BY <1>4 DEF SetCompare
  <2>2. v \in Int
    BY <1>1, CompareLasts
  <2>3. /\ call' \in Calls /\ call' # Idle /\ call'.step = "cnt"
        /\ UNCHANGED <<call.ch, call.period, call.pulse>>
    BY <1>1, <2>1 DEF Idle
  <2>4. TypesOK'
    BY <1>1, <2>1, <2>2, <2>3 DEF IInv, TypesOK
  <2>5. Settled'
    BY <2>3 DEF Settled
  <2>6. Programmed'
    BY <1>1, <2>1, <2>2, <2>3 DEF IInv, TypesOK, Programmed, Stored
  <2>7. QED  BY <2>4, <2>5, <2>6 DEF IInv
<1>5. CASE SetCounter
  <2>1. /\ call' = [call EXCEPT !.step = "update"] /\ call.step = "cnt"
        /\ UNCHANGED <<psc, ccr, arr, asked>>
    BY <1>5 DEF SetCounter
  <2>2. /\ call' \in Calls /\ call' # Idle /\ call'.step = "update"
        /\ UNCHANGED <<call.ch, call.period, call.pulse>>
    BY <1>1, <2>1 DEF Idle
  <2>3. TypesOK'
    BY <2>1, <2>2 DEF IInv, TypesOK
  <2>4. Settled' /\ Programmed'
    BY <2>1, <2>2 DEF IInv, Settled, Programmed, Stored
  <2>5. QED  BY <2>3, <2>4 DEF IInv
<1>6. CASE GenerateEvent
  <2> DEFINE request == [period |-> call.period, pulse |-> call.pulse]
  <2>1. /\ call.step = "update" /\ call' = Idle /\ UNCHANGED <<psc, ccr, arr>>
        /\ asked' = [asked EXCEPT ![call.ch] = request]
        /\ pscNow' = psc /\ ccrNow' = ccr
    BY <1>6 DEF GenerateEvent, Update, Return
  <2>2. request \in Request
    BY <1>1 DEF Request
  <2>3. TypesOK' /\ Settled'
    BY <2>1, <2>2 DEF IInv, TypesOK, Settled
  <2>4. Stored /\ ~Stored'
    BY <2>1 DEF Stored, Idle
  <2>5. Programmed'
    BY <1>1, <2>1, <2>4 DEF IInv, TypesOK, Programmed
  <2>6. QED  BY <2>3, <2>5 DEF IInv
<1>7. QED
  BY <1>2, <1>3, <1>4, <1>5, <1>6 DEF Set

(* Every call, every step of one and every tick preserves the invariant.   *)
LEMMA Inductive == IInv /\ [Next]_vars => IInv'
<1> SUFFICES ASSUME IInv, [Next]_vars  PROVE IInv'
  OBVIOUS
<1>1. CASE rt_pwm_set
  BY <1>1, BeginKeeps, PwmAssumption DEF rt_pwm_set
<1>2. CASE _pwm_write
  <2>1. arr + 1 \in Nat /\ Writes \subseteq Nat
    BY PwmAssumption DEF IInv, TypesOK
  <2>2. Nanoseconds(arr + 1) \in Nat
    BY <2>1, NanosecondsType DEF IInv
  <2>3. QED
    BY <1>2, <2>1, <2>2, BeginKeeps DEF _pwm_write
<1>3. ASSUME NEW c \in Channels, NEW enable \in BOOLEAN, drv_pwm_enable(c, enable)
      PROVE  IInv'
  BY <1>3 DEF drv_pwm_enable, regs, IInv, TypesOK, Settled, Programmed, Stored
<1>4. CASE Count
  BY <1>4 DEF Count, Update, IInv, TypesOK, Settled, Programmed, Stored
<1>5. CASE UNCHANGED vars
  BY <1>5 DEF vars, IInv, TypesOK, Settled, Programmed, Stored
<1>6. QED
  BY <1>1, <1>2, <1>3, <1>4, <1>5, SetKeeps DEF Next

(* The invariant holds in every state.                                     *)
LEMMA Always == Spec => []IInv
  BY Initial, Inductive, PTL DEF Spec

----------------------------------------------------------------------------
(* What the invariant says of a channel whose period is the timer's.       *)
LEMMA ValidChannel ==
  ASSUME IInv, NEW c \in Valid
  PROVE  /\ asked[c].period \in Nat /\ asked[c].pulse \in Nat
         /\ ccrNow[c] = Compare(asked[c].period, asked[c].pulse) - 1
         /\ pscNow + 1 = Prescaler(asked[c].period)
         /\ arr \in Nat /\ arr + 1 = Reload(asked[c].period)
<1>1. c \in Channels /\ asked[c] # Nothing /\ call = Idle /\ ~Stored
  BY DEF Valid, Stored, Idle
<1>2. QED
  BY <1>1 DEF Valid, IInv, TypesOK, Settled, Programmed, Request

(* No request leaves a channel whose period is the timer's without a low   *)
(* or without a high phase.                                                *)
THEOREM PwmNeverStuck == Spec => []NeverStuck
<1>1. ASSUME IInv, NEW c \in Valid  PROVE ccrNow[c] \in 1 .. arr
  <2> DEFINE period == asked[c].period
             v == Compare(period, asked[c].pulse)
  <2>1. /\ v \in Nat /\ MIN_PULSE =< v /\ v =< Reload(period)
        /\ ccrNow[c] = v - 1 /\ arr \in Nat /\ arr + 1 = Reload(period)
    BY <1>1, ValidChannel, CompareLasts
  <2> HIDE DEF v
  <2>2. QED  BY <2>1, Constants
<1>2. IInv => NeverStuck
  BY <1>1 DEF NeverStuck
<1>3. QED  BY <1>2, Always, PTL

(* On the clock the driver assumes, pulse and period last what was asked   *)
(* for, to within two ticks, or are at an end of their range.              *)
THEOREM PwmAsAskedAtTimClock == Spec => []AsAskedAtTimClock
<1>1. ASSUME IInv, NEW c \in Valid  PROVE RightAt(c, TimClock)
  <2> DEFINE period == asked[c].period
             pulse == asked[c].pulse
             r == Reload(period)
             v == Compare(period, pulse)
             t == Prescaler(period) * Kilo
             f == TimClock
  <2>1. /\ period \in Nat /\ pulse \in Nat /\ r \in Nat /\ v \in Nat
        /\ arr + 1 = r /\ arr \in Nat /\ ccrNow[c] = v - 1 /\ Tick = t
    BY <1>1, ValidChannel, ReloadLasts, CompareLasts DEF Tick
  <2>2. \/ r * t =< period * f /\ period * f < (r + 2) * t
        \/ r = MIN_PERIOD /\ period * f < MIN_PERIOD * t
    BY <2>1, ReloadLasts
  <2>3. \/ (v - 1) * t =< pulse * f /\ pulse * f < (v + 1) * t
        \/ v = MIN_PULSE /\ pulse * f < MIN_PULSE * t
        \/ v = r /\ pulse * f >= r * t
    BY <2>1, CompareLasts
  <2> HIDE DEF r, v, t, f, period, pulse
  <2>5. \/ Lasts(arr + 1, period, f)
        \/ arr + 1 = MIN_PERIOD /\ period * f < MIN_PERIOD * Tick
    BY <2>1, <2>2 DEF Lasts
  <2>6. \/ Lasts(ccrNow[c], pulse, f)
        \/ ccrNow[c] = MIN_PULSE - 1 /\ pulse * f < MIN_PULSE * Tick
        \/ ccrNow[c] = arr /\ pulse * f >= (arr + 1) * Tick
    <3>1. v - 1 + 2 = v + 1 /\ (v = r => v - 1 = arr)
      BY <2>1
    <3>2. QED
      BY <2>1, <2>3, <3>1 DEF Lasts
  <2>7. QED
    BY <2>5, <2>6 DEF RightAt, period, pulse, f
<1>2. IInv => AsAskedAtTimClock
  BY <1>1 DEF AsAskedAtTimClock
<1>3. QED  BY <1>2, Always, PTL

----------------------------------------------------------------------------
(* The pulses of the servo thread.                                         *)

Longest == Max(Lengths)
ServoCalls == [step : {"psc", "arr", "ccr", "cnt", "update"}, ch : Channels,
               period : Periods, pulse : Pulses]

PulseTypes ==
    /\ ccr \in [Channels -> {0} \cup Lengths] /\ ccrNow \in [Channels -> {0} \cup Lengths]
    /\ arr \in Nat /\ cnt \in 0 .. MAX_PERIOD /\ on \in SUBSET Channels
    /\ call = Idle \/ call \in ServoCalls
    /\ todo \in {<<>>, <<2>>, <<1, 2>>} /\ wait \in 0 .. LoopTicks
    /\ width \in [Channels -> Nat] /\ joined \in SUBSET Channels

(* A line that has a pulse keeps one, and the counter reaches its end: the *)
(* compare value is never above the reload value.                          *)
Reaches ==
    /\ \A c \in Channels : /\ ccr[c] # 0 => \A l \in Lengths : l =< arr
                           /\ ccrNow[c] # 0 => ccr[c] # 0
    /\ call.step \in {"ccr", "cnt", "update"} => \A l \in Lengths : l =< arr
    /\ todo = <<1, 2>> => call = Idle
    /\ ~Asleep => wait = LoopTicks

(* How often this iteration has started the period again.                  *)
Restarts == 2 * (IF todo = <<>> THEN 2 ELSE IF todo = <<2>> THEN 1 ELSE 0)
              - (IF call = Idle THEN 0 ELSE IF call.step = "update" THEN 1 ELSE 2)

(* A pulse is at least as long as the counter says and longer by at most   *)
(* one pulse for each restart. In the sleep the pulses that ran into one   *)
(* another come to an end before the next iteration starts.                *)
Widths ==
    \A c \in Channels :
      /\ ~High(c) => width[c] = 0
      /\ High(c) =>
           /\ c \notin joined => width[c] >= cnt
           /\ width[c] =< Restarts * (Longest - 1) + cnt
           /\ Asleep => width[c] =< cnt \/ cnt + wait >= LoopTicks

PulseInv == PulseTypes /\ Reaches /\ Widths

----------------------------------------------------------------------------
(* A set of natural numbers has a least one.                               *)
LEMMA LeastOf ==
  ASSUME NEW S \in SUBSET Nat, S # {}
  PROVE  \E l \in S : \A m \in S : l =< m
<1> DEFINE R == OpToRel(<, Nat)
<1>1. IsWellFoundedOn(R, Nat)
  BY NatLessThanWellFounded, Zenon
<1>2. \A l, m \in Nat : l < m => <<l, m>> \in R
  BY DEF OpToRel
<1> HIDE DEF R
<1>3. PICK l \in S : \A m \in S : ~(<<m, l>> \in R)
  BY <1>1, WFMin
<1>4. \A m \in S : ~(m < l)
  BY <1>2, <1>3, Zenon
<1>5. QED
  BY <1>4

(* A set of natural numbers below a bound has a least and a greatest one.  *)
LEMMA Extremes ==
  ASSUME NEW S \in SUBSET Nat, S # {}, NEW top \in Nat, \A l \in S : l =< top
  PROVE  /\ Min(S) \in S /\ \A l \in S : Min(S) =< l
         /\ Max(S) \in S /\ \A l \in S : l =< Max(S)
<1>1. \E l \in S : \A m \in S : l =< m
  BY LeastOf
<1>2. Min(S) \in S /\ \A l \in S : Min(S) =< l
  BY <1>1 DEF Min
<1> DEFINE T == {top - l : l \in S}
<1>3. T \in SUBSET Nat /\ T # {}
  <2>1. ASSUME NEW l \in S  PROVE top - l \in Nat
    BY <2>1
  <2>2. T \in SUBSET Nat
    BY <2>1
  <2>3. PICK l \in S : TRUE
    OBVIOUS
  <2>4. top - l \in T
    BY <2>3
  <2>5. QED  BY <2>2, <2>4
<1>4. PICK t \in T : \A m \in T : t =< m
  BY <1>3, LeastOf
<1>5. PICK h \in S : t = top - h
  BY <1>4
<1>6. ASSUME NEW l \in S  PROVE l =< h
  <2>1. top - l \in T
    BY <1>6
  <2>2. top - h =< top - l
    BY <1>4, <1>5, <2>1
  <2>3. l \in Nat /\ h \in Nat
    OBVIOUS
  <2>4. QED  BY <2>2, <2>3
<1>7. \E x \in S : \A y \in S : x >= y
  BY <1>5, <1>6
<1>8. Max(S) \in S /\ \A l \in S : Max(S) >= l
  BY <1>7 DEF Max
<1>9. QED  BY <1>2, <1>8

(* The pulses are at least one tick long, fit into the period and are      *)
(* shorter than the sleep.                                                 *)
LEMMA LengthsAre ==
  /\ Lengths \in SUBSET Nat /\ LoopTicks \in Nat
  /\ \A l \in Lengths : 1 =< l /\ l < LoopTicks /\ Min(Lengths) =< l /\ l =< Longest
  /\ \A l \in Lengths, period \in Periods : l =< Reload(period) - 1
  /\ Longest \in Lengths /\ Longest \in Nat /\ Min(Lengths) \in Nat
  /\ \A period \in Periods, pulse \in Pulses : Compare(period, pulse) - 1 \in Lengths
<1>1. PICK p \in Periods : /\ Periods = {p}
                           /\ \A pulse \in Pulses : Compare(p, pulse) =< LoopTicks
  BY LoopAssumption
<1>2. p \in Nat /\ Pulses \in SUBSET Nat /\ Pulses # {} /\ LoopTicks \in Nat
  BY LoopAssumption, PwmAssumption
<1>3. Lengths = {Compare(p, pulse) - 1 : pulse \in Pulses}
  BY <1>1 DEF Lengths
<1>4. ASSUME NEW pulse \in Pulses
      PROVE  /\ Compare(p, pulse) \in Nat /\ 2 =< Compare(p, pulse)
             /\ Compare(p, pulse) =< Reload(p) /\ Compare(p, pulse) =< LoopTicks
  <2>1. pulse \in Nat
    BY <1>2
  <2>2. /\ Compare(p, pulse) \in Nat /\ MIN_PULSE =< Compare(p, pulse)
        /\ Compare(p, pulse) =< Reload(p)
    BY <1>2, <2>1, CompareLasts
  <2>3. QED  BY <1>1, <2>2, Constants
<1>5. Reload(p) \in Nat
  BY <1>2, ReloadLasts
<1>6. ASSUME NEW l \in Lengths
      PROVE  l \in Nat /\ 1 =< l /\ l < LoopTicks /\ l =< Reload(p) - 1
  <2>1. PICK pulse \in Pulses : l = Compare(p, pulse) - 1
    BY <1>3
  <2>2. QED  BY <1>2, <1>4, <1>5, <2>1
<1>7. Lengths # {} /\ Lengths \in SUBSET Nat /\ \A l \in Lengths : l =< LoopTicks
  <2>1. PICK pulse \in Pulses : TRUE
    BY <1>2
  <2>2. Compare(p, pulse) - 1 \in Lengths
    BY <1>3, <2>1
  <2>3. \A l \in Lengths : l \in Nat /\ l =< LoopTicks
    BY <1>2, <1>6
  <2>4. QED  BY <2>2, <2>3
<1>8. /\ Min(Lengths) \in Lengths /\ \A l \in Lengths : Min(Lengths) =< l
      /\ Max(Lengths) \in Lengths /\ \A l \in Lengths : l =< Max(Lengths)
  BY <1>2, <1>7, Extremes
<1>9. \A l \in Lengths, period \in Periods : l =< Reload(period) - 1
  BY <1>1, <1>6
<1>10. \A period \in Periods, pulse \in Pulses : Compare(period, pulse) - 1 \in Lengths
  BY DEF Lengths
<1>11. QED
  BY <1>2, <1>6, <1>7, <1>8, <1>9, <1>10 DEF Longest

(* No pulse is empty.                                                      *)
LEMMA LengthsPositive == \A l \in Lengths : l \in Nat /\ 0 < l
<1>1. \A l \in Lengths : l \in Nat /\ 1 =< l
  BY LengthsAre
<1>2. QED  BY <1>1

(* The reload value fits into the counter.                                 *)
LEMMA ReloadFits == \A period \in Periods : Reload(period) \in Nat /\ Reload(period) =< MAX_PERIOD
<1> SUFFICES ASSUME NEW period \in Periods
             PROVE  Reload(period) \in Nat /\ Reload(period) =< MAX_PERIOD
  OBVIOUS
<1> DEFINE ticks == PeriodTicks(period)
           q == ticks \div MAX_PERIOD
           r == ticks \div Prescaler(period)
<1>1. /\ period \in Nat /\ MAX_PERIOD \in Nat \ {0} /\ MIN_PERIOD \in Nat
      /\ MIN_PERIOD < MAX_PERIOD
  BY PwmAssumption
<1>2. ticks \in Nat
  BY <1>1, PrescalerType
<1> HIDE DEF ticks
<1>3. q \in Nat /\ ticks < q * MAX_PERIOD + MAX_PERIOD
  BY <1>1, <1>2, Quotient
<1>4. Prescaler(period) = q + 1
  BY DEF Prescaler, ticks
<1> HIDE DEF q
<1>5. r \in Nat /\ r * (q + 1) =< ticks
  BY <1>2, <1>3, <1>4, Quotient
<1> HIDE DEF r
<1>6. r * (q + 1) < MAX_PERIOD * (q + 1)
  <2>1. MAX_PERIOD * (q + 1) = q * MAX_PERIOD + MAX_PERIOD
    BY <1>1, <1>3
  <2>2. QED  BY <1>1, <1>2, <1>3, <1>5, <2>1
<1>7. r < MAX_PERIOD
  <2>1. ASSUME MAX_PERIOD =< r  PROVE FALSE
    <3>1. MAX_PERIOD * (q + 1) =< r * (q + 1)
      BY <1>1, <1>3, <1>5, <2>1
    <3>2. QED  BY <1>1, <1>3, <1>5, <1>6, <3>1
  <2>2. QED  BY <1>1, <1>5, <2>1
<1>8. Reload(period) = IF r >= MIN_PERIOD THEN r ELSE MIN_PERIOD
  BY <1>1, <1>5, MinMaxOfTwo DEF Reload, r, ticks
<1>9. QED  BY <1>1, <1>5, <1>7, <1>8

----------------------------------------------------------------------------
(* What the invariant says of one line.                                    *)
Width(c) ==
    /\ ~High(c) => width[c] = 0
    /\ High(c) =>
         /\ c \notin joined => width[c] >= cnt
         /\ width[c] =< Restarts * (Longest - 1) + cnt
         /\ Asleep => width[c] =< cnt \/ cnt + wait >= LoopTicks

(* Up to four times a number.                                              *)
LEMMA Multiples ==
  ASSUME NEW r \in 0 .. 4, NEW n \in Nat
  PROVE  r * n \in Nat /\ r * n =< 4 * n /\ (r + 1) * n = r * n + n
<1>1. r = 0 \/ r = 1 \/ r = 2 \/ r = 3 \/ r = 4
  OBVIOUS
<1>2. QED  BY <1>1

(* An iteration has at most four restarts, and the bound is a number.      *)
LEMMA RestartsAre ==
  ASSUME PulseTypes, Reaches
  PROVE  /\ Restarts \in 0 .. 4 /\ Longest - 1 \in Nat
         /\ Restarts * (Longest - 1) \in Nat
         /\ Restarts * (Longest - 1) =< 4 * (Longest - 1)
         /\ (Restarts + 1) * (Longest - 1) = Restarts * (Longest - 1) + (Longest - 1)
<1>1. <<>> # <<2>> /\ <<>> # <<1, 2>> /\ <<2>> # <<1, 2>>
  OBVIOUS
<1>2. ASSUME call = Idle  PROVE Restarts \in 0 .. 4
  BY <1>1, <1>2 DEF Restarts, PulseTypes
<1>3. ASSUME call # Idle  PROVE Restarts \in 0 .. 4
  <2>1. todo = <<>> \/ todo = <<2>>
    BY <1>3 DEF PulseTypes, Reaches
  <2>2. QED  BY <1>1, <1>3, <2>1 DEF Restarts
<1>4. Restarts \in 0 .. 4
  BY <1>2, <1>3
<1>5. Longest - 1 \in Nat
  BY LengthsAre
<1> HIDE DEF Restarts
<1>6. QED  BY <1>4, <1>5, Multiples

(* A line that is high is in a pulse that the counter and the register hold. *)
LEMMA HighMeans ==
  ASSUME PulseTypes, Reaches, NEW c \in Channels, High(c)
  PROVE  /\ c \in on /\ cnt < ccrNow[c] /\ ccrNow[c] \in Lengths
         /\ ccr[c] \in Lengths /\ ccrNow[c] =< arr /\ cnt + 1 =< MAX_PERIOD
         /\ cnt \in Nat /\ cnt + 1 =< Longest /\ cnt < LoopTicks
<1>1. c \in on /\ cnt < ccrNow[c] /\ cnt \in Nat
  BY PwmAssumption DEF High, PulseTypes
<1>2. ccrNow[c] \in {0} \cup Lengths /\ ccr[c] \in {0} \cup Lengths
  BY DEF PulseTypes
<1>3. ccrNow[c] # 0
  BY <1>1
<1>4. ccrNow[c] \in Lengths /\ ccr[c] \in Lengths /\ ccrNow[c] =< arr
  BY <1>2, <1>3 DEF Reaches
<1>5. /\ ccrNow[c] \in Nat /\ ccrNow[c] < LoopTicks /\ ccrNow[c] =< Longest
      /\ LoopTicks \in Nat /\ Longest \in Nat
  BY <1>4, LengthsAre
<1>6. PICK period \in Periods : TRUE
  BY LoopAssumption
<1>7. ccrNow[c] =< Reload(period) - 1 /\ Reload(period) \in Nat /\ Reload(period) =< MAX_PERIOD
  BY <1>4, <1>6, LengthsAre, ReloadFits
<1>8. MAX_PERIOD \in Nat
  BY PwmAssumption
<1>9. QED  BY <1>1, <1>4, <1>5, <1>7, <1>8

(* A step that leaves the counter, the lines and the number of restarts    *)
(* alone and does not fall asleep changes no width.                        *)
LEMMA QuietKeeps ==
  ASSUME Widths, UNCHANGED <<on, cnt, ccrNow, width, joined>>, Restarts' = Restarts, ~Asleep'
  PROVE  /\ Widths'
         /\ \A c \in Channels : ~Ends(c)
<1>1. \A c \in Channels : High(c)' = High(c)
  BY DEF High
<1> HIDE DEF Restarts
<1>2. QED  BY <1>1 DEF Widths, Ends

(* A restart lengthens the pulse it meets by less than one pulse.          *)
LEMMA RestartKeeps ==
  ASSUME PulseInv, UNCHANGED <<on, width, joined, wait>>, cnt' = 0,
         Restarts' = Restarts + 1, ~Asleep, ccrNow' = ccrNow \/ ccrNow' = ccr
  PROVE  /\ Widths'
         /\ \A c \in Channels : ~Ends(c)
<1>1. PulseTypes /\ Reaches /\ Widths
  BY DEF PulseInv
<1>2. wait = LoopTicks
  BY <1>1 DEF Reaches
<1> DEFINE n == Longest - 1
           m == Restarts * n
<1>3. n \in Nat /\ m \in Nat /\ Restarts' * n = m + n
  BY <1>1, RestartsAre
<1>4. ASSUME NEW c \in Channels, High(c)  PROVE High(c)'
  <2>1. c \in on /\ ccrNow[c] \in Lengths /\ ccr[c] \in Lengths
    BY <1>1, <1>4, HighMeans
  <2>2. ccrNow'[c] \in Lengths
    BY <2>1
  <2>3. 0 < ccrNow'[c]
    BY <2>2, LengthsPositive
  <2>4. QED  BY <2>1, <2>3 DEF High
<1>5. ASSUME NEW c \in Channels  PROVE Width(c)'
  <2>1. width[c] \in Nat /\ width'[c] = width[c]
    BY <1>1 DEF PulseTypes
  <2>2. CASE High(c)
    <3>1. width[c] =< m + cnt
      BY <1>1, <2>2 DEF Widths
    <3>2. cnt \in Nat /\ cnt =< n
      BY <1>1, <1>3, <2>2, HighMeans, LengthsAre
    <3> HIDE DEF n, m
    <3>3. width[c] =< (m + n) + 0
      BY <1>3, <2>1, <3>1, <3>2
    <3>4. width'[c] =< Restarts' * n + cnt'
      BY <1>3, <2>1, <3>3
    <3>5. width'[c] >= cnt' /\ cnt' + wait' >= LoopTicks
      BY <1>2, <2>1, LengthsAre
    <3>6. QED  BY <1>4, <2>2, <3>4, <3>5 DEF Width, n
  <2>3. CASE ~High(c)
    <3>1. width'[c] = 0
      BY <1>1, <2>1, <2>3 DEF Widths
    <3> HIDE DEF n, m
    <3>2. width'[c] >= cnt' /\ width'[c] =< Restarts' * n + cnt' /\ width'[c] =< cnt'
      BY <1>3, <3>1
    <3>3. QED  BY <3>1, <3>2 DEF Width, n
  <2>4. QED  BY <2>2, <2>3
<1>6. Widths'
  BY <1>5 DEF Widths, Width
<1>7. QED  BY <1>4, <1>6 DEF Ends

----------------------------------------------------------------------------
(* The thread's steps, one by one. Boot: no line is enabled.               *)
LEMMA PulseInitial == SInit => PulseInv
<1> SUFFICES ASSUME SInit  PROVE PulseInv
  OBVIOUS
<1>1. /\ arr = 0 /\ cnt = 0 /\ on = {} /\ call = Idle /\ todo = <<1, 2>>
      /\ ccr = [c \in Channels |-> 0] /\ ccrNow = [c \in Channels |-> 0]
      /\ wait = LoopTicks /\ width = [c \in Channels |-> 0] /\ joined = {}
  BY DEF SInit, Init, Order
<1>2. LoopTicks \in 0 .. LoopTicks /\ 0 \in 0 .. MAX_PERIOD
  BY LengthsAre, PwmAssumption
<1>3. PulseTypes
  BY <1>1, <1>2 DEF PulseTypes
<1>4. Reaches
  BY <1>1 DEF Reaches, Idle
<1>5. Widths
  BY <1>1 DEF Widths, High
<1>6. QED  BY <1>3, <1>4, <1>5 DEF PulseInv

(* The next set of the iteration begins.                                   *)
LEMMA SetNextKeeps ==
  ASSUME PulseInv, SetNext
  PROVE  PulseInv' /\ \A c \in Channels : ~Ends(c)
<1>1. PulseTypes /\ Reaches /\ Widths
  BY DEF PulseInv
<1>2. PICK period \in Periods, pulse \in Pulses : Begin(Head(todo), period, pulse)
  BY DEF SetNext
<1>3. /\ call = Idle /\ UNCHANGED <<ccr, ccrNow, arr, cnt, on, wait, width, joined>>
      /\ call' = [step |-> "psc", ch |-> Head(todo), period |-> period, pulse |-> pulse]
      /\ todo # <<>> /\ todo' = Tail(todo)
  BY <1>2 DEF SetNext, Begin, history
<1>4. \/ todo = <<1, 2>> /\ todo' = <<2>> /\ Head(todo) = 1
      \/ todo = <<2>> /\ todo' = <<>> /\ Head(todo) = 2
  <2>1. todo = <<2>> \/ todo = <<1, 2>>
    BY <1>1, <1>3 DEF PulseTypes
  <2>2. Tail(<<1, 2>>) = <<2>> /\ Head(<<1, 2>>) = 1
    OBVIOUS
  <2>3. Tail(<<2>>) = <<>> /\ Head(<<2>>) = 2
    OBVIOUS
  <2>4. QED  BY <1>3, <2>1, <2>2, <2>3
<1>5. Head(todo) \in Channels
  BY <1>4, LoopAssumption
<1>6. call' \in ServoCalls /\ call' # Idle /\ call'.step = "psc"
  BY <1>3, <1>5 DEF ServoCalls, Idle
<1>7. ~Asleep' /\ ~Asleep /\ todo' # <<1, 2>>
  BY <1>3, <1>4, <1>6 DEF Asleep
<1>8. PulseTypes'
  BY <1>1, <1>3, <1>4, <1>6 DEF PulseTypes
<1>9. Reaches'
  BY <1>1, <1>3, <1>6, <1>7 DEF Reaches
<1>10. Restarts' = Restarts
  BY <1>3, <1>4, <1>6 DEF Restarts
<1>11. QED
  BY <1>1, <1>3, <1>7, <1>8, <1>9, <1>10, QuietKeeps DEF PulseInv

(* The second line may be enabled in the middle of a pulse.                *)
LEMMA EnableNextKeeps ==
  ASSUME PulseInv, EnableNext
  PROVE  PulseInv' /\ \A c \in Channels : ~Ends(c)
<1>1. PulseTypes /\ Reaches /\ Widths
  BY DEF PulseInv
<1> DEFINE ch == Min(Channels \ on)
<1>2. /\ todo = <<>> /\ call = Idle /\ on' = on \cup {ch} /\ on # Channels
      /\ UNCHANGED <<ccr, ccrNow, arr, cnt, call, todo, wait, width>>
      /\ joined' = joined \cup {c \in Channels : High(c)' /\ ~High(c) /\ cnt > 0}
  BY DEF EnableNext, drv_pwm_enable, regs
<1>3. ch \in Channels
  <2>1. Channels \ on \in SUBSET Nat /\ Channels \ on # {} /\ \A k \in Channels \ on : k =< 2
    <3>1. on \in SUBSET Channels /\ on # Channels
      BY <1>1, <1>2 DEF PulseTypes
    <3>2. \A k \in Channels : k \in Nat /\ k =< 2
      BY LoopAssumption
    <3>3. QED  BY <3>1, <3>2
  <2>2. 2 \in Nat
    OBVIOUS
  <2> DEFINE rest == Channels \ on
  <2> HIDE DEF rest
  <2>3. Min(rest) \in rest
    BY <2>1, <2>2, Extremes DEF rest
  <2>4. QED  BY <2>3 DEF rest
<1> HIDE DEF ch
<1>4. ~Asleep /\ wait = LoopTicks
  BY <1>1, <1>2 DEF Asleep, Reaches
<1>5. PulseTypes'
  BY <1>1, <1>2, <1>3 DEF PulseTypes
<1>6. Reaches'
  BY <1>1, <1>2, <1>4 DEF Reaches
<1>7. Restarts' = Restarts
  BY <1>2 DEF Restarts
<1>8. \A c \in Channels : High(c) => High(c)'
  BY <1>2 DEF High
<1> DEFINE m == Restarts * (Longest - 1)
<1>9. m \in Nat /\ (Restarts * (Longest - 1))' = m
  BY <1>1, <1>7, RestartsAre
<1> HIDE DEF m
<1>10. ASSUME NEW c \in Channels  PROVE Width(c)'
  <2>1. /\ width[c] \in Nat /\ width'[c] = width[c] /\ cnt \in Nat /\ cnt' = cnt
        /\ cnt' + wait' >= LoopTicks
    BY <1>1, <1>2, <1>4, PwmAssumption, LengthsAre DEF PulseTypes
  <2>2. CASE High(c)
    <3>1. (c \notin joined => width[c] >= cnt) /\ width[c] =< m + cnt
      BY <1>1, <2>2 DEF Widths, m
    <3>2. c \notin joined' => c \notin joined
      BY <1>2
    <3>3. (c \notin joined' => width'[c] >= cnt') /\ width'[c] =< m + cnt'
      BY <2>1, <3>1, <3>2
    <3>4. QED  BY <1>8, <1>9, <2>1, <2>2, <3>3 DEF Width
  <2>3. CASE ~High(c)
    <3>1. width'[c] = 0
      BY <1>1, <2>1, <2>3 DEF Widths
    <3>2. High(c)' /\ c \notin joined' => cnt' = 0
      BY <1>2, <2>1, <2>3
    <3>3. width'[c] =< m + cnt' /\ (cnt' = 0 => width'[c] >= cnt')
      BY <1>9, <2>1, <3>1
    <3>4. QED  BY <1>9, <2>1, <3>1, <3>2, <3>3 DEF Width
  <2>4. QED  BY <2>2, <2>3
<1>11. Widths'
  BY <1>10 DEF Widths, Width
<1>12. QED  BY <1>5, <1>6, <1>8, <1>11 DEF PulseInv, Ends

(* The sleep is longer than any pulse, so that the pulses of the last      *)
(* iteration have ended.                                                   *)
LEMMA ResumeKeeps ==
  ASSUME PulseInv, Resume
  PROVE  PulseInv' /\ \A c \in Channels : ~Ends(c)
<1>1. PulseTypes /\ Reaches /\ Widths
  BY DEF PulseInv
<1>2. /\ Asleep /\ wait = 0 /\ todo' = <<1, 2>> /\ wait' = LoopTicks /\ call = Idle
      /\ UNCHANGED <<ccr, ccrNow, arr, cnt, on, call, width, joined>>
  BY DEF Resume, Asleep, regs, history, Order
<1>3. ~Asleep' /\ LoopTicks \in 0 .. LoopTicks
  BY <1>2, LengthsAre DEF Asleep
<1>4. PulseTypes'
  BY <1>1, <1>2, <1>3 DEF PulseTypes
<1>5. Reaches'
  BY <1>1, <1>2 DEF Reaches
<1>6. Restarts' = 0
  BY <1>2 DEF Restarts
<1>7. \A c \in Channels : High(c)' = High(c)
  BY <1>2 DEF High
<1>8. (Restarts * (Longest - 1))' = 0
  BY <1>6, RestartsAre, <1>1
<1>9. ASSUME NEW c \in Channels  PROVE Width(c)'
  <2>1. width[c] \in Nat /\ width'[c] = width[c] /\ cnt \in Nat /\ cnt' = cnt
    BY <1>1, <1>2, PwmAssumption DEF PulseTypes
  <2>2. CASE High(c)
    <3>1. cnt < LoopTicks
      BY <1>1, <2>2, HighMeans
    <3>2. width[c] =< cnt \/ cnt + wait >= LoopTicks
      BY <1>1, <1>2, <2>2 DEF Widths
    <3>3. width'[c] =< 0 + cnt'
      BY <1>2, <2>1, <3>1, <3>2, LengthsAre
    <3>4. c \notin joined => width[c] >= cnt
      BY <1>1, <2>2 DEF Widths
    <3>5. QED  BY <1>2, <1>3, <1>7, <1>8, <2>1, <2>2, <3>3, <3>4 DEF Width
  <2>3. CASE ~High(c)
    BY <1>1, <1>7, <2>1, <2>3 DEF Width, Widths
  <2>4. QED  BY <2>2, <2>3
<1>10. Widths'
  BY <1>9 DEF Widths, Width
<1>11. QED  BY <1>4, <1>5, <1>7, <1>10 DEF PulseInv, Ends

(* The five steps of drv_pwm_set.                                          *)
LEMMA SetStepKeeps ==
  ASSUME PulseInv, SetStep
  PROVE  PulseInv' /\ \A c \in Channels : ~Ends(c)
<1>1. PulseTypes /\ Reaches /\ Widths
  BY DEF PulseInv
<1>2. UNCHANGED <<todo, wait, width, joined>> /\ Set
  BY DEF SetStep, history
<1>3. call \in ServoCalls /\ call # Idle
  BY <1>1, <1>2 DEF PulseTypes, Idle, Set, SetPrescaler, SetAutoreload, SetCompare,
         SetCounter, GenerateEvent
<1>4. /\ call.ch \in Channels /\ call.period \in Periods /\ call.pulse \in Pulses
      /\ call.step \in {"psc", "arr", "ccr", "cnt", "update"}
  BY <1>3 DEF ServoCalls
<1>5. ~Asleep /\ todo # <<1, 2>> /\ wait = LoopTicks
  BY <1>1, <1>3 DEF Asleep, Reaches
<1>6. ASSUME NEW s \in {"psc", "arr", "ccr", "cnt", "update"},
             call' = [call EXCEPT !.step = s]
      PROVE  /\ call' \in ServoCalls /\ call' # Idle /\ call'.step = s /\ ~Asleep'
             /\ s # "update" /\ call.step # "update" => Restarts' = Restarts
             /\ s = "update" /\ call.step # "update" => Restarts' = Restarts + 1
  <2>1. call' \in ServoCalls /\ call'.step = s
    BY <1>3, <1>6 DEF ServoCalls
  <2>2. call' # Idle
    BY <2>1 DEF Idle
  <2>3. ~Asleep'
    BY <2>2 DEF Asleep
  <2>4. /\ s # "update" /\ call.step # "update" => Restarts' = Restarts
        /\ s = "update" /\ call.step # "update" => Restarts' = Restarts + 1
    BY <1>2, <1>3, <2>1, <2>2 DEF Restarts
  <2>5. QED  BY <2>1, <2>2, <2>3, <2>4
<1>7. CASE SetPrescaler
  <2>1. /\ call.step = "psc" /\ call' = [call EXCEPT !.step = "arr"]
        /\ UNCHANGED <<ccr, ccrNow, arr, cnt, on>>
    BY <1>7 DEF SetPrescaler
  <2>2. call' \in ServoCalls /\ call'.step = "arr" /\ ~Asleep' /\ Restarts' = Restarts
    BY <1>6, <2>1
  <2>3. PulseTypes'
    BY <1>1, <1>2, <2>1, <2>2 DEF PulseTypes
  <2>4. Reaches'
    BY <1>1, <1>2, <1>5, <2>1, <2>2 DEF Reaches
  <2>5. QED  BY <1>1, <1>2, <2>1, <2>2, <2>3, <2>4, QuietKeeps DEF PulseInv
<1>8. CASE SetAutoreload
  <2>1. /\ call.step = "arr" /\ call' = [call EXCEPT !.step = "ccr"]
        /\ arr' = Reload(call.period) - 1 /\ UNCHANGED <<ccr, ccrNow, cnt, on>>
    BY <1>8 DEF SetAutoreload
  <2>2. call' \in ServoCalls /\ call'.step = "ccr" /\ ~Asleep' /\ Restarts' = Restarts
    BY <1>6, <2>1
  <2>3. \A l \in Lengths : l =< arr'
    BY <1>4, <2>1, LengthsAre
  <2>4. arr' \in Nat
    <3>1. Reload(call.period) \in Nat /\ Longest \in Nat
      BY <1>4, ReloadFits, LengthsAre
    <3>2. Longest =< arr'
      BY <2>3, LengthsAre
    <3>3. QED  BY <2>1, <3>1, <3>2
  <2>5. PulseTypes'
    BY <1>1, <1>2, <2>1, <2>2, <2>4 DEF PulseTypes
  <2>6. Reaches'
    BY <1>1, <1>2, <1>5, <2>1, <2>2, <2>3 DEF Reaches
  <2>7. QED  BY <1>1, <1>2, <2>1, <2>2, <2>5, <2>6, QuietKeeps DEF PulseInv
<1>9. CASE SetCompare
  <2> DEFINE v == Compare(call.period, call.pulse) - 1
  <2>1. /\ call.step = "ccr" /\ call' = [call EXCEPT !.step = "cnt"]
        /\ ccr' = [ccr EXCEPT ![call.ch] = v] /\ UNCHANGED <<ccrNow, arr, cnt, on>>
    BY <1>9 DEF SetCompare
  <2>2. v \in Lengths
    BY <1>4, LengthsAre
  <2> HIDE DEF v
  <2>3. call' \in ServoCalls /\ call'.step = "cnt" /\ ~Asleep' /\ Restarts' = Restarts
    BY <1>6, <2>1
  <2>4. \A l \in Lengths : l =< arr
    BY <1>1, <2>1 DEF Reaches
  <2>5. v # 0
    BY <2>2, LengthsPositive
  <2>6. ccr' \in [Channels -> {0} \cup Lengths] /\ \A c \in Channels : ccr[c] # 0 => ccr'[c] # 0
    BY <1>1, <2>1, <2>2, <2>5 DEF PulseTypes
  <2>7. PulseTypes'
    BY <1>1, <1>2, <2>1, <2>3, <2>6 DEF PulseTypes
  <2>8. Reaches'
    BY <1>1, <1>2, <1>5, <2>1, <2>3, <2>4, <2>6 DEF Reaches
  <2>9. QED  BY <1>1, <1>2, <2>1, <2>3, <2>7, <2>8, QuietKeeps DEF PulseInv
<1>10. CASE SetCounter
  <2>1. /\ call.step = "cnt" /\ call' = [call EXCEPT !.step = "update"] /\ cnt' = 0
        /\ UNCHANGED <<ccr, ccrNow, arr, on>>
    BY <1>10 DEF SetCounter
  <2>2. call' \in ServoCalls /\ call'.step = "update" /\ ~Asleep' /\ Restarts' = Restarts + 1
    BY <1>6, <2>1
  <2>3. PulseTypes'
    BY <1>1, <1>2, <2>1, <2>2, PwmAssumption DEF PulseTypes
  <2>4. Reaches'
    BY <1>1, <1>2, <1>5, <2>1, <2>2 DEF Reaches
  <2>5. Widths' /\ \A c \in Channels : ~Ends(c)
    BY <1>2, <1>5, <2>1, <2>2, RestartKeeps
  <2>6. QED  BY <2>3, <2>4, <2>5 DEF PulseInv
<1>11. CASE GenerateEvent
  <2>1. /\ call.step = "update" /\ call' = Idle /\ cnt' = 0 /\ ccrNow' = ccr
        /\ UNCHANGED <<ccr, arr, on>>
    BY <1>11 DEF GenerateEvent, Update, Return
  <2>2. Restarts' = Restarts + 1
    BY <1>2, <1>3, <2>1 DEF Restarts
  <2>3. PulseTypes'
    BY <1>1, <1>2, <2>1, PwmAssumption DEF PulseTypes
  <2>4. Reaches'
    BY <1>1, <1>2, <1>5, <2>1 DEF Reaches, Idle
  <2>5. Widths' /\ \A c \in Channels : ~Ends(c)
    BY <1>2, <1>5, <2>1, <2>2, RestartKeeps
  <2>6. QED  BY <2>3, <2>4, <2>5 DEF PulseInv
<1>12. QED  BY <1>2, <1>7, <1>8, <1>9, <1>10, <1>11 DEF Set

(* The counter gains what the sleep loses.                                 *)
LEMMA OneMoreOneLess ==
  ASSUME NEW a \in Nat, NEW w \in Nat, NEW v \in Nat, NEW l \in Nat,
         v >= w - 1, a + w >= l
  PROVE  (a + 1) + v >= l
  OBVIOUS

(* A tick that finds a line high does not meet the timer's overflow, so    *)
(* that the line's pulse ends only where the compare value says.           *)
LEMMA ClockTickKeeps ==
  ASSUME PulseInv, ClockTick
  PROVE  /\ PulseInv'
         /\ \A c \in Channels : Ends(c) => cnt + 1 = ccrNow[c]
<1>1. PulseTypes /\ Reaches /\ Widths
  BY DEF PulseInv
<1>2. /\ UNCHANGED <<ccr, arr, on, call, todo>>
      /\ wait' = IF Asleep /\ wait > 0 THEN wait - 1 ELSE wait
      /\ width' = [c \in Channels |-> IF High(c) /\ High(c)' THEN width[c] + 1 ELSE 0]
      /\ joined' = {c \in joined : High(c)'}
  BY DEF ClockTick, Count
<1>3. \/ cnt = arr /\ cnt' = 0 /\ ccrNow' = ccr
      \/ cnt # arr /\ cnt' = (cnt + 1) % (MAX_PERIOD + 1) /\ ccrNow' = ccrNow
  BY DEF ClockTick, Count, Update
<1>4. cnt \in 0 .. MAX_PERIOD /\ MAX_PERIOD \in Nat /\ wait \in 0 .. LoopTicks /\ LoopTicks \in Nat
  BY <1>1, PwmAssumption, LengthsAre DEF PulseTypes
<1>5. (cnt + 1) % (MAX_PERIOD + 1) = IF cnt < MAX_PERIOD THEN cnt + 1 ELSE 0
  BY <1>4
<1>6. cnt' \in 0 .. MAX_PERIOD /\ (cnt' = cnt + 1 \/ cnt' = 0) /\ cnt' \in Nat
  BY <1>3, <1>4, <1>5
<1>7. ASSUME NEW c \in Channels, High(c)
      PROVE  cnt' = cnt + 1 /\ ccrNow' = ccrNow /\ ccrNow[c] \in Nat /\ cnt < ccrNow[c]
  <2>1. /\ cnt < ccrNow[c] /\ ccrNow[c] =< arr /\ cnt + 1 =< MAX_PERIOD
        /\ ccrNow[c] \in Nat /\ arr \in Nat
    BY <1>1, <1>7, HighMeans, LengthsPositive DEF PulseTypes
  <2>2. QED  BY <1>3, <1>4, <1>5, <2>1
<1>8. Asleep' = Asleep /\ Restarts' = Restarts
  BY <1>2 DEF Asleep, Restarts
<1>9. wait' \in 0 .. LoopTicks /\ (~Asleep => wait' = wait) /\ wait' >= wait - 1
  BY <1>2, <1>4
<1>10. PulseTypes'
  <2>1. ccrNow' \in [Channels -> {0} \cup Lengths]
    BY <1>1, <1>3 DEF PulseTypes
  <2>2. width' \in [Channels -> Nat] /\ joined' \in SUBSET Channels
    BY <1>1, <1>2 DEF PulseTypes
  <2>3. QED  BY <1>1, <1>2, <1>6, <1>9, <2>1, <2>2 DEF PulseTypes
<1>11. Reaches'
  BY <1>1, <1>2, <1>3, <1>8, <1>9 DEF Reaches
<1> DEFINE m == Restarts * (Longest - 1)
<1>12. m \in Nat /\ (Restarts * (Longest - 1))' = m
  BY <1>1, <1>8, RestartsAre
<1> HIDE DEF m
<1>13. ASSUME NEW c \in Channels  PROVE Width(c)'
  <2>1. width[c] \in Nat /\ width'[c] = IF High(c) /\ High(c)' THEN width[c] + 1 ELSE 0
    BY <1>1, <1>2 DEF PulseTypes
  <2>2. CASE High(c) /\ High(c)'
    <3>1. cnt' = cnt + 1 /\ width'[c] = width[c] + 1
      BY <1>7, <2>1, <2>2
    <3>2. /\ c \notin joined => width[c] >= cnt
          /\ width[c] =< m + cnt
          /\ Asleep => width[c] =< cnt \/ cnt + wait >= LoopTicks
      BY <1>1, <2>2 DEF Widths, m
    <3>3. c \notin joined' => c \notin joined
      BY <1>2, <2>2
    <3>4. c \notin joined' => width'[c] >= cnt'
      BY <1>4, <2>1, <3>1, <3>2, <3>3
    <3>5. width'[c] =< m + cnt'
      BY <1>4, <1>12, <2>1, <3>1, <3>2
    <3>6. Asleep => width'[c] =< cnt' \/ cnt' + wait' >= LoopTicks
      <4> SUFFICES ASSUME Asleep  PROVE width'[c] =< cnt' \/ cnt' + wait' >= LoopTicks
        OBVIOUS
      <4>1. wait \in Nat /\ wait' \in Nat /\ LoopTicks \in Nat /\ cnt \in Nat
        BY <1>4, <1>9
      <4>2. ASSUME width[c] =< cnt  PROVE width'[c] =< cnt'
        BY <2>1, <3>1, <4>1, <4>2
      <4>3. ASSUME cnt + wait >= LoopTicks  PROVE cnt' + wait' >= LoopTicks
        <5>1. wait' >= wait - 1 /\ cnt' = cnt + 1
          BY <1>9, <3>1
        <5>2. (cnt + 1) + wait' >= LoopTicks
          BY <4>1, <4>3, <5>1, OneMoreOneLess
        <5>3. QED  BY <5>1, <5>2
      <4>4. QED  BY <3>2, <4>2, <4>3
    <3>7. QED  BY <1>8, <1>12, <2>2, <3>4, <3>5, <3>6 DEF Width
  <2>3. CASE ~High(c) /\ High(c)'
    <3>1. width'[c] = 0
      BY <2>1, <2>3
    <3>2. cnt' = 0
      <4>1. CASE cnt = arr
        BY <1>3, <4>1
      <4>2. CASE cnt # arr
        <5>1. ccrNow' = ccrNow /\ cnt' < ccrNow[c] /\ ~(cnt < ccrNow[c]) /\ ccrNow[c] \in Int
          BY <1>1, <1>2, <1>3, <2>3, <4>2, LengthsPositive DEF High, PulseTypes
        <5>2. QED  BY <1>4, <1>6, <5>1
      <4>3. QED  BY <4>1, <4>2
    <3>3. width'[c] >= cnt' /\ width'[c] =< m + cnt' /\ width'[c] =< cnt'
      BY <1>12, <3>1, <3>2
    <3>4. QED  BY <1>12, <2>3, <3>3 DEF Width
  <2>4. CASE ~High(c)'
    BY <2>1, <2>4 DEF Width
  <2>5. QED  BY <2>2, <2>3, <2>4
<1>14. Widths'
  BY <1>13 DEF Widths, Width
<1>15. ASSUME NEW c \in Channels, Ends(c)  PROVE cnt + 1 = ccrNow[c]
  <2>1. High(c) /\ ~High(c)'
    BY <1>15 DEF Ends
  <2>2. /\ cnt' = cnt + 1 /\ ccrNow' = ccrNow /\ ccrNow[c] \in Nat /\ cnt < ccrNow[c]
    BY <1>7, <2>1
  <2>3. ~(cnt + 1 < ccrNow[c])
    BY <1>2, <2>1, <2>2 DEF High
  <2>4. QED  BY <1>4, <2>2, <2>3
<1>16. QED  BY <1>10, <1>11, <1>14, <1>15 DEF PulseInv

(* Every step of the thread and of the timer keeps the invariant, and a    *)
(* line goes low only where the compare value says.                        *)
LEMMA PulseStep ==
  PulseInv /\ [SNext]_pvars
    => PulseInv' /\ \A c \in Channels : Ends(c) => cnt + 1 = ccrNow[c]
<1> SUFFICES ASSUME PulseInv, [SNext]_pvars
             PROVE  PulseInv' /\ \A c \in Channels : Ends(c) => cnt + 1 = ccrNow[c]
  OBVIOUS
<1>1. CASE SetNext
  BY <1>1, SetNextKeeps
<1>2. CASE EnableNext
  BY <1>2, EnableNextKeeps
<1>3. CASE Resume
  BY <1>3, ResumeKeeps
<1>4. CASE SetStep
  BY <1>4, SetStepKeeps
<1>5. CASE ClockTick
  BY <1>5, ClockTickKeeps
<1>6. CASE UNCHANGED pvars
  BY <1>6 DEF pvars, PulseInv, PulseTypes, Reaches, Widths, Restarts, Asleep, High, Ends
<1>7. QED  BY <1>1, <1>2, <1>3, <1>4, <1>5, <1>6 DEF SNext

(* The line that goes low was high for a whole pulse and at most five.     *)
LEMMA EndsWhole ==
  ASSUME PulseInv, NEW c \in Channels, High(c), cnt + 1 = ccrNow[c]
  PROVE  /\ c \notin joined => width[c] + 1 >= Min(Lengths)
         /\ width[c] + 1 =< 5 * Max(Lengths) - 4
<1>1. PulseTypes /\ Reaches /\ Widths
  BY DEF PulseInv
<1> DEFINE m == Restarts * (Longest - 1)
           least == Min(Lengths)
<1>2. (c \notin joined => width[c] >= cnt) /\ width[c] =< m + cnt
  BY <1>1 DEF Widths
<1>3. m \in Nat /\ m =< 4 * (Longest - 1)
  BY <1>1, RestartsAre
<1>4. cnt \in Nat /\ cnt + 1 =< Longest /\ ccrNow[c] \in Lengths
  BY <1>1, HighMeans
<1>5. Longest \in Nat /\ least \in Nat /\ least =< ccrNow[c]
  BY <1>4, LengthsAre
<1>6. width[c] \in Nat
  BY <1>1 DEF PulseTypes
<1> HIDE DEF m, least
<1>7. c \notin joined => width[c] + 1 >= least
  BY <1>2, <1>4, <1>5, <1>6
<1>8. width[c] + 1 =< 5 * Longest - 4
  BY <1>2, <1>3, <1>4, <1>5, <1>6
<1>9. QED  BY <1>7, <1>8 DEF Longest, least

(* PulsesWhole for every period, every set of pulses shorter than the      *)
(* sleep and every preemption of the servo thread: duoji.c's restarts of   *)
(* the period in the middle of a pulse cut none short, and lengthen one to *)
(* at most five.                                                           *)
THEOREM PulsesAreWhole == SSpec => PulsesWhole
<1>1. SInit => PulseInv
  BY PulseInitial
<1>2. PulseInv /\ [SNext]_pvars => PulseInv'
  BY PulseStep
<1>3. PulseInv /\ [SNext]_pvars
        => [\A c \in Channels :
              Ends(c) => /\ c \notin joined => width[c] + 1 >= Min(Lengths)
                         /\ width[c] + 1 =< 5 * Max(Lengths) - 4]_pvars
  BY PulseStep, EndsWhole DEF Ends
<1>4. QED  BY <1>1, <1>2, <1>3, PTL DEF SSpec, PulsesWhole
=============================================================================
