---------------------------- MODULE MotorProofs ----------------------------
(***************************************************************************)
(* For every choice of gains, limits and stick readings: the motor thread  *)
(* is type correct, brakes gently and implements the slew limiter.         *)
(***************************************************************************)
EXTENDS Motor, TLAPS

(* The inductive invariant. Between iterations the drive of each wheel is  *)
(* the speed computed for it; inside one, a wheel still to be programmed   *)
(* lags its new speed by at most Slew; and while its pins are being        *)
(* rewritten either the direction does not change or the old pulse and the *)
(* new one fit in one slew together. Without the PWM device the pulses     *)
(* stay at zero and none of this matters.                                  *)
Busy == pc \in {"firstPin", "secondPin", "setPulse"}

Pending(w) == Busy /\ (wheel = w \/ w = "B")

\* The bridge inputs of w select the direction of its speed.
Towards(w) == IF speed[w] > 0 THEN pin[Plus(w)] = 1 /\ pin[Minus(w)] = 0
                              ELSE pin[Plus(w)] = 0 /\ pin[Minus(w)] = 1

SameWay(w) == Towards(w) /\ Gearbox!Distance(Drive(w), speed[w]) =< Slew
Small(w) == pulse[w] + myabs(speed[w]) =< Slew

Parked(w) == \* the pins of w agree on a direction, or nothing is driven
    pin[Plus(w)] # pin[Minus(w)] \/ (pulse[w] = 0 /\ ~(pin[Plus(w)] = 1))

Lag(w) ==
    /\ ~Pending(w) => Drive(w) = speed[w]
    /\ Pending(w) /\ (pc = "firstPin" \/ wheel # w) =>
          Gearbox!Distance(Drive(w), speed[w]) =< Slew
    /\ pc = "secondPin" /\ wheel = w => SameWay(w) \/ Small(w)
    /\ pc = "setPulse" /\ wheel = w =>
          Towards(w) /\ (SameWay(w) \/ Small(w))

PinsOK(w) ==
    /\ ~(pc = "secondPin" /\ wheel = w) => Parked(w)
    /\ pc = "secondPin" /\ wheel = w =>
          LET write == Direction(w, speed[w])[1] IN pin[write[1]] = write[2]
    /\ pc = "setPulse" /\ wheel = w => Towards(w)

Limit(w) == IF w = "A" THEN LimA ELSE LimB

Bounded(w) == pulse[w] =< Limit(w)

IInv == /\ TypeOK
        /\ speed = Mix(prev)
        /\ \A w \in Wheel : PinsOK(w) /\ Bounded(w)
        /\ pwm_dev => \A w \in Wheel : Lag(w)
        /\ ~pwm_dev => pulse = [w \in Wheel |-> 0]
        /\ pc = "start" => ~pwm_dev /\ speed = [w \in Wheel |-> 0]
                          /\ \A w \in Wheel : Drive(w) = 0

----------------------------------------------------------------------------
(* What the arithmetic of one iteration gives, in the form the proofs use. *)

(* Smooth yields integers only. *)
LEMMA SmoothType == \A raw, last \in Int : Smooth(raw, last) \subseteq Int
  BY DEF Smooth, Fifth

(* One iteration moves usual or delta by at most max_change_rate, and the  *)
(* cap applied after the rate limit cannot make the change larger.         *)
LEMMA FollowBound ==
  ASSUME NEW s \in Int, NEW last \in Int, NEW cap \in Nat, last =< cap
  PROVE  /\ Follow(s, last, cap) \in Int
         /\ Follow(s, last, cap) =< cap
         /\ Follow(s, last, cap) - last \in -max_change_rate .. max_change_rate
  BY MotorAssumption DEF Follow, CapAbove, limit_change

(* Clamping two speeds never moves them further apart. *)
LEMMA ClampContracts ==
  ASSUME NEW a \in Int, NEW b \in Int, NEW k \in Nat, NEW cap \in Nat,
         a - b \in -k .. k
  PROVE  /\ Clamp(a, cap) \in -cap .. cap
         /\ Clamp(b, cap) \in -cap .. cap
         /\ Clamp(a, cap) - Clamp(b, cap) \in -k .. k
  BY DEF Clamp

(* A new pair of filter values moves both mixed speeds by at most Slew. *)
LEMMA MixBound ==
  ASSUME NEW p \in [usual : Int, delta : Int], NEW q \in [usual : Int, delta : Int],
         q.usual - p.usual \in -max_change_rate .. max_change_rate,
         q.delta - p.delta \in -max_change_rate .. max_change_rate
  PROVE  /\ Mix(q) \in [Wheel -> Int]
         /\ \A w \in Wheel : Gearbox!Distance(Mix(p)[w], Mix(q)[w]) =< Slew
         /\ Mix(q)["A"] \in -LimA .. LimA
         /\ Mix(q)["B"] \in -LimB .. LimB
<1>1. Slew \in Nat /\ LimA \in Nat /\ LimB \in Nat
  BY MotorAssumption DEF Slew
<1>2. /\ (q.usual + q.delta) - (p.usual + p.delta) \in -Slew .. Slew
      /\ (q.usual - q.delta) - (p.usual - p.delta) \in -Slew .. Slew
  BY MotorAssumption DEF Slew
<1>3. /\ Clamp(q.usual + q.delta, LimA) \in -LimA .. LimA
      /\ Clamp(p.usual + p.delta, LimA) \in -LimA .. LimA
      /\ Clamp(q.usual + q.delta, LimA) - Clamp(p.usual + p.delta, LimA) \in -Slew .. Slew
  <2>1. q.usual + q.delta \in Int /\ p.usual + p.delta \in Int
    OBVIOUS
  <2>2. QED  BY ONLY <2>1, <1>1, <1>2, ClampContracts
<1>4. /\ Clamp(q.usual - q.delta, LimB) \in -LimB .. LimB
      /\ Clamp(p.usual - p.delta, LimB) \in -LimB .. LimB
      /\ Clamp(q.usual - q.delta, LimB) - Clamp(p.usual - p.delta, LimB) \in -Slew .. Slew
  <2>1. q.usual - q.delta \in Int /\ p.usual - p.delta \in Int
    OBVIOUS
  <2>2. QED  BY ONLY <2>1, <1>1, <1>2, ClampContracts
<1>5. /\ Mix(q)["A"] = Clamp(q.usual + q.delta, LimA)
      /\ Mix(q)["B"] = Clamp(q.usual - q.delta, LimB)
      /\ Mix(p)["A"] = Clamp(p.usual + p.delta, LimA)
      /\ Mix(p)["B"] = Clamp(p.usual - p.delta, LimB)
  BY DEF Mix, Wheel
<1>6. Mix(q) \in [Wheel -> Int]
  BY <1>1, <1>3, <1>4 DEF Mix, Wheel
<1>7. QED
  BY <1>1, <1>3, <1>4, <1>5, <1>6 DEF Wheel, Gearbox!Distance

----------------------------------------------------------------------------
(* Type correctness is inductive by itself.                                *)
LEMMA TypeInductive == TypeOK /\ [Next]_vars => TypeOK'
<1> SUFFICES ASSUME TypeOK, [Next]_vars  PROVE TypeOK'
  OBVIOUS
<1> USE MotorAssumption DEF TypeOK, sticks
<1>1. CASE Start
  BY <1>1 DEF Start
<1>2. CASE ReadLY
  <2>1. (CentreLY - PS2_LY) * GainY \in Int
    OBVIOUS
  <2>2. QED  BY <1>2, <2>1 DEF ReadLY
<1>3. CASE ReadLX
  <2>1. PICK u \in Smooth(usual, prev.usual),
             d \in Smooth((CentreLX - PS2_LX) * GainX, prev.delta) :
               prev' = [usual |-> Follow(u, prev.usual, LimUsual),
                        delta |-> Follow(d, prev.delta, LimDelta)]
    BY <1>3 DEF ReadLX
  <2>2. u \in Int /\ d \in Int
    <3>1. /\ (CentreLX - PS2_LX) * GainX \in Int
          /\ prev.usual \in Int /\ prev.delta \in Int
      OBVIOUS
    <3>2. QED  BY <3>1, SmoothType
  <2>3. /\ prev' \in [usual : Int, delta : Int]
        /\ prev'.usual =< LimUsual /\ prev'.delta =< LimDelta
    BY <2>1, <2>2, FollowBound
  <2>4. Mix(prev') \in [Wheel -> Int]
    BY <2>3 DEF Mix, Clamp, Wheel
  <2>5. QED  BY <1>3, <2>3, <2>4 DEF ReadLX, Wheel
<1>4. CASE FirstPin \/ SecondPin
  <2>1. \A k \in {1, 2} : /\ Direction(wheel, speed[wheel])[k][1] \in Pin
                          /\ Direction(wheel, speed[wheel])[k][2] \in {0, 1}
    BY DEF Direction, A_motor_forward, A_motor_backward, B_motor_forward,
           B_motor_backward, Pin
  <2>2. QED  BY <1>4, <2>1 DEF FirstPin, SecondPin, WritePin
<1>5. CASE SetPulse
  <2>1. myabs(speed[wheel]) \in Nat
    BY DEF myabs
  <2>2. QED  BY <1>5, <2>1 DEF SetPulse, Wheel
<1>6. CASE Wake
  BY <1>6 DEF Wake
<1>7. CASE Publish
  BY <1>7 DEF Publish
<1>8. CASE UNCHANGED vars
  BY <1>8 DEF vars
<1>9. QED
  BY <1>1, <1>2, <1>3, <1>4, <1>5, <1>6, <1>7, <1>8 DEF Next, motor_control

(* Every variable has its type at boot. *)
LEMMA InitTyped == Init => TypeOK
<1> SUFFICES ASSUME Init  PROVE TypeOK
  OBVIOUS
<1>1. pwm_dev \in BOOLEAN
  BY Zenon DEF Init
<1>2. pin \in [Pin -> {0, 1}] /\ speed \in [Wheel -> Int] /\ pulse \in [Wheel -> Nat]
  BY DEF Init
<1>3. /\ prev \in [usual : Int, delta : Int]
      /\ prev.usual =< LimUsual /\ prev.delta =< LimDelta
  BY MotorAssumption DEF Init
<1>4. QED  BY <1>1, <1>2, <1>3, MotorAssumption DEF Init, TypeOK, Wheel

(* Every variable of the motor thread keeps its type, for all constants.   *)
THEOREM MotorTypeCorrect == Spec => []TypeOK
<1>1. Init => TypeOK
  BY InitTyped
<1>2. QED  BY <1>1, TypeInductive, PTL DEF Spec

----------------------------------------------------------------------------
(* The inductive invariant holds at boot: no device yet, nothing driven.   *)
LEMMA InitIInv == Init => IInv
<1> SUFFICES ASSUME Init  PROVE IInv
  OBVIOUS
<1>1. TypeOK
  BY InitTyped
<1>2. ~pwm_dev
  BY Zenon DEF Init
<1>3. pc = "start" /\ speed = [w \in Wheel |-> 0] /\ pulse = [w \in Wheel |-> 0]
  BY DEF Init
<1>4. speed = Mix(prev)
  BY <1>3, MotorAssumption DEF Init, Mix, Clamp, Wheel
<1>5. \A w \in Wheel : PinsOK(w) /\ Bounded(w) /\ Drive(w) = 0
  BY <1>3, MotorAssumption
  DEF Init, PinsOK, Bounded, Drive, Parked, Limit, Plus, Minus, Pin, Wheel
<1>6. QED  BY <1>1, <1>2, <1>3, <1>4, <1>5 DEF IInv

(* One step per action; the pin and pulse steps treat the wheel that is    *)
(* being programmed and the other wheel separately.                        *)
LEMMA NextIInv == IInv /\ [Next]_vars => IInv'
<1> SUFFICES ASSUME IInv, [Next]_vars  PROVE IInv'
  OBVIOUS
<1>0. TypeOK /\ TypeOK'
  BY TypeInductive DEF IInv
<1>1. CASE Start
  <2>1. /\ pulse' = [w \in Wheel |-> 0] /\ speed' = [w \in Wheel |-> 0]
        /\ speed' = Mix(prev)'
        /\ pc' = "readLY"
        /\ \A w \in Wheel : Drive(w)' = 0 /\ PinsOK(w)' /\ Bounded(w)'
    BY <1>1 DEF IInv, Start, Drive, PinsOK, Parked, Bounded, sticks
  <2>2. \A w \in Wheel : Lag(w)'
    BY <2>1 DEF Lag, Pending, Busy
  <2>3. QED  BY <1>0, <2>1, <2>2 DEF IInv
<1>2. CASE ReadLY \/ Wake \/ Publish \/ UNCHANGED vars
  <2>1. UNCHANGED <<wheel, prev, speed, pin, pulse, pwm_dev>>
    BY <1>2 DEF ReadLY, Wake, Publish, vars, sticks
  <2>2. \/ pc' = pc
        \/ /\ pc \in {"readLY", "sleep"}
           /\ pc' \in {"readLX", "readLY"}
    BY <1>2 DEF ReadLY, Wake, Publish, vars
  <2>3. \A w \in Wheel : /\ Drive(w)' = Drive(w)
                         /\ Parked(w)' = Parked(w) /\ Bounded(w)' = Bounded(w)
    BY <2>1 DEF Drive, Parked, Bounded
  <2>4. \A w \in Wheel : PinsOK(w)' 
    BY <2>1, <2>2, <2>3 DEF PinsOK, IInv, Towards
  <2>5. \A w \in Wheel : Lag(w) => Lag(w)' 
    BY <2>1, <2>2, <2>3 DEF Lag, IInv, Towards, Pending, Busy, Small, SameWay
  <2>6. speed' = Mix(prev)' 
    BY <2>1 DEF IInv
  <2>7. QED  BY <1>0, <2>1, <2>2, <2>3, <2>4, <2>5, <2>6 DEF IInv
<1>3. CASE ReadLX
  <2>1. /\ UNCHANGED <<pin, pulse, pwm_dev>>
        /\ pc = "readLX" /\ pc' = "firstPin" /\ wheel' = "A"
        /\ speed' = Mix(prev')
    BY <1>3 DEF ReadLX
  <2>2. \A w \in Wheel : /\ Mix(prev')[w] \in Int
                         /\ Gearbox!Distance(Mix(prev)[w], Mix(prev')[w]) =< Slew
    <3>1. PICK u \in Smooth(usual, prev.usual),
               d \in Smooth((CentreLX - PS2_LX) * GainX, prev.delta) :
                 prev' = [usual |-> Follow(u, prev.usual, LimUsual),
                          delta |-> Follow(d, prev.delta, LimDelta)]
      BY <1>3 DEF ReadLX
    <3>2. u \in Int /\ d \in Int
      <4>1. /\ (CentreLX - PS2_LX) * GainX \in Int
            /\ usual \in Int /\ prev.usual \in Int /\ prev.delta \in Int
        BY <1>0, MotorAssumption DEF TypeOK
      <4>2. QED  BY <4>1, SmoothType
    <3>3. /\ prev' \in [usual : Int, delta : Int]
          /\ prev'.usual - prev.usual \in -max_change_rate .. max_change_rate
          /\ prev'.delta - prev.delta \in -max_change_rate .. max_change_rate
      BY <1>0, <3>1, <3>2, FollowBound, MotorAssumption DEF TypeOK
    <3>4. prev \in [usual : Int, delta : Int]
      BY <1>0 DEF TypeOK
    <3>5. QED  BY <3>3, <3>4, MixBound
  <2>3. \A w \in Wheel : /\ Drive(w)' = Drive(w)
                         /\ Parked(w)' = Parked(w) /\ Bounded(w)' = Bounded(w)
    BY <2>1 DEF Drive, Parked, Bounded
  <2>4. \A w \in Wheel : PinsOK(w)'
    BY <2>1, <2>3 DEF PinsOK, IInv
  <2>5. \A w \in Wheel : Lag(w) => Lag(w)'
    <3>1. \A w \in Wheel : Lag(w) => Drive(w) = Mix(prev)[w]
      BY <2>1 DEF Lag, Pending, Busy, IInv
    <3>2. \A w \in Wheel : Lag(w) => Gearbox!Distance(Drive(w)', speed[w]') =< Slew
      BY <2>1, <2>2, <2>3, <3>1
    <3>3. QED  BY <2>1, <3>2 DEF Lag, Pending, Busy, Wheel
  <2>6. QED  BY <1>0, <2>1, <2>3, <2>4, <2>5 DEF IInv
<1>4. CASE FirstPin
  <2>1. /\ UNCHANGED <<wheel, prev, speed, pulse, pwm_dev>>
        /\ pc = "firstPin" /\ pc' = "secondPin"
    BY <1>4 DEF FirstPin, WritePin
  <2>2. \A w \in Wheel : Bounded(w)'
    BY <2>1 DEF Bounded, IInv
  <2>3. \A w \in Wheel : w # wheel => /\ pin[Plus(w)]' = pin[Plus(w)]
                                      /\ pin[Minus(w)]' = pin[Minus(w)]
    BY <1>0, <1>4 DEF FirstPin, WritePin, Direction, A_motor_forward, A_motor_backward,
         B_motor_forward, B_motor_backward, Plus, Minus, Wheel, TypeOK, Pin
  <2>4. \A w \in Wheel : PinsOK(w)'
    BY <1>0, <1>4, <2>1, <2>3
    DEF FirstPin, WritePin, Direction, A_motor_forward, A_motor_backward,
         B_motor_forward, B_motor_backward, Wheel, TypeOK, Pin, PinsOK, Parked, IInv
  <2>5. \A w \in Wheel \ {wheel} : Lag(w) => Lag(w)'
    BY <1>0, <2>1, <2>3 DEF Lag, Pending, Busy, Drive, TypeOK
  <2>6. Lag(wheel) => Lag(wheel)'
    <3>1. CASE wheel = "A"
      BY <1>0, <1>4, <2>1, <3>1
      DEF Lag, Pending, Busy, Drive, TypeOK, FirstPin, WritePin, Direction,
          A_motor_forward, A_motor_backward, Small, SameWay, Towards, myabs,
          Gearbox!Distance, Plus, Minus, Wheel, Pin, PinsOK, Parked, IInv
    <3>2. CASE wheel = "B"
      BY <1>0, <1>4, <2>1, <3>2
      DEF Lag, Pending, Busy, Drive, TypeOK, FirstPin, WritePin, Direction,
          B_motor_forward, B_motor_backward, Small, SameWay, Towards, myabs,
          Gearbox!Distance, Plus, Minus, Wheel, Pin, PinsOK, Parked, IInv
    <3>3. QED  BY <1>0, <3>1, <3>2 DEF TypeOK, Wheel
  <2>7. speed' = Mix(prev)'
    BY <2>1 DEF IInv
  <2>8. QED  BY <1>0, <2>1, <2>2, <2>4, <2>5, <2>6, <2>7 DEF IInv, TypeOK
<1>5. CASE SecondPin
  <2>1. /\ UNCHANGED <<wheel, prev, speed, pulse, pwm_dev>>
        /\ pc = "secondPin" /\ pc' = "setPulse"
    BY <1>5 DEF SecondPin, WritePin
  <2>2. \A w \in Wheel : Bounded(w)'
    BY <2>1 DEF Bounded, IInv
  <2>3. \A w \in Wheel : w # wheel => /\ pin[Plus(w)]' = pin[Plus(w)]
                                      /\ pin[Minus(w)]' = pin[Minus(w)]
    BY <1>0, <1>5 DEF SecondPin, WritePin, Direction, A_motor_forward, A_motor_backward,
         B_motor_forward, B_motor_backward, Plus, Minus, Wheel, TypeOK, Pin
  <2>4. Towards(wheel)'
    <3>1. CASE wheel = "A"
      BY <1>0, <1>5, <2>1, <3>1
      DEF TypeOK, SecondPin, WritePin, Direction, A_motor_forward, A_motor_backward, 
      Towards, Plus, Minus, Wheel, Pin, PinsOK, IInv
    <3>2. CASE wheel = "B"
      BY <1>0, <1>5, <2>1, <3>2
      DEF TypeOK, SecondPin, WritePin, Direction, B_motor_forward, B_motor_backward, 
      Towards, Plus, Minus, Wheel, Pin, PinsOK, IInv
    <3>3. QED  BY <1>0, <3>1, <3>2 DEF TypeOK, Wheel
  <2>5. \A w \in Wheel : PinsOK(w)'
    BY <1>0, <2>1, <2>3, <2>4 DEF Wheel, TypeOK, PinsOK, Parked, Towards, IInv
  <2>6. \A w \in Wheel \ {wheel} : Lag(w) => Lag(w)'
    BY <1>0, <2>1, <2>3 DEF Lag, Pending, Busy, Drive, TypeOK
  <2>7. Lag(wheel) => Lag(wheel)'
    <3>1. SameWay(wheel) => SameWay(wheel)'
      BY <1>0, <2>1, <2>4 DEF SameWay, Towards, Drive, TypeOK
    <3>2. Small(wheel) => Small(wheel)'
      BY <2>1 DEF Small
    <3>3. QED  BY <2>1, <2>4, <3>1, <3>2 DEF Lag, Pending, Busy
  <2>8. speed' = Mix(prev)'
    BY <2>1 DEF IInv
  <2>9. QED  BY <1>0, <2>1, <2>2, <2>5, <2>6, <2>7, <2>8 DEF IInv, TypeOK
<1>6. CASE SetPulse
  <2>1. UNCHANGED <<prev, speed, pin, pwm_dev>> /\ pc = "setPulse"
    BY <1>6 DEF SetPulse
  <2>2. \/ wheel = "A" /\ pc' = "firstPin" /\ wheel' = "B"
        \/ wheel = "B" /\ pc' = "sleep" /\ wheel' = "B"
    BY <1>0, <1>6 DEF SetPulse, TypeOK, Wheel
  <2>3. \A w \in Wheel : PinsOK(w) /\ Bounded(w)
    BY DEF IInv
  <2>4. Towards(wheel)
    BY <1>0, <2>1, <2>3 DEF PinsOK, TypeOK
  <2>5. CASE pwm_dev
    <3>1. pulse' = [pulse EXCEPT ![wheel] = myabs(speed[wheel])]
      BY <1>6, <2>5 DEF SetPulse
    <3>2. myabs(speed[wheel]) =< Limit(wheel)
      <4>1. prev \in [usual : Int, delta : Int] /\ wheel \in Wheel
        BY <1>0 DEF TypeOK
      <4>2. Mix(prev)["A"] \in -LimA .. LimA /\ Mix(prev)["B"] \in -LimB .. LimB
        BY <4>1, MixBound, MotorAssumption
      <4>3. speed = Mix(prev)
        BY DEF IInv
      <4>4. QED  BY <4>1, <4>2, <4>3, MotorAssumption DEF myabs, Limit, Wheel
    <3>3. \A w \in Wheel : Bounded(w)'
      BY <1>0, <2>3, <3>1, <3>2 DEF Bounded, TypeOK
    <3>4. \A w \in Wheel : Parked(w)
      BY <2>1, <2>3 DEF PinsOK
    <3>5. \A w \in Wheel : PinsOK(w)'
      BY <1>0, <2>1, <2>2, <2>4, <3>1, <3>4 DEF PinsOK, Parked, Wheel, TypeOK, Towards
    <3>6. \A w \in Wheel : w = wheel => Drive(w)' = speed[w]
      BY <1>0, <2>1, <2>4, <3>1 DEF Drive, Towards, myabs, TypeOK
    <3>7. \A w \in Wheel : Lag(w)
      BY <2>5 DEF IInv
    <3>8. \A w \in Wheel : Lag(w)'
      BY <1>0, <2>1, <2>2, <3>1, <3>6, <3>7 DEF Lag, Drive, Pending, Busy, Wheel, TypeOK
    <3>9. QED  BY <1>0, <2>1, <2>2, <2>5, <3>3, <3>5, <3>8 DEF IInv
  <2>6. CASE ~pwm_dev
    <3>1. pulse' = pulse
      BY <1>6, <2>6 DEF SetPulse
    <3>2. \A w \in Wheel : Bounded(w)' /\ Parked(w)' = Parked(w)
      BY <2>1, <2>3, <3>1 DEF Bounded, Parked
    <3>3. \A w \in Wheel : PinsOK(w)'
      BY <1>0, <2>1, <2>2, <2>3, <3>2 DEF PinsOK, Wheel
    <3>4. QED  BY <1>0, <2>1, <2>2, <2>6, <3>1, <3>2, <3>3 DEF IInv
  <2>7. QED  BY <2>5, <2>6
<1>7. QED
  BY <1>1, <1>2, <1>3, <1>4, <1>5, <1>6 DEF Next, motor_control

(* Neither wheel is ever braked at more than one slew of pulse: B's brake  *)
(* is the step inside B_motor_backward, and there the inductive invariant  *)
(* leaves only the case in which old and new pulse are small.              *)
THEOREM MotorBrakeIsGentle == Spec => []BrakeIsGentle
<1>1. IInv => BrakeIsGentle
  <2> SUFFICES ASSUME IInv  PROVE BrakeIsGentle
    OBVIOUS
  <2>0. TypeOK /\ PinsOK("A") /\ PinsOK("B")
    BY DEF IInv, Wheel
  <2>1. ~(pin["AIN1"] = 1 /\ pin["AIN2"] = 1)
    BY <2>0 DEF TypeOK, PinsOK, Parked, Plus, Minus, Direction, A_motor_forward,
      A_motor_backward, Pin
  <2>2. ASSUME pin["BIN1"] = 1, pin["BIN2"] = 1
        PROVE  /\ pc = "secondPin" /\ wheel = "B"
               /\ pwm_dev => pulse["B"] + myabs(speed["B"]) =< Slew
               /\ ~pwm_dev => pulse["B"] = 0
    <3>1. pc = "secondPin" /\ wheel = "B"
      BY <2>0, <2>2 DEF TypeOK, PinsOK, Parked, Plus, Minus
    <3>2. ~Towards("B")
      BY <2>2 DEF Towards, Plus, Minus
    <3>3. pwm_dev => Lag("B")
      BY DEF IInv, Wheel
    <3>4. ~pwm_dev => pulse["B"] = 0
      BY DEF IInv, Wheel
    <3>5. QED  BY <3>1, <3>2, <3>3, <3>4 DEF Lag, SameWay, Small
  <2>3. Slew \in Nat /\ pulse["B"] \in Nat
    BY <2>0, MotorAssumption DEF Slew, TypeOK, Wheel
  <2>4. QED
    <3>1. CASE pwm_dev
      BY <2>1, <2>2, <3>1 DEF BrakeIsGentle
    <3>2. CASE ~pwm_dev
      BY <2>1, <2>2, <2>3, <3>2 DEF BrakeIsGentle
    <3>3. QED  BY <3>1, <3>2
<1>2. QED  BY <1>1, InitIInv, NextIInv, PTL DEF Spec

----------------------------------------------------------------------------
(* Refinement.                                                             *)

drive == [w \in Wheel |-> Drive(w)]

(* A step of the program moves the drive of one wheel at most, the one     *)
(* motor_pwm_set is programming, by at most Slew and within its limit.     *)
LEMMA StepMoves ==
  ASSUME IInv, IInv', [Next]_vars
  PROVE  \/ drive' = drive
         \/ \E w \in Wheel :
              /\ drive'[w] \in -Limit(w) .. Limit(w)
              /\ Gearbox!Distance(drive[w], drive'[w]) =< Slew
              /\ drive' = [drive EXCEPT ![w] = drive'[w]]
<1>0. /\ TypeOK /\ TypeOK' /\ Slew \in Nat /\ LimA \in Nat /\ LimB \in Nat
      /\ wheel \in Wheel
  BY MotorAssumption DEF IInv, Slew, TypeOK
<1>1. CASE Start \/ ReadLY \/ ReadLX \/ Wake \/ Publish \/ UNCHANGED vars
  <2>1. UNCHANGED <<pin, pulse>>
    BY <1>1 DEF Start, ReadLY, ReadLX, Wake, Publish, vars, sticks
  <2>2. QED  BY <2>1 DEF drive, Drive
<1>2. CASE FirstPin \/ SecondPin \/ SetPulse
  <2>1. \A w \in Wheel : Drive(w) \in Int /\ Drive(w)' \in -Limit(w) .. Limit(w)
    BY <1>0 DEF IInv, Bounded, Drive, TypeOK, Limit, Plus, Minus, Wheel, Pin
  <2>2. \A w \in Wheel : w # wheel => Drive(w)' = Drive(w)
    BY <1>0, <1>2 DEF FirstPin, SecondPin, SetPulse, WritePin, Direction, A_motor_forward,
      A_motor_backward, B_motor_forward, B_motor_backward, Drive, Plus, Minus, Wheel, TypeOK, Pin
  <2>3. \A w \in Wheel : w = wheel => Gearbox!Distance(Drive(w), Drive(w)') =< Slew
    <3>0. \A w \in Wheel : PinsOK(w) /\ PinsOK(w)'
      BY DEF IInv
    <3>1. CASE ~pwm_dev
      <4>1. pulse = [w \in Wheel |-> 0] /\ pulse' = pulse
        BY <1>2, <3>1 DEF IInv, FirstPin, SecondPin, SetPulse, WritePin
      <4>2. QED  BY <1>0, <4>1 DEF Drive, Gearbox!Distance
    <3>2. CASE pwm_dev
      <4>1. Lag(wheel)
        BY <1>0, <3>2 DEF IInv
      <4>2. CASE FirstPin
        <5>1. CASE wheel = "A"
          BY <1>0, <3>0, <4>1, <4>2, <5>1
          DEF Lag, Pending, Busy, Drive, TypeOK, FirstPin, WritePin, Direction,
              A_motor_forward, A_motor_backward, Gearbox!Distance, Plus, Minus,
              Wheel, Pin, PinsOK, Parked
        <5>2. CASE wheel = "B"
          BY <1>0, <3>0, <4>1, <4>2, <5>2
          DEF Lag, Pending, Busy, Drive, TypeOK, FirstPin, WritePin, Direction,
              B_motor_forward, B_motor_backward, Gearbox!Distance, Plus, Minus,
              Wheel, Pin, PinsOK, Parked
        <5>3. QED  BY <1>0, <5>1, <5>2 DEF Wheel
      <4>3. CASE SecondPin
        <5>1. CASE wheel = "A"
          BY <1>0, <3>0, <4>1, <4>3, <5>1
          DEF Lag, Drive, TypeOK, SecondPin, WritePin, Direction, SameWay, Small,
              Towards, myabs, A_motor_forward, A_motor_backward, Gearbox!Distance,
              Plus, Minus, Wheel, Pin, PinsOK
        <5>2. CASE wheel = "B"
          BY <1>0, <3>0, <4>1, <4>3, <5>2
          DEF Lag, Drive, TypeOK, SecondPin, WritePin, Direction, SameWay, Small,
              Towards, myabs, B_motor_forward, B_motor_backward, Gearbox!Distance,
              Plus, Minus, Wheel, Pin, PinsOK
        <5>3. QED  BY <1>0, <5>1, <5>2 DEF Wheel
      <4>4. CASE SetPulse
        <5>1. /\ pulse' = [pulse EXCEPT ![wheel] = myabs(speed[wheel])]
              /\ pin' = pin /\ pc = "setPulse"
          BY <3>2, <4>4 DEF SetPulse
        <5>2. Towards(wheel) /\ (SameWay(wheel) \/ Small(wheel))
          BY <4>1, <5>1 DEF Lag
        <5>3. QED
          BY <1>0, <5>1, <5>2
          DEF Drive, TypeOK, SameWay, Small, Towards, myabs, Gearbox!Distance
      <4>5. QED  BY <1>2, <4>2, <4>3, <4>4
    <3>3. QED  BY <3>1, <3>2
  <2>4. QED
    <3>1. /\ drive'[wheel] \in -Limit(wheel) .. Limit(wheel)
          /\ Gearbox!Distance(drive[wheel], drive'[wheel]) =< Slew
      BY <1>0, <2>1, <2>3 DEF drive
    <3>2. drive' = [drive EXCEPT ![wheel] = drive'[wheel]]
      BY <1>0, <2>2 DEF drive
    <3>3. QED  BY <1>0, <3>1, <3>2
<1>3. QED
  BY <1>1, <1>2 DEF Next, motor_control

(* The motor thread implements the slew limiter, for all gains and limits. *)
THEOREM MotorImplementsSlewLimiter == Spec => ImplementsSlewLimiter
<1>1. Init => Gearbox!Init
  BY DEF Init, Gearbox!Init, Drive, Plus, Minus, Wheel, Pin
<1>2. IInv /\ IInv' /\ [Next]_vars => [Gearbox!Next]_drive
  <2> SUFFICES ASSUME IInv, IInv', [Next]_vars  PROVE [Gearbox!Next]_drive
    OBVIOUS
  <2>1. CASE drive' = drive
    BY <2>1
  <2>2. ASSUME NEW w \in Wheel,
               drive'[w] \in -Limit(w) .. Limit(w),
               Gearbox!Distance(drive[w], drive'[w]) =< Slew,
               drive' = [drive EXCEPT ![w] = drive'[w]]
        PROVE  Gearbox!Next
    BY <2>2 DEF Gearbox!Next, Gearbox!Move, drive, Limit
  <2>3. QED  BY <2>1, <2>2, StepMoves
<1>3. QED
  BY <1>1, <1>2, InitIInv, NextIInv, PTL
  DEF Spec, ImplementsSlewLimiter, Gearbox!Spec, drive
=============================================================================
