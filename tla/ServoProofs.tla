---------------------------- MODULE ServoProofs ----------------------------
(***************************************************************************)
(* For every range, gain, hold and word size that satisfies the assumption *)
(* of Servo: the servo thread is type correct, keeps both servos inside    *)
(* their range and never makes them jump.                                  *)
(***************************************************************************)
EXTENDS Servo, TLAPS

(* The target of a servo is in range; it is where the channel is, or home  *)
(* (a home command was taken and not yet sent), or, between the arithmetic *)
(* and rt_pwm_set, at most one step away from one of the two. Only servo 1 *)
(* can be caught in between: servo 2 is computed and sent in one step.     *)
Target(s) ==
    \/ pulse[s] = out[s]
    \/ pulse[s] = Home[s]
    \/ /\ s = 1 /\ pc = "speedX"
       /\ \/ Distance(out[s], pulse[s]) =< MaxStep
          \/ Distance(Home[s], pulse[s]) =< MaxStep

IInv == /\ TypeOK
        /\ InRange
        /\ pc = "start" => ~pwm_dev
        /\ pwm_dev => \A s \in Servos : Target(s)

----------------------------------------------------------------------------
(* A stick step is an integer of at most MaxStep. *)
LEMMA StepBound ==
  ASSUME NEW d \in -Reach .. Reach
  PROVE  d * Gain \in -MaxStep .. MaxStep
<1>1. Reach \in Nat /\ Gain \in Nat /\ d \in Int /\ d =< Reach /\ -Reach =< d
  BY ServoAssumption
<1>2. d * Gain =< Reach * Gain /\ (-Reach) * Gain =< d * Gain
  BY <1>1
<1>3. (-Reach) * Gain = -(Reach * Gain) /\ d * Gain \in Int /\ Reach * Gain \in Int
  BY <1>1
<1>4. QED  BY <1>2, <1>3 DEF MaxStep

(* The longest move is a natural number. *)
LEMMA MaxStepNat == MaxStep \in Nat
  BY ServoAssumption DEF MaxStep

(* A number below the modulus is its own remainder. *)
LEMMA ModSmall ==
  ASSUME NEW a \in Nat, NEW m \in Nat, a < m
  PROVE  a % m = a
  OBVIOUS

(* The range check keeps the pulse in range, and because the range keeps   *)
(* its distance from 0 and from Word, the unsigned sum never wraps.        *)
LEMMA MovedBound ==
  ASSUME TypeOK, InRange, NEW s \in Servos, NEW v \in -MaxStep .. MaxStep
  PROVE  /\ Moved(s, v) \in Nat
         /\ Lo < Moved(s, v) /\ Moved(s, v) < Hi
         /\ Distance(pulse[s], Moved(s, v)) =< MaxStep
<1>1. /\ pulse[s] \in Nat /\ Lo < pulse[s] /\ pulse[s] < Hi
      /\ Lo \in Nat /\ Hi \in Nat /\ Word \in Nat /\ MaxStep \in Nat
      /\ MaxStep =< Lo /\ Hi + MaxStep =< Word
  BY ServoAssumption, MaxStepNat DEF TypeOK, InRange
<1>2. v + pulse[s] \in Nat /\ v + pulse[s] < Word
  BY <1>1
<1>3. (v + pulse[s]) % Word = v + pulse[s]
  BY <1>1, <1>2, ModSmall
<1>4. QED  BY <1>1, <1>2, <1>3 DEF Moved, Distance

(* The inductive invariant holds at boot: the device is not yet known. *)
LEMMA InitIInv == Init => IInv
<1> SUFFICES ASSUME Init  PROVE IInv
  OBVIOUS
<1>1. ~pwm_dev /\ pwm_dev \in BOOLEAN
  BY Zenon DEF Init
<1>2. TypeOK
  BY <1>1, ServoAssumption DEF Init, TypeOK
<1>3. InRange
  BY <1>1, ServoAssumption DEF Init, InRange
<1>4. QED  BY <1>1, <1>2, <1>3 DEF IInv

(* Every step of the servo thread and every new reading preserves it. *)
LEMMA NextIInv == IInv /\ [Next]_vars => IInv'
<1> SUFFICES ASSUME IInv, [Next]_vars  PROVE IInv'
  OBVIOUS
<1>0. TypeOK /\ InRange /\ MaxStep \in Nat
  BY MaxStepNat DEF IInv
<1>1. CASE pwm_init
  <2>1. /\ pulse' = pulse /\ pc = "start" /\ pc' = "readKey" /\ ps2_flag' = ps2_flag
        /\ pwm_dev' \in BOOLEAN
        /\ out' = IF pwm_dev' THEN pulse ELSE out
    BY <1>1 DEF pwm_init, rt_pwm_set
  <2>2. out' \in [Servos -> Nat] /\ (pwm_dev' => out' = pulse)
    BY <1>0, <2>1 DEF TypeOK
  <2>3. TypeOK'
    BY <1>0, <1>1, <2>1, <2>2 DEF TypeOK, pwm_init, pad
  <2>4. InRange'
    BY <1>0, <2>1, <2>2 DEF InRange
  <2>5. QED  BY <2>1, <2>2, <2>3, <2>4 DEF IInv, Target
<1>2. CASE ReadKey
  <2>1. UNCHANGED <<out, pwm_dev>> /\ pc = "readKey" /\ pc' = "gateX"
    BY <1>2 DEF ReadKey
  <2>2. i' \in 0 .. Hold
    BY <1>0, <1>2, ServoAssumption DEF ReadKey, CountHold, HoldOver, TypeOK
  <2>3. \/ pulse' = Home /\ ps2_flag' = 1
        \/ pulse' = pulse /\ (ps2_flag' = 0 \/ ps2_flag' = ps2_flag)
    BY <1>2 DEF ReadKey
  <2>4. TypeOK'
    BY <1>0, <1>2, <2>1, <2>2, <2>3, ServoAssumption DEF TypeOK, ReadKey, pad
  <2>5. InRange'
    BY <1>0, <2>1, <2>3, ServoAssumption DEF InRange, TypeOK
  <2>6. pwm_dev => \A s \in Servos : Target(s)'
    BY <2>1, <2>3, <1>0 DEF IInv, Target
  <2>7. QED  BY <2>1, <2>4, <2>5, <2>6 DEF IInv
<1>3. CASE GateX \/ Publish \/ UNCHANGED vars
  <2>1. UNCHANGED <<out, pwm_dev, pulse, ps2_flag, i>>
    BY <1>3 DEF GateX, Publish, vars
  <2>2. \/ pc' = pc
        \/ pc = "gateX" /\ pc' = "readKey"
        \/ pc = "gateX" /\ pc' = "gateY" /\ ps2_flag = 0
    BY <1>3 DEF GateX, Publish, vars
  <2>3. TypeOK'
    BY <1>0, <1>3, <2>1, <2>2 DEF TypeOK, GateX, Publish, vars, pad
  <2>4. InRange'
    BY <1>0, <2>1, <2>2 DEF InRange, TypeOK
  <2>5. pwm_dev => \A s \in Servos : Target(s)'
    BY <2>1, <2>2 DEF IInv, Target
  <2>6. QED  BY <2>1, <2>2, <2>3, <2>4, <2>5 DEF IInv
<1>4. CASE GateY \/ SpeedY
  <2>1. UNCHANGED <<out, pwm_dev, ps2_flag, i, pad>> /\ pc \in {"gateY", "speedY"}
        /\ ps2_flag = 0
    BY <1>0, <1>4 DEF GateY, SpeedY, InRange, TypeOK
  <2>2. \/ pulse' = pulse /\ pc' = "speedY"
        \/ \E v \in -MaxStep .. MaxStep :
              pulse' = [pulse EXCEPT ![1] = Moved(1, v)] /\ pc' = "speedX"
    <3>1. 0 \in -MaxStep .. MaxStep /\ (CentreY - PS2_RY) * Gain \in -MaxStep .. MaxStep
      BY <1>0, StepBound, ServoAssumption DEF TypeOK
    <3>2. QED  BY <1>4, <3>1 DEF GateY, SpeedY
  <2>3. CASE pulse' = pulse /\ pc' = "speedY"
    <3>1. TypeOK' /\ InRange'
      BY <1>0, <2>1, <2>3 DEF TypeOK, InRange, pad
    <3>2. pwm_dev => \A s \in Servos : Target(s)'
      BY <2>1, <2>3 DEF IInv, Target
    <3>3. QED  BY <2>1, <2>3, <3>1, <3>2 DEF IInv
  <2>4. ASSUME NEW v \in -MaxStep .. MaxStep,
               pulse' = [pulse EXCEPT ![1] = Moved(1, v)], pc' = "speedX"
        PROVE  IInv'
    <3>1. /\ Moved(1, v) \in Nat
          /\ Lo < Moved(1, v) /\ Moved(1, v) < Hi
          /\ Distance(pulse[1], Moved(1, v)) =< MaxStep
      BY <1>0, MovedBound DEF Servos
    <3>2. pulse' \in [Servos -> Nat] /\ pulse'[1] = Moved(1, v) /\ pulse'[2] = pulse[2]
      BY <1>0, <2>4, <3>1 DEF TypeOK, Servos
    <3>3. TypeOK' /\ InRange'
      BY <1>0, <2>1, <2>4, <3>1, <3>2 DEF TypeOK, InRange, pad, Servos
    <3>4. pwm_dev => \A s \in Servos : Target(s)'
      BY <2>1, <2>4, <3>1, <3>2 DEF IInv, Target, Servos
    <3>5. QED  BY <2>1, <2>4, <3>3, <3>4 DEF IInv
  <2>5. QED  BY <2>2, <2>3, <2>4
<1>5. CASE SpeedX
  <2>1. /\ UNCHANGED <<pwm_dev, ps2_flag, i, pad>> /\ pc = "speedX" /\ pc' = "readKey"
        /\ pulse' = [pulse EXCEPT ![2] = Moved(2, (CentreX - PS2_RX) * Gain)]
        /\ pwm_dev => out' = pulse'
        /\ ~pwm_dev => out' = out
    BY <1>5 DEF SpeedX, rt_pwm_set
  <2>2. (CentreX - PS2_RX) * Gain \in -MaxStep .. MaxStep
    BY <1>0, StepBound, ServoAssumption DEF TypeOK
  <2>3. /\ Moved(2, (CentreX - PS2_RX) * Gain) \in Nat
        /\ Lo < Moved(2, (CentreX - PS2_RX) * Gain)
        /\ Moved(2, (CentreX - PS2_RX) * Gain) < Hi
    BY <1>0, <2>2, MovedBound DEF Servos
  <2>4. /\ pulse' \in [Servos -> Nat]
        /\ \A s \in Servos : Lo < pulse'[s] /\ pulse'[s] < Hi
    BY <1>0, <2>1, <2>3 DEF TypeOK, InRange, Servos
  <2>5. ps2_flag = 0
    BY <1>0, <2>1 DEF InRange, TypeOK
  <2>6. CASE pwm_dev
    <3>1. TypeOK' /\ InRange'
      BY <1>0, <2>1, <2>4, <2>5, <2>6 DEF TypeOK, InRange, pad
    <3>2. QED  BY <2>1, <2>6, <3>1 DEF IInv, Target
  <2>7. CASE ~pwm_dev
    <3>1. TypeOK' /\ InRange'
      BY <1>0, <2>1, <2>4, <2>5, <2>7 DEF TypeOK, InRange, pad
    <3>2. QED  BY <2>1, <2>7, <3>1 DEF IInv
  <2>8. QED  BY <2>6, <2>7
<1>6. QED
  BY <1>1, <1>2, <1>3, <1>4, <1>5 DEF Next, duoji_handle

(* The variables of the servo thread keep their types, for all constants.  *)
THEOREM ServoTypeCorrect == Spec => []TypeOK
  BY InitIInv, NextIInv, PTL DEF Spec, IInv

(* Neither target nor channel of a servo ever reaches an end of its range, *)
(* although the code adds a signed speed to an unsigned pulse and reads    *)
(* each stick twice.                                                       *)
THEOREM ServoInRange == Spec => []InRange
  BY InitIInv, NextIInv, PTL DEF Spec, IInv

(* One step of the program reprograms a channel by at most one stick step, *)
(* or to within one stick step of home.                                    *)
THEOREM ServoMovesSmoothly == Spec => MovesSmoothly
<1>1. IInv /\ IInv' /\ [Next]_vars => [pc # "start" => NoJump]_vars
  <2> SUFFICES ASSUME IInv, [Next]_vars, pc # "start"  PROVE NoJump
    OBVIOUS
  <2>0. TypeOK /\ InRange /\ MaxStep \in Nat
    BY MaxStepNat DEF IInv
  <2>1. CASE out' = out
    BY <2>0, <2>1 DEF NoJump, Distance, TypeOK
  <2>2. CASE SpeedX /\ pwm_dev
    <3>1. /\ pulse' = [pulse EXCEPT ![2] = Moved(2, (CentreX - PS2_RX) * Gain)]
          /\ out' = pulse'
      BY <2>2 DEF SpeedX, rt_pwm_set
    <3>2. \A s \in Servos : Target(s)
      BY <2>2 DEF IInv
    <3>3. (CentreX - PS2_RX) * Gain \in -MaxStep .. MaxStep
      BY <2>0, StepBound, ServoAssumption DEF TypeOK
    <3>4. Distance(pulse[2], Moved(2, (CentreX - PS2_RX) * Gain)) =< MaxStep
      BY <2>0, <3>3, MovedBound DEF Servos
    <3>5. /\ out'[1] = pulse[1]
          /\ Distance(pulse[2], out'[2]) =< MaxStep
      BY <2>0, <3>1, <3>4 DEF TypeOK, Servos
    <3>6. \A s \in Servos : pulse[s] \in Nat /\ Home[s] \in Nat
      BY <2>0, ServoAssumption DEF TypeOK
    <3>7. QED  BY <2>0, <3>2, <3>5, <3>6 DEF NoJump, Target, Distance, Servos
  <2>3. QED
    BY <2>1, <2>2
    DEF Next, duoji_handle, pwm_init, ReadKey, GateX, GateY, SpeedY, SpeedX,
        Publish, vars, rt_pwm_set
<1>2. QED  BY <1>1, InitIInv, NextIInv, PTL DEF Spec, MovesSmoothly
=============================================================================
