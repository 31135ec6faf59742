------------------------------- MODULE Motor -------------------------------
(***************************************************************************)
(* The motor thread (applications/motor.c): every 10 ms it reads the left  *)
(* stick, smooths and rate-limits it, mixes it into two wheel speeds and   *)
(* programs the H-bridge pins and the PWM pulse of wheel A, then wheel B.  *)
(* It runs at priority 9, so the gamepad thread (priority 8), the alarm    *)
(* threads (7) and the interrupts can run between any two of its accesses  *)
(* to a shared location; each such access is an action of its own.         *)
(***************************************************************************)
EXTENDS MotorTuning

VARIABLES PS2_LX, PS2_LY,   \* globals of ps2.c, written by the gamepad thread
          pc,               \* where the motor thread is
          wheel,            \* the wheel motor_pwm_set is programming
          usual,            \* the scaled LY reading, before it is smoothed
          prev,             \* prev_usual and prev_delta
          speed,            \* speeda and speedb
          pin,              \* levels of the four H-bridge inputs
          pulse,            \* the pulse last given to each PWM channel
          pwm_dev           \* did rt_device_find find "pwm1"?

sticks == <<PS2_LX, PS2_LY>>
vars == <<PS2_LX, PS2_LY, pc, wheel, usual, prev, speed, pin, pulse, pwm_dev>>

Wheel == {"A", "B"}
Pin == {"AIN1", "AIN2", "BIN1", "BIN2"}

----------------------------------------------------------------------------
(* The arithmetic of one iteration.                                        *)

\* A definition named <definition>_<slip> is a plausible mistake in the code of
\* <definition>. No specification uses it: the runs must tell the two apart.
myabs_Dropped(a) == a
myabs(a) == IF a < 0 THEN -a ELSE a

\* Floor, as a right shift or floorf would give, in place of truncation.
Fifth_Floor(s) == s \div 5
Fifth(s) == IF s >= 0 THEN s \div 5 ELSE -((-s) \div 5)

\* alpha * raw + (1 - alpha) * last with alpha = 0.2, converted to int. The
\* sum is computed in float: its error is below 0.1 for every value the
\* sticks can produce, so the truncated result can differ from the exact one
\* only where the exact value is an integer, and then by one towards zero.
Smooth(raw, last) ==
    LET s == raw + 4 * last
        q == Fifth(s)
    IN {q} \cup (IF s % 5 # 0 \/ s = 0 THEN {}
                 ELSE IF s > 0 THEN {q - 1} ELSE {q + 1})

\* The test for a large negative change is missing.
limit_change_UpOnly(change) ==
    IF change > max_change_rate THEN max_change_rate ELSE change

\* The second return repeats the first one.
limit_change_LostSign(change) ==
    IF change > max_change_rate \/ change < -max_change_rate
    THEN max_change_rate ELSE change

limit_change(change) ==
    IF change > max_change_rate THEN max_change_rate
    ELSE IF change < -max_change_rate THEN -max_change_rate
    ELSE change

CapAbove(v, cap) == IF v > cap THEN cap ELSE v
Clamp(v, cap) == IF v > cap THEN cap ELSE IF v < -cap THEN -cap ELSE v

Follow(smoothed, last, cap) == CapAbove(last + limit_change(smoothed - last), cap)

Mix(p) == [w \in Wheel |-> IF w = "A" THEN Clamp(p.usual + p.delta, LimA)
                                      ELSE Clamp(p.usual - p.delta, LimB)]

(* The pin writes of the four direction routines, in program order.        *)
\* Raises AIN1 while AIN2 may still be high.
A_motor_forward_RaiseFirst == << <<"AIN1", 1>>, <<"AIN2", 0>> >>

A_motor_forward  == << <<"AIN2", 0>>, <<"AIN1", 1>> >>
A_motor_backward == << <<"AIN1", 0>>, <<"AIN2", 1>> >>
B_motor_forward  == << <<"BIN1", 0>>, <<"BIN2", 1>> >>
B_motor_backward == << <<"BIN1", 1>>, <<"BIN2", 0>> >>

Direction(w, v) ==
    IF w = "A" THEN IF v > 0 THEN A_motor_backward ELSE A_motor_forward
               ELSE IF v > 0 THEN B_motor_backward ELSE B_motor_forward

----------------------------------------------------------------------------
Init == /\ PS2_LX = 0 /\ PS2_LY = 0
        /\ pc = "start" /\ wheel = "A"
        /\ usual = 0
        /\ prev = [usual |-> 0, delta |-> 0]
        /\ speed = [w \in Wheel |-> 0]
        /\ pin = [p \in Pin |-> 0]
        /\ pulse = [w \in Wheel |-> 0]
        /\ pwm_dev = FALSE

\* pwm_init and gpio_init: without the device the thread goes on all the same
\* and every rt_pwm_set fails; with it both channels start at pulse 0.
Start == /\ pc = "start"
         /\ pc' = "readLY"
         /\ pwm_dev' \in BOOLEAN
         /\ UNCHANGED <<sticks, wheel, usual, prev, speed, pin, pulse>>

ReadLY == /\ pc = "readLY"
          /\ usual' = (CentreLY - PS2_LY) * GainY
          /\ pc' = "readLX"
          /\ UNCHANGED <<sticks, wheel, prev, speed, pin, pulse, pwm_dev>>

\* Reading LX and everything computed on the thread's own variables after it.
ReadLX ==
    /\ pc = "readLX"
    /\ \E u \in Smooth(usual, prev.usual),
          d \in Smooth((CentreLX - PS2_LX) * GainX, prev.delta) :
          prev' = [usual |-> Follow(u, prev.usual, LimUsual),
                   delta |-> Follow(d, prev.delta, LimDelta)]
    /\ speed' = Mix(prev')
    /\ pc' = "firstPin" /\ wheel' = "A"
    /\ UNCHANGED <<sticks, usual, pin, pulse, pwm_dev>>

WritePin(k, from, to) ==
    /\ pc = from
    /\ pc' = to
    /\ LET write == Direction(wheel, speed[wheel])[k]
       IN pin' = [pin EXCEPT ![write[1]] = write[2]]
    /\ UNCHANGED <<sticks, wheel, usual, prev, speed, pulse, pwm_dev>>

FirstPin  == WritePin(1, "firstPin", "secondPin")
SecondPin == WritePin(2, "secondPin", "setPulse")

\* pwm_Amotor_set / pwm_Bmotor_set, then the next wheel or rt_thread_mdelay.
SetPulse ==
    /\ pc = "setPulse"
    /\ pulse' = IF pwm_dev THEN [pulse EXCEPT ![wheel] = myabs(speed[wheel])]
                           ELSE pulse
    /\ IF wheel = "A" THEN pc' = "firstPin" /\ wheel' = "B"
                      ELSE pc' = "sleep" /\ UNCHANGED wheel
    /\ UNCHANGED <<sticks, usual, prev, speed, pin, pwm_dev>>

Wake == /\ pc = "sleep"
        /\ pc' = "readLY"
        /\ UNCHANGED <<sticks, wheel, usual, prev, speed, pin, pulse, pwm_dev>>

motor_control ==
    Start \/ ReadLY \/ ReadLX \/ FirstPin \/ SecondPin \/ SetPulse \/ Wake

\* The gamepad thread stores a pair of readings. It sleeps only after it has
\* stored both, so the motor thread never runs between the two stores, but it
\* may be preempted by both of them between its own two reads.
Publish == /\ PS2_LX' \in Stick /\ PS2_LY' \in Stick
           /\ UNCHANGED <<pc, wheel, usual, prev, speed, pin, pulse, pwm_dev>>

Next == motor_control \/ Publish

Spec == Init /\ [][Next]_vars

\* The kernel runs the thread again and again as long as the threads above it
\* keep sleeping between their turns.
FairSpec == Spec /\ WF_vars(motor_control)

----------------------------------------------------------------------------
(* Type invariant: every variable of the motor thread keeps its type, the  *)
(* pulses stay unsigned and the filter state stays below its caps.         *)
TypeOK == /\ PS2_LX \in Stick /\ PS2_LY \in Stick
          /\ pc \in {"start", "readLY", "readLX", "firstPin", "secondPin",
                     "setPulse", "sleep"}
          /\ wheel \in Wheel
          /\ usual \in Int
          /\ prev \in [usual : Int, delta : Int]
          /\ prev.usual =< LimUsual /\ prev.delta =< LimDelta
          /\ speed \in [Wheel -> Int]
          /\ pin \in [Pin -> {0, 1}]
          /\ pulse \in [Wheel -> Nat]
          /\ pwm_dev \in BOOLEAN

\* The signed drive a wheel receives: its pulse, in the direction its two
\* bridge inputs select; two equal inputs let it coast or brake.
Plus(w)  == IF w = "A" THEN "AIN2" ELSE "BIN1"
Minus(w) == IF w = "A" THEN "AIN1" ELSE "BIN2"
Drive(w) == IF pin[Plus(w)] = pin[Minus(w)] THEN 0
            ELSE IF pin[Plus(w)] = 1 THEN pulse[w] ELSE -pulse[w]

Slew == 2 * max_change_rate

Gearbox == INSTANCE SlewLimiter
             WITH Limit <- [w \in Wheel |-> IF w = "A" THEN LimA ELSE LimB],
                  drive <- [w \in Wheel |-> Drive(w)]

(* The motor thread implements the slew limiter: because motor_control     *)
(* bounds the change of usual and delta per iteration, no pin write and no *)
(* pulse write moves a wheel's drive by more than Slew, not even when a    *)
(* reversal is preempted between its pin writes and its pulse write, where *)
(* the new direction still carries the old pulse.                          *)
ImplementsSlewLimiter == Gearbox!Spec

(* Wheel A's bridge inputs are never both high; wheel B's are for the one  *)
(* step inside B_motor_backward that raises BIN1 before it drops BIN2, and *)
(* then only while both the old and the new pulse are within one slew, so  *)
(* that the brake never bites at speed however long the thread is held up. *)
BrakeIsGentle ==
    /\ ~(pin["AIN1"] = 1 /\ pin["AIN2"] = 1)
    /\ (pin["BIN1"] = 1 /\ pin["BIN2"] = 1) =>
          /\ pc = "secondPin" /\ wheel = "B"
          /\ pulse["B"] + (IF pwm_dev THEN myabs(speed["B"]) ELSE 0) =< Slew

(* A stick held still brings usual and delta to within 5 ns of what it     *)
(* asks for, and both wheels to the speed mixed from them, and keeps them  *)
(* there: truncation may stop the filter short of its target but never     *)
(* lets it overshoot or oscillate around it. A centred stick asks for 0,   *)
(* so the wheels then stop without any residual creep.                     *)
Near(v, target) == myabs(v) =< myabs(target) /\ myabs(target - v) =< 5
SettlesOnStick ==
    <>[][FALSE]_sticks
        => <>[](/\ Near(prev.usual, (CentreLY - PS2_LY) * GainY)
                /\ Near(prev.delta, (CentreLX - PS2_LX) * GainX)
                /\ pc = "sleep" /\ pwm_dev =>
                      \A w \in Wheel : pulse[w] = myabs(Mix(prev)[w]))
=============================================================================
