------------------------------- MODULE Servo -------------------------------
(***************************************************************************)
(* The servo thread (applications/duoji.c): every 10 ms it moves two servo *)
(* pulses by an amount proportional to the right stick, refuses a move     *)
(* that would leave the mechanical range, and sends both servos home when  *)
(* the pad's LEFT button is down. It runs at the lowest application        *)
(* priority and reads PS2_RX and PS2_RY twice in one iteration; the        *)
(* gamepad thread may store new readings between any two reads.            *)
(***************************************************************************)
EXTENDS Integers

CONSTANTS Reading,            \* the stick readings, a subset of 0..255
          Key,                \* the key numbers, a subset of 0..16
          Blank,              \* 63: a reading that is ignored
          CentreX, CentreY,   \* 127 and 128: the readings that mean "stay"
          Reach,              \* 128: the furthest a reading is from a centre
          Gain,               \* 50: ns of pulse per stick unit
          Lo, Hi,             \* 325000 and 1250000: the range, both excluded
          Boot,               \* 750000: both pulses at power-up
          Home,               \* <<950000, 600000>>
          HomeKey,            \* 8: PSB_PAD_LEFT
          Hold,               \* 50: iterations before the servos move again
          Word                \* 2^32: pulses are rt_uint32_t

Servos == {1, 2}
MaxStep == Reach * Gain       \* the longest move of one iteration

ASSUME ServoAssumption ==
    /\ Reading \subseteq Nat /\ 0 \in Reading
    /\ 0 \in Key /\ HomeKey \in Key
    /\ CentreX \in Nat /\ CentreY \in Nat /\ Reach \in Nat /\ Gain \in Nat
    /\ \A v \in Reading : /\ CentreX - v \in -Reach .. Reach
                          /\ CentreY - v \in -Reach .. Reach
    /\ Lo \in Nat /\ Hi \in Nat /\ Word \in Nat /\ Boot \in Nat /\ Hold \in Nat
    /\ Home \in [Servos -> Nat]
    /\ Lo < Boot /\ Boot < Hi
    /\ \A s \in Servos : Lo < Home[s] /\ Home[s] < Hi
    /\ MaxStep =< Lo /\ Hi + MaxStep =< Word

VARIABLES PS2_RX, PS2_RY, PS2_KEY,   \* globals of ps2.c
          pc,        \* the shared location the thread reads next
          ps2_flag,  \* 1: a home position is being held
          i,         \* iterations of the current hold
          pulse,     \* duoji1_pulse and duoji2_pulse
          out,       \* the pulses programmed into the timer channels
          pwm_dev    \* did rt_device_find find "pwm8"?

pad == <<PS2_RX, PS2_RY, PS2_KEY>>
vars == <<PS2_RX, PS2_RY, PS2_KEY, pc, ps2_flag, i, pulse, out, pwm_dev>>

----------------------------------------------------------------------------
Init == /\ PS2_RX = 0 /\ PS2_RY = 0 /\ PS2_KEY = 0
        /\ pc = "start"
        /\ ps2_flag = 0 /\ i = 0
        /\ pulse = [s \in Servos |-> Boot]
        /\ out = [s \in Servos |-> 0]
        /\ pwm_dev = FALSE

\* A channel keeps its old pulse when there is no device.
rt_pwm_set(p) == out' = IF pwm_dev' THEN p ELSE out

pwm_init == /\ pc = "start"
            /\ pc' = "readKey"
            /\ pwm_dev' \in BOOLEAN
            /\ rt_pwm_set(pulse)
            /\ UNCHANGED <<pad, ps2_flag, i, pulse>>

\* After rt_thread_mdelay(10): count the hold, then look at the key. A key
\* that is down at the end of a hold starts the next one at once.
HoldOver == ps2_flag = 1 /\ i >= Hold

CountHold == IF HoldOver THEN 0 ELSE IF ps2_flag = 1 THEN i + 1 ELSE i

\* The end of the hold resets the counter but not the flag.
ReadKey_FlagKept ==
    /\ pc = "readKey"
    /\ i' = CountHold
    /\ IF PS2_KEY = HomeKey THEN ps2_flag' = 1 /\ pulse' = Home
                            ELSE UNCHANGED <<ps2_flag, pulse>>
    /\ pc' = "gateX"
    /\ UNCHANGED <<pad, out, pwm_dev>>

ReadKey ==
    /\ pc = "readKey"
    /\ i' = CountHold
    /\ IF PS2_KEY = HomeKey
       THEN ps2_flag' = 1 /\ pulse' = Home
       ELSE /\ ps2_flag' = IF HoldOver THEN 0 ELSE ps2_flag
            /\ UNCHANGED pulse
    /\ pc' = "gateX"
    /\ UNCHANGED <<pad, out, pwm_dev>>

GateX == /\ pc = "gateX"
         /\ pc' = IF PS2_RX # Blank /\ ps2_flag = 0 THEN "gateY" ELSE "readKey"
         /\ UNCHANGED <<pad, ps2_flag, i, pulse, out, pwm_dev>>

\* The pulse of servo s after the range check on speed + pulse, which C
\* computes modulo Word because the pulse is unsigned.
Moved_UpperOnly(s, speed) ==
    LET sum == (speed + pulse[s]) % Word
    IN IF sum < Hi THEN sum ELSE pulse[s]
Moved_AddsTwice(s, speed) ==
    LET sum == (speed + pulse[s]) % Word
    IN IF sum + speed < Hi /\ sum + speed > Lo THEN sum ELSE pulse[s]
Moved(s, speed) ==
    LET sum == (speed + pulse[s]) % Word
    IN IF sum < Hi /\ sum > Lo THEN sum ELSE pulse[s]

\* PS2_RY is tested here and read again for the speed; with the speed 0 the
\* range check leaves the pulse as it is.
GateY == /\ pc = "gateY"
         /\ IF PS2_RY # Blank
            THEN pc' = "speedY" /\ UNCHANGED pulse
            ELSE pc' = "speedX" /\ pulse' = [pulse EXCEPT ![1] = Moved(1, 0)]
         /\ UNCHANGED <<pad, ps2_flag, i, out, pwm_dev>>

SpeedY == /\ pc = "speedY"
          /\ pulse' = [pulse EXCEPT ![1] = Moved(1, (CentreY - PS2_RY) * Gain)]
          /\ pc' = "speedX"
          /\ UNCHANGED <<pad, ps2_flag, i, out, pwm_dev>>

\* The second reading is tested like the first one.
SpeedX_BlankSkips ==
    /\ pc = "speedX"
    /\ pwm_dev' = pwm_dev
    /\ IF PS2_RX # Blank
       THEN /\ pulse' = [pulse EXCEPT ![2] = Moved(2, (CentreX - PS2_RX) * Gain)]
            /\ rt_pwm_set(pulse')
       ELSE UNCHANGED <<pulse, out>>
    /\ pc' = "readKey"
    /\ UNCHANGED <<pad, ps2_flag, i>>

\* PS2_RX is read again; then both channels are programmed.
SpeedX == /\ pc = "speedX"
          /\ pulse' = [pulse EXCEPT ![2] = Moved(2, (CentreX - PS2_RX) * Gain)]
          /\ pwm_dev' = pwm_dev
          /\ rt_pwm_set(pulse')
          /\ pc' = "readKey"
          /\ UNCHANGED <<pad, ps2_flag, i>>

duoji_handle == pwm_init \/ ReadKey \/ GateX \/ GateY \/ SpeedY \/ SpeedX

\* The gamepad thread stores a poll; it never sleeps half way through.
Publish == /\ PS2_RX' \in Reading /\ PS2_RY' \in Reading /\ PS2_KEY' \in Key
           /\ UNCHANGED <<pc, ps2_flag, i, pulse, out, pwm_dev>>

Next == duoji_handle \/ Publish

Spec == Init /\ [][Next]_vars

\* Every other thread sleeps between its turns, so this one keeps running.
FairSpec == Spec /\ WF_vars(duoji_handle)

----------------------------------------------------------------------------
(* Type invariant: the variables of the servo thread keep their types and  *)
(* the hold counter never passes its limit.                                *)
TypeOK == /\ PS2_RX \in Reading /\ PS2_RY \in Reading /\ PS2_KEY \in Key
          /\ pc \in {"start", "readKey", "gateX", "gateY", "speedY", "speedX"}
          /\ ps2_flag \in {0, 1}
          /\ i \in 0 .. Hold
          /\ pulse \in [Servos -> Nat]
          /\ out \in [Servos -> Nat]
          /\ pwm_dev \in BOOLEAN

(* The servos are never driven to or past their mechanical range, whatever *)
(* readings arrive between the test of a reading and its use, and a home   *)
(* command keeps the target exactly at home until its hold is over.        *)
InRange == /\ \A s \in Servos :
                /\ Lo < pulse[s] /\ pulse[s] < Hi
                /\ pwm_dev => Lo < out[s] /\ out[s] < Hi
           /\ ps2_flag = 1 => pulse = Home /\ pc \in {"readKey", "gateX"}

Distance(a, b) == IF a >= b THEN a - b ELSE b - a

(* Once the servos are under control, a channel is never reprogrammed by   *)
(* more than one stick step, except when it comes back from home: then it  *)
(* starts within one stick step of the home position.                      *)
NoJump == \A s \in Servos : \/ Distance(out[s], out'[s]) =< MaxStep
                            \/ Distance(Home[s], out'[s]) =< MaxStep
MovesSmoothly == [][pc # "start" => NoJump]_vars

Calm == PS2_RX = CentreX /\ PS2_RY = CentreY /\ PS2_KEY # HomeKey

(* A home command reaches the servos: if the pad is left alone, the hold   *)
(* that the command started ends and both channels then rest exactly at    *)
(* home, however the iterations fell relative to the key.                  *)
ReturnsHome == [](pwm_dev /\ ps2_flag = 1 /\ []Calm => <>[](out = Home))

\* One more step would leave the range.
AtLimit(s, speed) == speed = 0 \/ out[s] + speed >= Hi \/ out[s] + speed =< Lo

(* A stick that is held, however far, takes each servo to the end of the   *)
(* range it points to, from wherever it was, the other end included: it    *)
(* stops only where one more step would leave the range, and stays there.  *)
SweepsToLimit ==
    <>[][FALSE]_pad =>
        <>[](pwm_dev /\ Blank \notin {PS2_RX, PS2_RY} /\ PS2_KEY # HomeKey =>
               /\ AtLimit(1, (CentreY - PS2_RY) * Gain)
               /\ AtLimit(2, (CentreX - PS2_RX) * Gain))
=============================================================================
