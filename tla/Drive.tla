------------------------------- MODULE Drive -------------------------------
(***************************************************************************)
(* From the hands to the wheels: the gamepad thread (module Ps2) and the   *)
(* motor thread (module Motor) composed. The sticks the one publishes are  *)
(* the ones the other reads. Time passes in units of 10 ms once neither    *)
(* thread has anything left to do; within a unit they interleave freely.   *)
(* Ps2's variables and actions keep their names here.                      *)
(***************************************************************************)
EXTENDS Ps2, MotorTuning

CONSTANTS BootDelay, Period                    \* 25 and 5 units

ASSUME DriveAssumption == /\ BootDelay \in Nat \ {0} /\ Period \in Nat \ {0}
                          /\ Stick = 0 .. 2^Width - 1

VARIABLES motor_pc, wheel, usual, prev, speed, pin, pulse, pwm_dev,   \* of Motor
          rest,       \* units until the gamepad thread's delay ends
          slept       \* has the motor thread slept through this unit?

motorvars == <<motor_pc, wheel, usual, prev, speed, pin, pulse, pwm_dev>>
clock == <<rest, slept>>
drivevars == <<vars, motorvars, clock>>

Value(bits) == MapThenSumSet(LAMBDA b : 2^b, bits)

M == INSTANCE Motor WITH pc <- motor_pc,
                         PS2_LX <- Value(PS2_stick[7]), PS2_LY <- Value(PS2_stick[8])

DriveInit ==
    /\ Init
    /\ motor_pc = "start" /\ wheel = "A" /\ usual = 0
    /\ prev = [usual |-> 0, delta |-> 0]
    /\ speed = [w \in M!Wheel |-> 0] /\ pulse = [w \in M!Wheel |-> 0]
    /\ pin = [p \in M!Pin |-> 0] /\ pwm_dev = FALSE
    /\ rest = 0 /\ slept = FALSE

\* What the gamepad thread does before it sleeps again, and for how long it
\* then sleeps: after the configuration, and after every iteration.
RunPad ==
    /\ rest = 0
    /\ PS2_handle
    /\ rest' = CASE pc = "setup" /\ pc' = "sleep" -> BootDelay
                 [] pc = "beep" -> Period
                 [] OTHER -> 0
    /\ UNCHANGED <<motorvars, slept>>

\* The motor thread starts once the gamepad thread, which is more urgent,
\* sleeps.
RunMotor ==
    /\ pc # "setup"
    /\ motor_pc = "sleep" => slept
    /\ UNCHANGED <<vars, rest>>
    /\ M!motor_control
    /\ slept' = FALSE

\* The pad is heard only in a transaction: what the operator does before one can
\* as well be done just before it.
Operator == /\ pc \in {"setup", "poll"}
            /\ Hands \/ Mode \/ Plug
            /\ UNCHANGED <<motorvars, clock>>

Tick == /\ rest > 0 /\ motor_pc = "sleep" /\ ~slept
        /\ rest' = rest - 1 /\ slept' = TRUE
        /\ UNCHANGED <<vars, motorvars>>

DriveNext == RunPad \/ RunMotor \/ Operator \/ Tick

\* Both threads run when they are ready, and time does not stop.
DriveSpec == /\ DriveInit /\ [][DriveNext]_drivevars
             /\ WF_drivevars(RunPad) /\ WF_drivevars(RunMotor) /\ WF_drivevars(Tick)

----------------------------------------------------------------------------
Wheels == M!Wheel
Centred(f) == Value(f.stick[7]) = CentreLX /\ Value(f.stick[8]) = CentreLY

(* Taking the hands off the sticks stops the car, however far the pad, the *)
(* publication and the motor filter were out of step.                      *)
HandsOffStops ==
    <>[](pad.loyal /\ Centred(frame)) => <>[](\A w \in Wheels : pulse[w] = 0)

(* With readings that change between any two steps of the motor thread,    *)
(* the bridge brakes (B_motor_backward raises BIN1 before it drops BIN2)   *)
(* at small pulses only.                                                   *)
BrakeIsGentle == M!BrakeIsGentle

(* No step of motor_pwm_set, preempted anywhere, moves a wheel's drive by  *)
(* more than one slew.                                                     *)
ImplementsSlewLimiter == M!ImplementsSlewLimiter

(* The filters of motor_control settle by what a held stick asks for, and  *)
(* the wheels at the speeds mixed from it.                                 *)
SettlesOnStick == M!SettlesOnStick

(* A pad that is unplugged, or plugged in too late to be configured, reads *)
(* as all ones: the wheels end at the speed this asks for, and pushing the *)
(* sticks has no effect any more.                                          *)
AllOnes == [usual |-> (CentreLY - (2^Width - 1)) * GainY,
            delta |-> (CentreLX - (2^Width - 1)) * GainX]
LostPadMeansReverse ==
    <>[](~pad.present \/ ~pad.analog) =>
        <>[](pwm_dev => /\ prev.usual < 0 /\ M!Near(prev.usual, AllOnes.usual)
                        /\ prev.delta < 0 /\ M!Near(prev.delta, AllOnes.delta)
                        /\ \A w \in Wheels :
                              motor_pc = "sleep" => M!Drive(w) = M!Mix(prev)[w])
=============================================================================
