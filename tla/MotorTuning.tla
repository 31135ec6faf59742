---------------------------- MODULE MotorTuning ----------------------------
(* The numbers of the motor thread (applications/motor.c), which module    *)
(* Motor and its composition with the gamepad thread share.                *)
EXTENDS Integers

CONSTANTS Stick,                \* the stick readings, a subset of 0..255
          CentreLY, CentreLX,   \* 128 and 127: the readings that mean "stop"
          GainY, GainX,         \* 2400 and 1600: ns of pulse per stick unit
          max_change_rate,      \* 3280: largest change of usual or delta
          LimUsual, LimDelta,   \* 320000 and 256000: caps on usual and delta
          LimA, LimB            \* 320000 and 256000: caps on the two speeds

ASSUME MotorAssumption ==
    /\ Stick \subseteq Nat
    /\ 0 \in Stick /\ CentreLY \in Stick /\ CentreLX \in Stick
    /\ GainY \in Nat /\ GainX \in Nat /\ max_change_rate \in Nat
    /\ LimUsual \in Nat /\ LimDelta \in Nat /\ LimA \in Nat /\ LimB \in Nat
=============================================================================
