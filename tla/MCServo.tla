------------------------------ MODULE MCServo ------------------------------
(* Small instance of the servo thread for TLC: five stick readings (both   *)
(* ends, the ignored one and the two centres), a range of a few full       *)
(* steps, a hold of three iterations.                                      *)
EXTENDS Servo

HomeSmall == <<9, 5>>
=============================================================================
