------------------------------ MODULE MCAlarm ------------------------------
(* The alarm with the delays of the code, in units of 10 ms, and a short   *)
(* cool-down.                                                              *)
EXTENDS Alarm
=============================================================================
