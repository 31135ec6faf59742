--------------------------- MODULE MCServoPulses ---------------------------
(* A period of 61 ticks, an iteration of half a period, pulses of 2 to 7   *)
(* ticks: about the proportions of 20 ms, 10 ms and 0.65 to 2.5 ms.        *)
EXTENDS ServoPulses

ServoPeriod == {180}
ServoRange == {9, 15, 24}
None == {}
============================================================================
