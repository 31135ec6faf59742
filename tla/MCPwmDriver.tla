---------------------------- MODULE MCPwmDriver ----------------------------
(* The clock counts 34 ticks in 100 ns and a counter ends at 15 ticks, so  *)
(* that the periods below need prescalers of 1 (up to 14 ticks), 2 (15     *)
(* ticks, the first that does not fit) and 44.                             *)
EXTENDS PwmDriver

SomePeriods == {2, 44, 45, 1900}
SomePulses == {0, 20, 950}
OnePulse == {5}
============================================================================
