---------------------------- MODULE MCReviewLog ----------------------------
(* Two rows, counters that can leave them, numbers in base 2 and one-bit   *)
(* columns: a recorded row differs from a blank one in every column.       *)
EXTENDS ReviewLog

One == { [hum |-> 1, hum10 |-> 3, temp |-> 2, temp10 |-> 1, adc |-> 3] }
=============================================================================
