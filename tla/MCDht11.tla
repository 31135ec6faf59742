------------------------------ MODULE MCDht11 ------------------------------
(* Bytes of two bits. A comfortable measurement, and two of which one is   *)
(* too humid and the other too cold.                                       *)
EXTENDS Dht11

Some == { <<1, 3, 2, 0>>, <<3, 1, 1, 2>>, <<2, 0, 0, 1>> }
=============================================================================
