----------------------------- MODULE MCPinIrq ------------------------------
(* Two pins of one line, a third that shares their interrupt, and one with *)
(* an interrupt of its own.                                                *)
EXTENDS PinIrq

SomePins == {<<"A", 8>>, <<"B", 8>>, <<"B", 9>>, <<"B", 1>>}
============================================================================
