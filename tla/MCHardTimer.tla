---------------------------- MODULE MCHardTimer ----------------------------
(* Three timers, so that one is inserted between others, and a tick that   *)
(* wraps after seven. A timer's function makes one call. Nothing in the    *)
(* specification tells the timers apart, and both properties are safety    *)
(* properties: symmetry is sound.                                          *)
EXTENDS HardTimer

ShortTimes == 1 .. (Half - 1)
Symmetry == Permutations(Timers)
============================================================================
