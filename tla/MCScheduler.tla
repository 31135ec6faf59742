---------------------------- MODULE MCScheduler ----------------------------
(* Two threads of one priority, which may be changed to a more urgent one, *)
(* and the idle thread.                                                    *)
EXTENDS Scheduler

CONSTANTS a, b, idle

AllThreads == {a, b, idle}
Levels == 1 .. 3
StartOrder == <<<<>>, <<a, b>>, <<idle>>>>
GivenPrio == a :> 2 @@ b :> 2 @@ idle :> 3
============================================================================
