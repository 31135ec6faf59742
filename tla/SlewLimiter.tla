---------------------------- MODULE SlewLimiter ----------------------------
(***************************************************************************)
(* What the motor thread promises to the gearboxes: the signed drive seen  *)
(* by a wheel starts at zero, stays within that wheel's limit, and no      *)
(* single step of the program moves it by more than Slew, whatever the     *)
(* gamepad sends and wherever the thread is preempted.                     *)
(***************************************************************************)
EXTENDS Integers

CONSTANTS Wheel,      \* the driven wheels
          Limit,      \* [Wheel -> Nat], the largest drive of each wheel
          Slew        \* the largest change of one wheel's drive in one step

VARIABLE drive        \* [Wheel -> Int], direction and pulse width together

Distance(a, b) == IF a >= b THEN a - b ELSE b - a

Init == drive = [w \in Wheel |-> 0]

Move(w) == /\ drive'[w] \in -Limit[w] .. Limit[w]
           /\ Distance(drive[w], drive'[w]) =< Slew
           /\ drive' = [drive EXCEPT ![w] = drive'[w]]

Next == \E w \in Wheel : Move(w)

Spec == Init /\ [][Next]_drive
=============================================================================
