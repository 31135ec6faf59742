----------------------------- MODULE Countdown -----------------------------
(***************************************************************************)
(* What a timer service promises, without ticks that wrap and without a    *)
(* list: every started timer has a number of ticks left; each tick takes   *)
(* one off all of them, never past zero; a timer is called when it has     *)
(* none left and at no other time, and among those that are due the one    *)
(* that was started first is called first.                                 *)
(***************************************************************************)
EXTENDS Naturals

CONSTANTS Timers, Times, None, Off

VARIABLES left,     \* ticks left, or Off
          period,   \* ticks a start gives
          order,    \* <<t, u>>: both are started, t before u
          calling   \* the timer whose function runs, or None

vars == <<left, period, order, calling>>

Started == {t \in Timers : left[t] # Off}

Without(t) == {p \in order : t \notin {p[1], p[2]}}
Last(t) == (Started \ {t}) \X {t}

Init == /\ left = [t \in Timers |-> Off]
        /\ period \in [Timers -> Times]
        /\ order = {} /\ calling = None

Start(t) == /\ left' = [left EXCEPT ![t] = period[t]]
            /\ order' = Without(t) \cup Last(t)
            /\ UNCHANGED <<period, calling>>

Stop(t) == /\ left' = [left EXCEPT ![t] = Off]
           /\ order' = Without(t)
           /\ UNCHANGED <<period, calling>>

SetTime(t) == /\ \E n \in Times : period' = [period EXCEPT ![t] = n]
              /\ UNCHANGED <<left, order, calling>>

Tick == /\ calling = None
        /\ \A t \in Started : left[t] > 0
        /\ left' = [t \in Timers |-> IF left[t] = Off THEN Off ELSE left[t] - 1]
        /\ UNCHANGED <<period, order, calling>>

Call(t) == /\ calling = None /\ left[t] = 0
           /\ ~\E u \in Started \ {t} : left[u] = 0 /\ <<u, t>> \in order
           /\ calling' = t
           /\ left' = [left EXCEPT ![t] = Off]
           /\ order' = Without(t)
           /\ UNCHANGED period

\* The function returns; a periodic timer that is still running is started again.
Return == /\ calling # None /\ calling' = None
          /\ \/ UNCHANGED <<left, order>>
             \/ /\ left[calling] = Off
                /\ left' = [left EXCEPT ![calling] = period[calling]]
                /\ order' = order \cup Last(calling)
          /\ UNCHANGED period

Next == \/ \E t \in Timers : Start(t) \/ Stop(t) \/ SetTime(t) \/ Call(t)
        \/ Tick \/ Return

Spec == Init /\ [][Next]_vars
=============================================================================
