----------------------------- MODULE TimerList -----------------------------
(***************************************************************************)
(* Tick arithmetic and the ordered list of running timers of rt-thread/src/ *)
(* timer.c. The skip list has one level here (RT_TIMER_SKIP_LIST_LEVEL is  *)
(* 1): it is a plain list.                                                 *)
(* Ticks are unsigned and wrap at TickMod (2^32 in the code).              *)
(***************************************************************************)
EXTENDS Integers, Sequences, SequencesExt, FiniteSetsExt

CONSTANT TickMod

ASSUME TickAssumption == TickMod \in Nat \ {0}

Half == (TickMod - 1) \div 2            \* RT_TICK_MAX / 2
Minus(a, b) == (a - b) % TickMod

\* The counter has reached at, at most half a round ago.
Due(now, at) == Minus(now, at) < Half

\* A timer at u is later than one at v.
Later(u, v) == Minus(u, v) # 0 /\ Minus(u, v) < Half

Without(list, t) ==
    IF t \in Range(list) THEN RemoveAt(list, CHOOSE n \in DOMAIN list : list[n] = t)
    ELSE list

\* In front of the first timer that is later; behind those that are equal.
Insert(list, t, at) ==
    LET after == {i \in DOMAIN list : Later(at[list[i]], at[t])} IN
      IF after = {} THEN Append(list, t) ELSE InsertAt(list, Min(after), t)
=============================================================================
