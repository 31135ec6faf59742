----------------------------- MODULE HardTimer -----------------------------
(***************************************************************************)
(* The hard timers of rt-thread/src/timer.c: rt_timer_init, _start, _stop, *)
(* _control, _detach, and rt_timer_check, which the tick interrupt runs    *)
(* after it has counted (rt_tick_increase in clock.c). Every rt_thread_    *)
(* mdelay of the firmware ends through one. rt_timer_check keeps the       *)
(* interrupts off while it calls the timers' functions, so nothing comes   *)
(* between its steps but what those functions do themselves.               *)
(***************************************************************************)
EXTENDS TimerList

CONSTANTS Timers,
          Times,        \* values of init_tick
          MaxOps,       \* bound on the calls a timer's function makes
          None, Off

ASSUME HardTimerAssumption ==
    /\ Times \subseteq 1 .. (Half - 1)
    /\ MaxOps \in Nat
    /\ None \notin Timers /\ Off \notin Int

VARIABLES rt_tick,
          list,                \* _timer_list
          inited,              \* timers that are objects of the kernel
          active, periodic,    \* RT_TIMER_FLAG_ACTIVATED, _PERIODIC
          init_tick, timeout,
          pc,                  \* "run": outside the interrupt
          cur, temp,           \* t, and whether it is on the local list
          ops,
          order,               \* history: <<t, u>>: both run, t started first
          madeOneShot          \* history: their own function took PERIODIC off them,
                               \* and they were not started or stopped since

vars == <<rt_tick, list, inited, active, periodic, init_tick, timeout, pc, cur,
          temp, ops, order, madeOneShot>>

lists == <<list, temp, order, madeOneShot>>
check == <<rt_tick, pc, cur>>

Init == /\ rt_tick \in 0 .. TickMod - 1
        /\ list = <<>> /\ order = {} /\ madeOneShot = {}
        /\ inited = Timers /\ active = {} /\ periodic \in SUBSET Timers
        /\ init_tick \in [Timers -> Times] /\ timeout = [t \in Timers |-> 0]
        /\ pc = "run" /\ cur = None /\ temp = FALSE /\ ops = 0

Forget(t) == {p \in order : t \notin {p[1], p[2]}}

\* Off any list, the local one of rt_timer_check included.
_timer_remove(t) == /\ list' = Without(list, t)
                    /\ temp' = (temp /\ t # cur)
                    /\ order' = Forget(t)
                    /\ madeOneShot' = madeOneShot \ {t}

\* The timer keeps its place when it is running already.
Begin_KeepsPlace(t) ==
    /\ timeout' = [timeout EXCEPT ![t] = (rt_tick + init_tick[t]) % TickMod]
    /\ list' = IF t \in Range(list) THEN list ELSE Insert(list, t, timeout')
    /\ temp' = (temp /\ t # cur)
    /\ order' = Forget(t) \cup (Range(list) \ {t}) \X {t}
    /\ active' = active \cup {t} /\ madeOneShot' = madeOneShot \ {t}
Begin(t) ==
    /\ timeout' = [timeout EXCEPT ![t] = (rt_tick + init_tick[t]) % TickMod]
    /\ list' = Insert(Without(list, t), t, timeout')
    /\ temp' = (temp /\ t # cur)
    /\ order' = Forget(t) \cup (Range(list) \ {t}) \X {t}
    /\ active' = active \cup {t} /\ madeOneShot' = madeOneShot \ {t}

rt_timer_start(t) == /\ t \in inited
                     /\ Begin(t)
                     /\ UNCHANGED <<inited, periodic, init_tick>>

\* The timer is marked as stopped but stays where it is.
rt_timer_stop_Listed(t) == /\ t \in inited /\ t \in active
                           /\ active' = active \ {t}
                           /\ UNCHANGED <<lists, inited, periodic, init_tick, timeout>>
rt_timer_stop(t) == /\ t \in inited /\ t \in active
                    /\ _timer_remove(t)
                    /\ active' = active \ {t}
                    /\ UNCHANGED <<inited, periodic, init_tick, timeout>>

rt_timer_detach(t) == /\ t \in inited
                      /\ _timer_remove(t)
                      /\ active' = active \ {t} /\ inited' = inited \ {t}
                      /\ UNCHANGED <<periodic, init_tick, timeout>>

rt_timer_init(t) == /\ t \notin inited
                    /\ inited' = inited \cup {t} /\ active' = active \ {t}
                    /\ \E p \in SUBSET {t} : periodic' = (periodic \ {t}) \cup p
                    /\ \E n \in Times : init_tick' = [init_tick EXCEPT ![t] = n]
                    /\ timeout' = [timeout EXCEPT ![t] = 0]
                    /\ UNCHANGED lists

SetTime(t) == /\ t \in inited
              /\ \E n \in Times : init_tick' = [init_tick EXCEPT ![t] = n]
              /\ UNCHANGED <<lists, inited, active, periodic, timeout>>

SetPeriodic(t) == /\ t \in inited
                  /\ periodic' = periodic \cup {t}
                  /\ UNCHANGED <<lists, inited, active, init_tick, timeout>>

SetOneShot(t) == /\ t \in inited
                 /\ periodic' = periodic \ {t}
                 /\ madeOneShot' = IF temp /\ t = cur THEN madeOneShot \cup ({t} \cap periodic)
                                   ELSE madeOneShot
                 /\ UNCHANGED <<list, temp, order, inited, active, init_tick, timeout>>

Use(t) == \/ rt_timer_start(t) \/ rt_timer_stop(t)
          \/ rt_timer_detach(t) \/ rt_timer_init(t)
          \/ SetTime(t) \/ SetPeriodic(t) \/ SetOneShot(t)

\* A thread, or an interrupt other than the tick.
User == /\ pc = "run"
        /\ \E t \in Timers : Use(t)
        /\ UNCHANGED <<check, ops>>

\* The function of cur.
Callback == /\ pc = "call" /\ ops < MaxOps /\ ops' = ops + 1
            /\ \E t \in Timers : Use(t)
            /\ UNCHANGED check

rt_tick_increase == /\ pc = "run" /\ pc' = "check"
                    /\ rt_tick' = (rt_tick + 1) % TickMod
                    /\ UNCHANGED <<lists, inited, active, periodic, init_tick, timeout>>
                    /\ UNCHANGED <<cur, ops>>

IsDue == list # <<>> /\ Due(rt_tick, timeout[Head(list)])

\* From the test to the call of the timer's function.
Expire == /\ pc = "check" /\ IsDue
          /\ cur' = Head(list) /\ temp' = TRUE
          /\ list' = Tail(list) /\ order' = Forget(cur') /\ UNCHANGED madeOneShot
          /\ active' = IF cur' \in periodic THEN active ELSE active \ {cur'}
          /\ pc' = "call" /\ ops' = 0
          /\ UNCHANGED <<rt_tick, inited, periodic, init_tick, timeout>>

\* The function returns: a timer that is still on the local list was neither
\* detached nor started again, and goes on if it is periodic and active.
Return == /\ pc = "call" /\ pc' = "check"
          /\ IF temp /\ cur \in periodic \cap active
             THEN Begin(cur)
             ELSE temp' = FALSE /\ UNCHANGED <<list, order, madeOneShot, active, timeout>>
          /\ cur' = None /\ ops' = 0
          /\ UNCHANGED <<rt_tick, inited, periodic, init_tick>>

Leave == /\ pc = "check" /\ ~IsDue /\ pc' = "run"
         /\ UNCHANGED <<rt_tick, lists, inited, active, periodic, init_tick, timeout, cur, ops>>

rt_timer_check == Expire \/ Return \/ Leave

Next == User \/ Callback \/ rt_tick_increase \/ rt_timer_check

Spec == Init /\ [][Next]_vars

----------------------------------------------------------------------------
(* The flag of a timer and the list agree. A timer marked as active is on  *)
(* the list, where it will be called, except while its own function runs;  *)
(* and no other is on the list. One call leaves a mark behind: a periodic  *)
(* timer whose own function makes it a one-shot is looked at with the new  *)
(* flag when the function returns (timer.c:669), so it is not started      *)
(* again, but keeps the mark it had at timer.c:648, and is reported as     *)
(* running until it is next started or stopped. No other call              *)
(* in or outside a timer's function does this.                             *)
FlagMeansListed ==
    /\ \A t \in active : t \in Range(list) \/ (t = cur /\ temp) \/ t \in madeOneShot
    /\ Range(list) \subseteq active \cap inited

(* The list under the wrapping tick implements the countdown: timers are   *)
(* called at their tick exactly, never skipped, and in the order of their  *)
(* starts when they are due together.                                      *)
Ideal == INSTANCE Countdown WITH
    left    <- [t \in Timers |-> IF t \in Range(list) THEN Minus(timeout[t], rt_tick) ELSE Off],
    period  <- init_tick,
    order   <- order,
    calling <- cur
ImplementsCountdown == Ideal!Spec

=============================================================================
