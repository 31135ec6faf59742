---------------------------- MODULE ServoPulses ----------------------------
(***************************************************************************)
(* The pulses the servos really get: the calls of the servo thread         *)
(* (applications/duoji.c) on the PWM driver. pwm_init sets and enables     *)
(* both channels; every iteration sets the first channel, then the second, *)
(* and sleeps 10 ms, which is half the 20 ms the timer needs for a period. *)
(* Every set starts the period of both channels again, in the middle of a  *)
(* pulse too, and the thread may be preempted between any two steps.       *)
(***************************************************************************)
EXTENDS PwmDriver, Sequences

CONSTANT LoopTicks      \* rt_thread_mdelay(10) in ticks of the timer

\* duoji1_period and duoji2_period are the same and never change; a pulse is
\* over before the sleep is.
ASSUME LoopAssumption ==
    /\ LoopTicks \in Nat /\ Channels = {1, 2} /\ Pulses # {}
    /\ \E period \in Periods : /\ Periods = {period}
                               /\ \A pulse \in Pulses : Compare(period, pulse) =< LoopTicks

VARIABLES todo,         \* channels still to be set in this iteration
          wait,         \* ticks left to sleep
          width,        \* history: ticks for which each line has been high
          joined        \* history: lines that were enabled inside a pulse

history == <<width, joined>>
pvars == <<psc, ccr, pscNow, ccrNow, arr, cnt, on, call, asked, todo, wait, width, joined>>

Order == <<1, 2>>       \* PWM_DUOJI1_CHANNEL, PWM_DUOJI2_CHANNEL
Asleep == call = Idle /\ todo = <<>> /\ on = Channels

\* PWM mode 1: a line is high while the counter is below the compare value.
High(c) == c \in on /\ cnt < ccrNow[c]

SInit == /\ Init
         /\ todo = Order /\ wait = LoopTicks
         /\ width = [c \in Channels |-> 0] /\ joined = {}

\* A set comes in every iteration: the code leaves out those of a servo that is
\* not asked to move (duoji.c:94).
SetNext == /\ todo # <<>> /\ todo' = Tail(todo)
           /\ \E period \in Periods, pulse \in Pulses :
                Begin(Head(todo), period, pulse)
           /\ UNCHANGED <<wait, history>>

\* The first channel starts the timer, the second joins it where it is.
EnableNext == /\ todo = <<>> /\ on # Channels
              /\ drv_pwm_enable(Min(Channels \ on), TRUE)
              /\ joined' = joined \cup {c \in Channels : High(c)' /\ ~High(c) /\ cnt > 0}
              /\ UNCHANGED <<todo, wait, width>>

\* The loop does not sleep between two iterations.
Resume_NoSleep == /\ Asleep
                  /\ todo' = Order /\ wait' = LoopTicks
                  /\ UNCHANGED <<regs, on, call, asked, history>>
Resume == /\ Asleep /\ wait = 0
          /\ todo' = Order /\ wait' = LoopTicks
          /\ UNCHANGED <<regs, on, call, asked, history>>

SetStep == Set /\ UNCHANGED <<todo, wait, history>>

ClockTick == /\ Count
             /\ wait' = IF Asleep /\ wait > 0 THEN wait - 1 ELSE wait
             /\ width' = [c \in Channels |->
                             IF High(c) /\ High(c)' THEN width[c] + 1 ELSE 0]
             /\ joined' = {c \in joined : High(c)'}
             /\ UNCHANGED todo

SNext == SetNext \/ EnableNext \/ Resume \/ SetStep \/ ClockTick

SSpec == SInit /\ [][SNext]_pvars
FairSpec == /\ SSpec
            /\ WF_pvars(ClockTick)
            /\ WF_pvars(SetNext \/ EnableNext \/ Resume \/ SetStep)

----------------------------------------------------------------------------
Lengths == {Compare(period, pulse) - 1 : period \in Periods, pulse \in Pulses}

\* The line goes low with this step.
Ends(c) == High(c) /\ ~High(c)'

(* No pulse is cut short, whatever length the new one has and wherever the *)
(* set is interrupted, but for the first one of a line that was enabled in *)
(* the middle of it; and at most five pulses run into one another: the one *)
(* the timer had begun by itself, and one for each of the two restarts in  *)
(* each of the two sets of an iteration.                                   *)
PulsesWhole ==
    [][\A c \in Channels :
         Ends(c) => /\ c \notin joined => width[c] + 1 >= Min(Lengths)
                    /\ width[c] + 1 =< 5 * Max(Lengths) - 4]_pvars

(* Both lines get pulses for ever, although every iteration starts the     *)
(* period again before it is over: a line that waited for the timer's own  *)
(* overflow might never get one.                                           *)
KeepsPulsing == \A c \in Channels : []<>High(c) /\ []<>~High(c)
=============================================================================
