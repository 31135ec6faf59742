----------------------------- MODULE Scheduler -----------------------------
(***************************************************************************)
(* The uniprocessor scheduler the firmware runs on: rt-thread/src/         *)
(* scheduler.c, the thread operations of thread.c, the time slices of      *)
(* rt_tick_increase (clock.c) and the burial of threads by the idle thread *)
(* (idle.c). The scheduler's own data is one record k, changed by the      *)
(* kernel's functions as operators on it; an action is what happens with   *)
(* the interrupts off. A thread's timer is a countdown, which is what      *)
(* HardTimer shows of the timer list.                                      *)
(***************************************************************************)
EXTENDS Integers, Sequences, FiniteSets, FiniteSetsExt, SequencesExt

CONSTANTS Threads, Idle,      \* Idle \in Threads
          Prios,              \* the smaller, the more urgent
          Prio,               \* initial priority of each thread
          Order,              \* threads of a priority as they are started
          Slice,              \* init_tick, of all threads
          Sleeps,             \* arguments of rt_thread_sleep
          NewPrios,           \* arguments of RT_THREAD_CTRL_CHANGE_PRIORITY
          MaxNest,            \* bound on rt_scheduler_lock_nest
          None, Off

ASSUME SchedulerAssumption ==
    /\ Idle \in Threads /\ Prios \subseteq Nat /\ Prio \in [Threads -> Prios]
    /\ Order \in [Prios -> Seq(Threads)]
    /\ \A p \in Prios : /\ IsInjective(Order[p])
                        /\ Range(Order[p]) = {t \in Threads : Prio[t] = p}
    /\ \A t \in Threads \ {Idle} : Prio[t] < Prio[Idle]
    /\ Slice \in Nat \ {0} /\ Sleeps \subseteq Nat \ {0}
    /\ \A p \in NewPrios : p \in Prios /\ p < Prio[Idle]
    /\ MaxNest \in Nat /\ Off \notin Nat

VARIABLES k,          \* cur, ready, group, stat, yield, prio, nest: see Init
          remaining,  \* remaining_tick
          wait,       \* ticks left of a thread's timer, or Off
          pc,         \* what a thread does next: its own code, rt_schedule,
                      \* or the rest of rt_thread_resume
          target,     \* argument of that rt_thread_resume
          defunct,    \* _rt_thread_defunct
          isr,        \* the tick interrupt is checking timers
          moved       \* history: threads given a priority, or resumed by a
                      \* thread, since the last rt_schedule

vars == <<k, remaining, wait, pc, target, defunct, isr, moved>>

Others == Threads \ {Idle}
\* rt_list_remove, of a thread that is listed once or not at all.
Without(t) == [q \in Seq(Threads) |->
                 IF \E n \in DOMAIN q : q[n] = t
                 THEN RemoveAt(q, CHOOSE n \in DOMAIN q : q[n] = t)
                 ELSE q]

----------------------------------------------------------------------------
(* scheduler.c, on the record s.                                           *)

rt_schedule_insert_thread(s, t) ==
    IF t = s.cur THEN [s EXCEPT !.stat[t] = "running"]
    ELSE [s EXCEPT !.stat[t] = "ready",
                   !.ready[s.prio[t]] = Append(@, t),
                   !.group = @ \cup {s.prio[t]}]

\* The bit is cleared although other threads of the priority are ready.
rt_schedule_remove_thread_ClearsBit(s, t) ==
    [s EXCEPT !.ready[s.prio[t]] = Without(t)[@], !.group = @ \ {s.prio[t]}]
rt_schedule_remove_thread(s, t) ==
    LET rest == Without(t)[s.ready[s.prio[t]]] IN
      [s EXCEPT !.ready[s.prio[t]] = rest,
                !.group = IF rest = <<>> THEN @ \ {s.prio[t]} ELSE @]

\* rt_list_remove on a thread's tlist: off the list, the bit stays.
Unlink(s, t) == [s EXCEPT !.ready = [p \in Prios |-> Without(t)[s.ready[p]]]]

\* The end of a slice is not looked at.
Keeps_Equal(s) == s.stat[s.cur] = "running" /\ s.prio[s.cur] =< Min(s.group)
\* The current thread stays, or the first thread of the highest priority runs.
Keeps(s) == /\ s.stat[s.cur] = "running"
            /\ \/ s.prio[s.cur] < Min(s.group)
               \/ s.prio[s.cur] = Min(s.group) /\ ~s.yield[s.cur]

SwitchTo(s, to) ==
    LET from == s.cur
        left == [s EXCEPT !.cur = to]
        back == IF s.stat[from] = "running" THEN rt_schedule_insert_thread(left, from) ELSE left
        off  == rt_schedule_remove_thread(back, to)
    IN  [off EXCEPT !.stat[to] = "running"]

rt_schedule(s) ==
    IF s.nest # 0 \/ s.group = {} THEN s
    ELSE LET u == [s EXCEPT !.yield[s.cur] = @ /\ s.stat[s.cur] # "running"] IN
           IF Keeps(s) THEN rt_schedule_remove_thread(u, u.cur)
           ELSE SwitchTo(u, Head(s.ready[Min(s.group)]))

Scheduled == moved' = IF k.nest # 0 THEN moved ELSE {}

----------------------------------------------------------------------------
\* The threads are ready and none runs yet.
Started == [cur   |-> None,
            ready |-> Order,
            group |-> {p \in Prios : Order[p] # <<>>},
            stat  |-> [t \in Threads |-> "ready"],
            yield |-> [t \in Threads |-> FALSE],
            prio  |-> Prio,
            nest  |-> 0]
rt_system_scheduler_start(s) ==
    LET to == Head(s.ready[Min(s.group)]) IN
      [rt_schedule_remove_thread([s EXCEPT !.cur = to], to) EXCEPT !.stat[to] = "running"]

Init == /\ k = rt_system_scheduler_start(Started)
        /\ remaining = [t \in Threads |-> Slice]
        /\ wait = [t \in Threads |-> Off]
        /\ pc = [t \in Threads |-> "code"] /\ target = [t \in Threads |-> None]
        /\ defunct = {} /\ isr = FALSE /\ moved = {}

----------------------------------------------------------------------------
(* What the running thread does.                                           *)

Me == k.cur
\* A thread does not sleep, wait or end with the scheduler locked: the firmware
\* never locks it, and rt_schedule would let the suspended thread run on.
Code == ~isr /\ pc[Me] = "code" /\ k.stat[Me] = "running"

rt_thread_yield == /\ Code
                   /\ remaining' = [remaining EXCEPT ![Me] = Slice]
                   /\ k' = rt_schedule([k EXCEPT !.yield[Me] = TRUE])
                   /\ Scheduled
                   /\ UNCHANGED <<wait, pc, target, defunct, isr>>

\* The part of rt_thread_suspend with the interrupts off.
Suspended(s) == [rt_schedule_remove_thread(s, s.cur) EXCEPT !.stat[s.cur] = "suspend"]

\* rt_thread_sleep, and waiting for something with a timeout.
rt_thread_sleep(n) == /\ Code /\ Me # Idle /\ k.nest = 0
                      /\ k' = Suspended(k)
                      /\ wait' = [wait EXCEPT ![Me] = n]
                      /\ pc' = [pc EXCEPT ![Me] = "schedule"]
                      /\ UNCHANGED <<remaining, target, defunct, isr, moved>>

\* Waiting for something without a timeout.
rt_thread_suspend == /\ Code /\ Me # Idle /\ k.nest = 0
                     /\ k' = Suspended(k)
                     /\ wait' = [wait EXCEPT ![Me] = Off]
                     /\ pc' = [pc EXCEPT ![Me] = "schedule"]
                     /\ UNCHANGED <<remaining, target, defunct, isr, moved>>

\* The sleeping thread's timer is left running.
Resumed_TimerRuns(t) == /\ k' = rt_schedule_insert_thread(Unlink(k, t), t)
                        /\ UNCHANGED wait
\* The part of rt_thread_resume with the interrupts off.
Resumed(t) == /\ k' = rt_schedule_insert_thread(Unlink(k, t), t)
              /\ wait' = [wait EXCEPT ![t] = Off]

\* By the kernel, which tests and resumes with the interrupts off. Whether
\* rt_schedule follows is the caller's business.
rt_thread_resume(t) == /\ Code /\ k.stat[t] = "suspend"
                       /\ Resumed(t)
                       /\ moved' = moved \cup {t}
                       /\ UNCHANGED <<remaining, pc, target, defunct, isr>>

\* By a thread: the state is tested before the interrupts are off.
ResumeTest(t) == /\ Code /\ k.stat[t] = "suspend"
                 /\ pc' = [pc EXCEPT ![Me] = "resume"]
                 /\ target' = [target EXCEPT ![Me] = t]
                 /\ UNCHANGED <<k, remaining, wait, defunct, isr, moved>>
\* A thread that has ended is made ready too. There a build with RT_ASSERT stops
\* in rt_timer_stop (timer.c:529), as the thread's timer is detached; this goes
\* on, as a build without it does.
ResumeDo == /\ ~isr /\ pc[Me] = "resume" /\ k.stat[Me] = "running"
            /\ Resumed(target[Me])
            /\ pc' = [pc EXCEPT ![Me] = "code"]
            /\ target' = [target EXCEPT ![Me] = None]
            /\ defunct' = defunct \ {target[Me]}
            /\ moved' = moved \cup {target[Me]}
            /\ UNCHANGED <<remaining, isr>>

\* RT_THREAD_CTRL_CHANGE_PRIORITY.
SetPriority(t, p) ==
    /\ Code /\ t # Idle
    /\ k' = IF k.stat[t] = "ready"
            THEN rt_schedule_insert_thread(
                   [rt_schedule_remove_thread(k, t) EXCEPT !.prio[t] = p], t)
            ELSE [k EXCEPT !.prio[t] = p]
    /\ moved' = IF k.stat[t] \in {"ready", "running"} THEN moved \cup {t} ELSE moved
    /\ UNCHANGED <<remaining, wait, pc, target, defunct, isr>>

rt_enter_critical == /\ Code /\ k.nest < MaxNest
                     /\ k' = [k EXCEPT !.nest = @ + 1]
                     /\ UNCHANGED <<remaining, wait, pc, target, defunct, isr, moved>>

\* The scheduler is unlocked without scheduling.
rt_exit_critical_Quiet == /\ Code /\ k.nest > 0
                          /\ k' = [k EXCEPT !.nest = @ - 1]
                          /\ UNCHANGED <<remaining, wait, pc, target, defunct, isr, moved>>
rt_exit_critical == /\ Code /\ k.nest > 0
                    /\ k' = [k EXCEPT !.nest = @ - 1]
                    /\ pc' = IF k'.nest = 0 THEN [pc EXCEPT ![Me] = "schedule"] ELSE pc
                    /\ UNCHANGED <<remaining, wait, target, defunct, isr, moved>>

_thread_exit == /\ Code /\ Me # Idle /\ k.nest = 0
                /\ k' = [rt_schedule_remove_thread(k, Me) EXCEPT !.stat[Me] = "close"]
                /\ wait' = [wait EXCEPT ![Me] = Off]
                /\ defunct' = defunct \cup {Me}
                /\ pc' = [pc EXCEPT ![Me] = "schedule"]
                /\ UNCHANGED <<remaining, target, isr, moved>>

\* The idle thread buries a thread; the object is then initialised again.
rt_defunct_execute(t) == /\ Code /\ Me = Idle /\ t \in defunct
                         /\ defunct' = defunct \ {t}
                         /\ k' = [k EXCEPT !.stat[t] = "init", !.yield[t] = FALSE,
                                           !.prio[t] = Prio[t]]
                         /\ pc' = [pc EXCEPT ![t] = "code"]
                         /\ target' = [target EXCEPT ![t] = None]
                         /\ remaining' = [remaining EXCEPT ![t] = Slice]
                         /\ UNCHANGED <<wait, isr, moved>>

rt_thread_startup(t) == /\ Code /\ k.stat[t] = "init"
                        /\ k' = rt_schedule_insert_thread([k EXCEPT !.stat[t] = "suspend"], t)
                        /\ pc' = [pc EXCEPT ![Me] = "schedule"]
                        /\ UNCHANGED <<remaining, wait, target, defunct, isr, moved>>

\* A call of rt_schedule from a thread's code, as after a resume.
CodeSchedules == /\ Code
                 /\ k' = rt_schedule(k)
                 /\ Scheduled
                 /\ UNCHANGED <<remaining, wait, pc, target, defunct, isr>>

\* The call of rt_schedule at the end of the functions above that have one.
CallSchedule == /\ ~isr /\ pc[Me] = "schedule"
                /\ k' = rt_schedule(k)
                /\ Scheduled
                /\ pc' = [pc EXCEPT ![Me] = "code"]
                /\ UNCHANGED <<remaining, wait, target, defunct, isr>>

----------------------------------------------------------------------------
(* Interrupts.                                                             *)

Expired(s) == rt_schedule([s EXCEPT !.yield[s.cur] = TRUE])

rt_tick_increase ==
    /\ ~isr /\ isr' = TRUE
    /\ IF remaining[Me] = 1
       THEN /\ remaining' = [remaining EXCEPT ![Me] = Slice]
            /\ k' = Expired(k) /\ Scheduled
       ELSE /\ remaining' = [remaining EXCEPT ![Me] = @ - 1]
            /\ UNCHANGED <<k, moved>>
    /\ wait' = [t \in Threads |-> IF wait[t] = Off THEN Off ELSE wait[t] - 1]
    /\ UNCHANGED <<pc, target, defunct>>

\* _thread_timeout, called by rt_timer_check.
_thread_timeout(t) == /\ isr /\ wait[t] = 0
                      /\ k' = rt_schedule(rt_schedule_insert_thread(Unlink(k, t), t))
                      /\ Scheduled
                      /\ wait' = [wait EXCEPT ![t] = Off]
                      /\ UNCHANGED <<remaining, pc, target, defunct, isr>>

TickEnd == /\ isr /\ \A t \in Threads : wait[t] # 0
           /\ isr' = FALSE
           /\ UNCHANGED <<k, remaining, wait, pc, target, defunct, moved>>

\* An interrupt of a device hands something to a waiting thread.
DeviceResume(t) == /\ ~isr /\ k.stat[t] = "suspend"
                   /\ k' = rt_schedule(rt_schedule_insert_thread(Unlink(k, t), t))
                   /\ Scheduled
                   /\ wait' = [wait EXCEPT ![t] = Off]
                   /\ UNCHANGED <<remaining, pc, target, defunct, isr>>

----------------------------------------------------------------------------
Pending == CallSchedule \/ ResumeDo
Interrupt == \/ rt_tick_increase \/ TickEnd
             \/ \E t \in Threads : _thread_timeout(t)

Next == \/ rt_thread_yield \/ rt_thread_suspend \/ _thread_exit
        \/ \E n \in Sleeps : rt_thread_sleep(n)
        \/ \E t \in Threads : rt_thread_resume(t) \/ ResumeTest(t) \/ rt_thread_startup(t)
        \/ \E t \in Threads, p \in NewPrios : SetPriority(t, p)
        \/ \E t \in Threads : rt_defunct_execute(t)
        \/ rt_enter_critical \/ rt_exit_critical
        \/ CodeSchedules \/ Pending \/ Interrupt
        \/ \E t \in Threads : DeviceResume(t)

Spec == Init /\ [][Next]_vars
\* The clock ticks, interrupts leave time to the running thread to finish a
\* function it has called, and the scheduler does not stay locked.
FairSpec == Spec /\ WF_vars(Interrupt) /\ SF_vars(Pending) /\ SF_vars(rt_exit_critical)

----------------------------------------------------------------------------
(* The three places that say which threads are ready agree: the bits, the  *)
(* lists and the threads' states. A bit without a thread would make        *)
(* rt_schedule run a list head as a thread, a thread without its bit would *)
(* never run.                                                              *)
ReadyAgrees ==
    /\ k.group = {p \in Prios : k.ready[p] # <<>>}
    /\ \A p \in Prios : /\ IsInjective(k.ready[p])
                        /\ Range(k.ready[p]) =
                             {t \in Threads : k.stat[t] = "ready" /\ k.prio[t] = p}
    /\ \A t \in Threads : k.stat[t] = "running" => t = k.cur

(* The running thread is the most urgent one, except while the scheduler   *)
(* is locked and while rt_schedule is still to be called; and a thread may *)
(* outrank it that another thread resumed, or after a priority of either   *)
(* was changed, for neither rt_thread_resume nor rt_thread_control calls   *)
(* rt_schedule: until somebody does.                                       *)
Outranks(t) == k.stat[t] = "ready" /\ k.prio[t] < k.prio[k.cur]
HighestRuns ==
    k.stat[k.cur] = "running" /\ k.nest = 0 /\ pc[k.cur] # "schedule" =>
      \A t \in Threads : Outranks(t) => {t, k.cur} \cap moved # {}

(* A thread's timer runs only while the thread is suspended: the assertion *)
(* of _thread_timeout, however early the thread was resumed.               *)
TimerMeansSuspended == \A t \in Threads : wait[t] # Off => k.stat[t] = "suspend"

(* A thread that stays ready is outranked again and again: threads of one  *)
(* priority take turns, and none waits for ever for a less urgent one.     *)
TakesTurns ==
    \A t \in Threads :
      <>[](k.stat[t] = "ready") => []<>(k.prio[k.cur] < k.prio[t])

=============================================================================
