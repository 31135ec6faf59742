------------------------------- MODULE Alarm -------------------------------
(***************************************************************************)
(* The push buttons and the alarm (applications/key.c, hardware.c): the    *)
(* falling-edge interrupt of a button raises beep_value2 (and moves the    *)
(* review cursor, see ReviewLog); the key thread drops beep_value2 again   *)
(* some 250 ms later; the hardware thread looks at all four alarm sources, *)
(* sounds the siren and the lamp, and counts the people the sensor sees.   *)
(* The two threads have equal priority and only meet in beep_value2, so    *)
(* what they achieve together depends on their timing: time is counted in  *)
(* units of 10 ms, and within a unit the threads and the interrupt run in  *)
(* any order.                                                              *)
(***************************************************************************)
EXTENDS Integers

CONSTANTS KeyHold,      \* 25: key_handle's limit on i
          Poll, Loud,   \* 5 and 20 units: the delays of the hardware thread
          BootDelay,    \* 200 units: the delay at the end of hardware_init
          Cooldown,     \* 50: hardware_entry's limit on n
          CountMod      \* 256: people_number is a uint8_t

ASSUME AlarmAssumption ==
    /\ KeyHold \in Nat /\ Poll \in Nat \ {0} /\ Loud \in Nat \ {0}
    /\ BootDelay \in Nat /\ Cooldown \in Nat /\ CountMod \in Nat \ {0}

\* The key thread holds beep_value2 for longer than the hardware thread may
\* take to look again.
ASSUME HoldAssumption == Poll < KeyHold

VARIABLES detect,                   \* level of DETECT_PIN
          beep_value, beep_value3,  \* set by the ps2 and the dht11 threads
          beep_value2,              \* set by irq_callback, reset by key_handle
          i, key_pc, key_delay,     \* key thread
          siren,                    \* BEEP_PIN and LED_PIN, always set together
          hw_pc, hw_delay,          \* hardware thread
          n, n_flag, people_number,
          wait,                     \* history: units since an unanswered press
          gap                       \* history: iterations since the last count

sources == <<detect, beep_value, beep_value3>>
keyVars == <<i, key_pc, key_delay>>
hwVars == <<siren, hw_pc, hw_delay, n, n_flag, people_number, gap>>
vars == <<sources, beep_value2, keyVars, hwVars, wait>>

None == -1     \* every press so far was answered

Init == /\ detect = 0 /\ beep_value = 0 /\ beep_value2 = 0 /\ beep_value3 = 0
        /\ i = 0 /\ key_pc = "check" /\ key_delay = 0
        /\ siren = 0 /\ hw_pc = "boot" /\ hw_delay = BootDelay
        /\ n = 0 /\ n_flag = 1 /\ people_number = 0
        /\ wait = None /\ gap = Cooldown + 1

----------------------------------------------------------------------------
(* The interrupt.                                                          *)

irq_callback ==
    /\ beep_value2' = 1
    /\ wait' = IF siren = 0 /\ hw_pc # "boot" /\ wait = None THEN 0 ELSE wait
    /\ UNCHANGED <<sources, keyVars, hwVars>>

(* The key thread. The interrupt can come between the test and the reset.  *)

KeyCheck ==
    /\ key_pc = "check" /\ key_delay = 0
    /\ IF beep_value2 = 1 /\ i >= KeyHold
       THEN key_pc' = "clear" /\ UNCHANGED <<i, key_delay>>
       ELSE /\ i' = IF beep_value2 = 1 THEN i + 1 ELSE i
            /\ key_delay' = 1 /\ UNCHANGED key_pc
    /\ UNCHANGED <<sources, beep_value2, hwVars, wait>>

\* The counter is left at its limit.
KeyClear_KeepsCount ==
    /\ key_pc = "clear"
    /\ beep_value2' = 0
    /\ key_pc' = "check" /\ key_delay' = 1
    /\ UNCHANGED <<i, sources, hwVars, wait>>

\* The counter is reset, the flag is not.
KeyClear_KeepsFlag ==
    /\ key_pc = "clear"
    /\ i' = 0
    /\ key_pc' = "check" /\ key_delay' = 1
    /\ UNCHANGED <<beep_value2, sources, hwVars, wait>>

KeyClear ==
    /\ key_pc = "clear"
    /\ beep_value2' = 0 /\ i' = 0
    /\ key_pc' = "check" /\ key_delay' = 1
    /\ UNCHANGED <<sources, hwVars, wait>>

key_handle == KeyCheck \/ KeyClear

(* The hardware thread.                                                    *)

Alarmed == 1 \in {detect, beep_value, beep_value2, beep_value3}

\* "boot" is the end of hardware_init, just before the first call.
people_detect ==
    /\ hw_delay = 0
    /\ \/ /\ hw_pc \in {"boot", "look"} /\ Alarmed
          /\ hw_pc' = "loud" /\ hw_delay' = Loud
          /\ UNCHANGED <<siren, wait>>
       \/ /\ hw_pc \in {"boot", "look"} /\ ~Alarmed
          /\ siren' = 0
          /\ hw_pc' = "count" /\ hw_delay' = Poll
          /\ UNCHANGED wait
       \/ /\ hw_pc = "loud"
          /\ siren' = 1 /\ wait' = None
          /\ hw_pc' = "count" /\ hw_delay' = Poll
    /\ UNCHANGED <<sources, beep_value2, keyVars, n, n_flag,
                   people_number, gap>>

\* The rest of an iteration of hardware_entry, after its delay.
Seen == detect = 1 /\ n = 0

CoolDown_KeepsCount(flag) ==
    IF flag = 1 /\ n >= Cooldown
    THEN n' = n /\ n_flag' = 0
    ELSE n' = (IF flag = 1 THEN n + 1 ELSE n) /\ n_flag' = flag
CoolDown_Early(flag) ==
    IF flag = 1 /\ n >= Cooldown - 1
    THEN n' = 0 /\ n_flag' = 0
    ELSE n' = (IF flag = 1 THEN n + 1 ELSE n) /\ n_flag' = flag
CoolDown(flag) ==
    IF flag = 1 /\ n >= Cooldown
    THEN n' = 0 /\ n_flag' = 0
    ELSE n' = (IF flag = 1 THEN n + 1 ELSE n) /\ n_flag' = flag

Count ==
    /\ hw_pc = "count" /\ hw_delay = 0
    /\ people_number' = IF Seen THEN (people_number + 1) % CountMod
                                ELSE people_number
    /\ CoolDown(IF Seen THEN 1 ELSE n_flag)
    /\ gap' = IF Seen THEN 1 ELSE IF gap =< Cooldown THEN gap + 1 ELSE gap
    /\ hw_pc' = "look"
    /\ UNCHANGED <<sources, beep_value2, keyVars, siren, hw_delay, wait>>

hardware_entry == people_detect \/ Count

(* The rest of the system.                                                 *)

\* A visitor, the pad's keys, and the sensor alarm, which is never reset.
Source == /\ \/ detect' = 1 - detect /\ UNCHANGED <<beep_value, beep_value3>>
             \/ beep_value' = 1 - beep_value /\ UNCHANGED <<detect, beep_value3>>
             \/ beep_value3' = 1 /\ UNCHANGED <<detect, beep_value>>
          /\ UNCHANGED <<beep_value2, keyVars, hwVars, wait>>

\* A unit passes when no thread has anything left to do in this one.
Tick == /\ key_pc = "check" /\ key_delay > 0 /\ hw_delay > 0
        /\ key_delay' = key_delay - 1 /\ hw_delay' = hw_delay - 1
        /\ wait' = IF wait = None THEN None ELSE wait + 1
        /\ UNCHANGED <<sources, beep_value2, i, key_pc, siren,
                       hw_pc, n, n_flag, people_number, gap>>

Run == key_handle \/ hardware_entry \/ Tick

Next == Run \/ irq_callback \/ Source

Spec == Init /\ [][Next]_vars

\* Time passes and sleeping threads are woken.
FairSpec == Spec /\ WF_vars(Run)

----------------------------------------------------------------------------
(* Type invariant, with the limits of the two counters.                    *)
TypeOK == /\ {detect, beep_value, beep_value2, beep_value3, siren, n_flag} \subseteq {0, 1}
          /\ i \in 0 .. KeyHold /\ n \in 0 .. Cooldown
          /\ key_pc \in {"check", "clear"} /\ key_delay \in 0 .. 1
          /\ hw_pc \in {"boot", "look", "loud", "count"}
          /\ hw_delay \in Nat /\ wait \in Nat \cup {None}
          /\ people_number \in 0 .. CountMod - 1 /\ gap \in 1 .. Cooldown + 1

(* Every press after the first look is heard: unless the siren is on it    *)
(* comes on within one quiet and one loud delay of the hardware thread,    *)
(* although that thread only samples beep_value2 and the key thread drops  *)
(* it without looking whether it was seen, and may even drop a press that  *)
(* arrives between its test and its reset.                                 *)
PressIsHeard == wait =< Poll + Loud

(* When every source stays quiet and no button is pressed any more, the    *)
(* siren falls silent for good: the key thread always takes beep_value2    *)
(* back.                                                                   *)
FallsSilent ==
    /\ <>[](detect = 0 /\ beep_value = 0 /\ beep_value3 = 0)
    /\ <>[][~irq_callback]_vars
    => <>[](siren = 0)

(* Two counts are always more than Cooldown iterations apart, so a visitor *)
(* who lingers or returns at once is not counted twice.                    *)
CountsAreSpaced == [][people_number' # people_number => gap > Cooldown]_vars

(* A visitor who stays is counted again and again: the cool-down always    *)
(* ends.                                                                   *)
CooldownEnds == <>[](detect = 1) => []<>(n = 0)
=============================================================================
