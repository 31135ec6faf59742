---------------------------- MODULE ButtonProofs ----------------------------
(***************************************************************************)
(* The push buttons, from the pin to the siren. Alarm: for every choice of *)
(* the delays in which the key thread holds beep_value2 for longer than    *)
(* the hardware thread's poll, no press is missed, and no visitor is       *)
(* counted twice within the cool-down. PinIrq: for every set of pins, a    *)
(* pin that its holder enabled stays heard.                                *)
(***************************************************************************)
EXTENDS Alarm, PinIrq, WellFoundedInduction, TLAPS

----------------------------------------------------------------------------
(* The threads: delays within a phase, and the key thread's counter, which *)
(* only counts while beep_value2 is set.                                   *)
Phases == /\ hw_pc = "look" => hw_delay = 0
          /\ hw_pc = "count" => hw_delay =< Poll
          /\ hw_pc = "loud" => hw_delay =< Loud
          /\ key_pc = "clear" => key_delay = 0 /\ i >= KeyHold /\ beep_value2 = 1
          /\ beep_value2 = 0 => i = 0

(* Why the key thread cannot drop a press that the hardware thread has not *)
(* seen: while the siren is off and the next look is still to come, it has *)
(* held beep_value2 for no longer than has passed since the last look.     *)
HeldSinceLook ==
    siren = 0 /\ hw_pc \in {"count", "look"} => i + hw_delay =< Poll + key_delay

(* An unanswered press waits either for the next look, which then finds    *)
(* beep_value2 set, or for the end of the loud delay.                      *)
Waiting ==
    wait # None =>
       /\ siren = 0 /\ hw_pc # "boot"
       /\ hw_pc = "loud" => wait + hw_delay =< Poll + Loud
       /\ hw_pc \in {"count", "look"} => beep_value2 = 1 /\ wait + hw_delay =< Poll

(* n counts the iterations since the last count, until it is back at 0.    *)
Cooling == IF n = 0 THEN gap > Cooldown ELSE gap >= n

IInv == TypeOK /\ Phases /\ HeldSinceLook /\ Waiting /\ Cooling

----------------------------------------------------------------------------
(* The flags are clear and no press is waiting at boot.                    *)
LEMMA Initial == Init => IInv
  BY AlarmAssumption
  DEF Init, IInv, TypeOK, Phases, HeldSinceLook, Waiting, Cooling, None

(* A press: the siren is on, or the next look will find it.                *)
LEMMA PressKeeps == ASSUME IInv, irq_callback  PROVE IInv'
  BY AlarmAssumption
  DEF irq_callback, sources, keyVars, hwVars,
      IInv, TypeOK, Phases, HeldSinceLook, Waiting, Cooling, None

(* The key thread counts along with the clock, and drops beep_value2 only  *)
(* when a look has been in between.                                        *)
LEMMA KeyKeeps == ASSUME IInv, key_handle  PROVE IInv'
<1> USE AlarmAssumption
    DEF sources, hwVars, IInv, TypeOK, Phases, HeldSinceLook, Waiting, Cooling, None
<1>1. CASE KeyCheck
  BY <1>1 DEF KeyCheck
<1>2. CASE KeyClear
  BY <1>2, HoldAssumption DEF KeyClear
<1>3. QED
  BY <1>1, <1>2 DEF key_handle

(* A look with a source raised starts the loud delay, one without finds    *)
(* beep_value2 clear and nobody waiting.                                   *)
LEMMA LookKeeps == ASSUME IInv, people_detect  PROVE IInv'
  BY AlarmAssumption
  DEF people_detect, Alarmed, sources, keyVars,
      IInv, TypeOK, Phases, HeldSinceLook, Waiting, Cooling, None

(* Counting a visitor and cooling down.                                    *)
LEMMA CountKeeps == ASSUME IInv, Count  PROVE IInv'
<1> USE AlarmAssumption
<1>1. people_number' \in 0 .. CountMod - 1
  BY DEF IInv, TypeOK, Count
<1>2. n' \in 0 .. Cooldown /\ n_flag' \in {0, 1} /\ gap' \in 1 .. Cooldown + 1
  BY DEF IInv, TypeOK, Count, CoolDown, Seen
<1>3. Cooling'
  BY DEF IInv, TypeOK, Cooling, Count, CoolDown, Seen
<1>4. /\ hw_pc = "count" /\ hw_delay = 0 /\ hw_pc' = "look"
      /\ UNCHANGED <<sources, beep_value2, keyVars, siren, hw_delay, wait>>
  BY DEF Count
<1>5. TypeOK'
  BY <1>1, <1>2, <1>4 DEF IInv, TypeOK, sources, keyVars
<1>6. Phases' /\ HeldSinceLook' /\ Waiting'
  BY <1>4 DEF IInv, Phases, HeldSinceLook, Waiting, sources, keyVars
<1>7. QED
  BY <1>3, <1>5, <1>6 DEF IInv

(* Every step preserves the invariant.                                     *)
LEMMA Inductive == IInv /\ [Next]_vars => IInv'
<1> SUFFICES ASSUME IInv, [Next]_vars  PROVE IInv'
  OBVIOUS
<1>1. CASE Source
  BY <1>1 DEF Source, keyVars, hwVars, IInv, TypeOK, Phases, HeldSinceLook, Waiting, Cooling
<1>2. CASE Tick
  BY <1>2, AlarmAssumption
  DEF Tick, sources, IInv, TypeOK, Phases, HeldSinceLook, Waiting, Cooling, None
<1>3. CASE UNCHANGED vars
  BY <1>3 DEF vars, sources, keyVars, hwVars,
              IInv, TypeOK, Phases, HeldSinceLook, Waiting, Cooling
<1>4. QED
  BY <1>1, <1>2, <1>3, PressKeeps, KeyKeeps, LookKeeps, CountKeeps
  DEF Next, Run, hardware_entry

(* The invariant holds in every state.                                     *)
LEMMA Always == Spec => []IInv
  BY Initial, Inductive, PTL DEF Spec

----------------------------------------------------------------------------
(* The counters of the two threads stay within their limits.               *)
THEOREM AlarmTypeCorrect == Spec => []TypeOK
<1>1. IInv => TypeOK
  BY DEF IInv
<1>2. QED  BY <1>1, Always, PTL

(* A press is answered by the siren within one quiet and one loud delay,   *)
(* however the interrupt, the key thread and the hardware thread are timed *)
(* against each other.                                                     *)
THEOREM AlarmPressIsHeard == Spec => []PressIsHeard
<1>1. IInv => PressIsHeard
  BY AlarmAssumption DEF IInv, TypeOK, Waiting, PressIsHeard, None
<1>2. QED  BY <1>1, Always, PTL

(* people_number changes only when more than Cooldown iterations have gone *)
(* by since its last change.                                               *)
THEOREM AlarmCountsAreSpaced == Spec => CountsAreSpaced
<1>1. IInv /\ [Next]_vars => [people_number' # people_number => gap > Cooldown]_vars
  BY DEF IInv, Cooling, Next, Run, key_handle, hardware_entry, irq_callback, Source,
         KeyCheck, KeyClear, people_detect, Tick, Count, Seen, hwVars, vars
<1>2. QED
  BY <1>1, Always, PTL DEF Spec, CountsAreSpaced

----------------------------------------------------------------------------
(* The inductive invariant of the pins. What EnabledIsHeard leaves out is  *)
(* why another line's disable keeps the shared interrupt: an enabled pin's *)
(* line is in pin_irq_enable_mask, which is what the driver looks at.      *)
Masked == \A p \in enabled : Line(p) \in mask

TablesOK == /\ tab \in [Lines -> Pins \cup {Free}]
            /\ route \in [Lines -> {Port(p) : p \in Pins} \cup {"A"}]

PinInv == PinTypeOK /\ TablesOK /\ Masked /\ EnabledIsHeard

----------------------------------------------------------------------------
(* A set of natural numbers that is not empty has a least element.         *)
LEMMA LeastNatural ==
  ASSUME NEW S \in SUBSET Nat, S # {}
  PROVE  \E l \in S : \A m \in S : l =< m
<1> DEFINE R == OpToRel(<, Nat)
<1>1. IsWellFoundedOn(R, Nat)
  BY NatLessThanWellFounded, Zenon
<1>2. \A l, m \in Nat : l < m => <<l, m>> \in R
  BY DEF OpToRel
<1> HIDE DEF R
<1>3. PICK l \in S : \A m \in S : ~(<<m, l>> \in R)
  BY <1>1, WFMin
<1>4. \A m \in S : ~(m < l)
  BY <1>2, <1>3, Zenon
<1>5. QED
  BY <1>4

(* Min therefore chooses a line from every set of lines.                   *)
LEMMA MinLine ==
  ASSUME NEW S \in SUBSET Lines, S # {}
  PROVE  Min(S) \in S
<1>1. S \in SUBSET Nat
  BY PinAssumption DEF Lines
<1>2. QED
  BY <1>1, LeastNatural DEF Min

(* Lines that raise the same interrupt are among each other's lines.       *)
LEMMA SameInterrupt ==
  ASSUME NEW k \in Lines, NEW l \in Lines, irqno(k) = irqno(l)
  PROVE  k \in SharedWith(l)
<1>1. /\ SharedWith(k) \in SUBSET Lines /\ SharedWith(l) \in SUBSET Lines
      /\ k \in SharedWith(k) /\ l \in SharedWith(l)
  BY DEF SharedWith
<1>2. irqno(k) \in SharedWith(k) /\ irqno(l) \in SharedWith(l)
  BY <1>1, MinLine DEF irqno
<1>3. PICK m \in Lines : m \in SharedWith(k) /\ m \in SharedWith(l)
  BY <1>1, <1>2
<1>4. QED
  BY <1>3, PinAssumption DEF SharedWith

(* The interrupt of a line is one of the lines.                            *)
LEMMA InterruptIsLine == \A l \in Lines : irqno(l) \in Lines
<1> SUFFICES ASSUME NEW l \in Lines  PROVE irqno(l) \in Lines
  OBVIOUS
<1>1. SharedWith(l) \in SUBSET Lines /\ SharedWith(l) # {}
  BY DEF SharedWith
<1>2. QED
  BY <1>1, MinLine DEF irqno

----------------------------------------------------------------------------
(* Every operation and every interrupt preserves the invariant.            *)
LEMMA PinInductive == PinInv /\ [PinNext]_pinvars => PinInv'
<1> SUFFICES ASSUME PinInv, [PinNext]_pinvars  PROVE PinInv'
  OBVIOUS
<1> USE DEF PinInv, PinTypeOK, TablesOK, Masked, EnabledIsHeard, soft, exti
<1>0. \A p \in Pins : Line(p) \in Lines
  BY DEF Lines
<1>1. ASSUME NEW p \in Pins, attach_irq(p)  PROVE PinInv'
  BY <1>0, <1>1, PinAssumption DEF attach_irq
<1>2. ASSUME NEW p \in Pins, dettach_irq(p)  PROVE PinInv'
  BY <1>0, <1>2, PinAssumption DEF dettach_irq
<1>3. ASSUME NEW p \in Pins, irq_enable(p)  PROVE PinInv'
  BY <1>0, <1>3, InterruptIsLine DEF irq_enable
<1>4. ASSUME NEW p \in Pins, irq_disable(p)  PROVE PinInv'
  BY <1>0, <1>4, SameInterrupt DEF irq_disable, DeInit
<1>5. ASSUME NEW p \in Pins, Edge(p)  PROVE PinInv'
  BY <1>0, <1>5 DEF Edge
<1>6. ASSUME NEW l \in Lines, Interrupt(l)  PROVE PinInv'
  BY <1>6 DEF Interrupt, SharedWith
<1>7. CASE Serve
  BY <1>7, PinAssumption DEF Serve, Clear, Called
<1>8. CASE UNCHANGED pinvars
  BY <1>8 DEF pinvars
<1>9. QED
  BY <1>1, <1>2, <1>3, <1>4, <1>5, <1>6, <1>7, <1>8 DEF PinNext, Call

(* No pin is enabled at boot.                                              *)
LEMMA PinInitial == PinInit => PinInv
  BY DEF PinInit, PinInv, PinTypeOK, TablesOK, Masked, EnabledIsHeard

(* The tables of drv_gpio.c keep their types.                              *)
THEOREM PinIrqTypeCorrect == PinSpec => []PinTypeOK
<1>1. PinInv => PinTypeOK
  BY DEF PinInv
<1>2. QED  BY <1>1, PinInitial, PinInductive, PTL DEF PinSpec

(* Whatever other holders attach, enable, disable or detach on the same    *)
(* line or on lines of the same interrupt, the line, the port and the      *)
(* interrupt of an enabled pin stay its own.                               *)
THEOREM PinIrqEnabledIsHeard == PinSpec => []EnabledIsHeard
<1>1. PinInv => EnabledIsHeard
  BY DEF PinInv
<1>2. QED  BY <1>1, PinInitial, PinInductive, PTL DEF PinSpec
=============================================================================
