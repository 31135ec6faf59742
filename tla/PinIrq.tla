------------------------------- MODULE PinIrq -------------------------------
(***************************************************************************)
(* Pin interrupts (drivers/drv_gpio.c, with the HAL's GPIO functions), on  *)
(* which the push buttons depend. Pins with the same number on different   *)
(* ports share one EXTI line and one row of pin_irq_hdr_tab; lines 5 to 9  *)
(* and 10 to 15 share one interrupt each. Calls run with interrupts off,   *)
(* an interrupt serves its lines one after the other and preempts every    *)
(* thread; edges may arrive at any moment. The driver does not check that  *)
(* the pin of a call is the one attached to its line, so clients are taken *)
(* to enable, disable and detach only while their attach holds; key.c does *)
(* so because its two pins are on different lines.                         *)
(***************************************************************************)
EXTENDS Integers, FiniteSetsExt

CONSTANTS Pins,         \* a set of <<port, number>>
          Free          \* -1: no pin, in pin_irq_hdr_tab

Port(p) == p[1]
Line(p) == p[2]
Lines == {Line(p) : p \in Pins}

ASSUME PinAssumption == /\ \A p \in Pins : Line(p) \in 0 .. 15
                        /\ Free \notin Pins

VARIABLES tab,          \* pin_irq_hdr_tab
          mask,         \* pin_irq_enable_mask
          route, imr,   \* EXTICR: the port of each line; IMR1: unmasked lines
          nvic,         \* enabled interrupts
          pending,      \* PR1: lines with an edge that was not served yet
          isr,          \* the interrupt being served: its lines still to come
          enabled,      \* history: pins their holders enabled, and have not given up
          heard         \* history: handlers called since the pin's last edge

pinvars == <<tab, mask, route, imr, nvic, pending, isr, enabled, heard>>
soft == <<tab, mask, enabled>>
exti == <<route, imr, nvic>>

----------------------------------------------------------------------------
\* pin_irq_map: the lines of the interrupt that a line raises.
SharedWith(l) == {k \in Lines : \/ k = l
                                \/ {k, l} \subseteq 5 .. 9
                                \/ {k, l} \subseteq 10 .. 15}
irqno(l) == Min(SharedWith(l))

PinInit == /\ tab = [l \in Lines |-> Free] /\ mask = {} /\ enabled = {}
           /\ route = [l \in Lines |-> "A"] /\ imr = {} /\ nvic = {}
           /\ pending = {} /\ isr = {} /\ heard = {}

\* Threads run when no interrupt is being served or due.
InThread == isr = {} /\ \A l \in pending : irqno(l) \notin nvic

attach_irq(p) == /\ InThread
                 /\ tab[Line(p)] = Free
                 /\ tab' = [tab EXCEPT ![Line(p)] = p]
                 /\ UNCHANGED <<mask, enabled, exti, pending, isr, heard>>

dettach_irq(p) == /\ InThread
                  /\ tab[Line(p)] = p
                  /\ tab' = [tab EXCEPT ![Line(p)] = Free]
                  /\ enabled' = enabled \ {p}
                  /\ UNCHANGED <<mask, exti, pending, isr, heard>>

irq_enable(p) == /\ InThread
                 /\ tab[Line(p)] = p
                 /\ route' = [route EXCEPT ![Line(p)] = Port(p)]
                 /\ imr' = imr \cup {Line(p)}
                 /\ nvic' = nvic \cup {irqno(Line(p))}
                 /\ mask' = mask \cup {Line(p)}
                 /\ enabled' = enabled \cup {p}
                 /\ UNCHANGED <<tab, pending, isr, heard>>

\* HAL_GPIO_DeInit takes the line back only from the port it is routed to.
DeInit(p) == IF route[Line(p)] = Port(p)
             THEN /\ route' = [route EXCEPT ![Line(p)] = "A"]
                  /\ imr' = imr \ {Line(p)}
             ELSE UNCHANGED <<route, imr>>

\* The interrupt is disabled without a look at the lines it shares.
irq_disable_Always(p) == /\ InThread /\ tab[Line(p)] = p
                         /\ DeInit(p)
                         /\ mask' = mask \ {Line(p)}
                         /\ nvic' = nvic \ {irqno(Line(p))}
                         /\ enabled' = enabled \ {p}
                         /\ UNCHANGED <<tab, pending, isr, heard>>
irq_disable(p) == /\ InThread /\ tab[Line(p)] = p
                  /\ DeInit(p)
                  /\ mask' = mask \ {Line(p)}
                  /\ nvic' = IF mask' \cap SharedWith(Line(p)) = {}
                             THEN nvic \ {irqno(Line(p))} ELSE nvic
                  /\ enabled' = enabled \ {p}
                  /\ UNCHANGED <<tab, pending, isr, heard>>

\* An edge on a pin: it is latched if its line is routed there and unmasked.
Edge(p) == /\ route[Line(p)] = Port(p) /\ Line(p) \in imr
           /\ pending' = pending \cup {Line(p)}
           /\ heard' = heard \ {p}
           /\ UNCHANGED <<soft, exti, isr>>

\* EXTIx_IRQHandler begins.
Interrupt(n) == /\ isr = {} /\ n \in nvic
                /\ pending \cap SharedWith(n) # {}
                /\ isr' = SharedWith(n)
                /\ UNCHANGED <<soft, exti, pending, heard>>

Clear(l) == pending' = pending \ {l}
Called(l) == heard' = IF tab[l] = Free THEN heard ELSE heard \cup {tab[l]}
\* The flag is cleared after the handler was called and every edge meanwhile.
Serve_ClearsAll == /\ isr # {} /\ isr' = isr \ {Min(isr)}
                   /\ IF Min(isr) \in pending
                      THEN pending' = pending \ SharedWith(Min(isr)) /\ Called(Min(isr))
                      ELSE UNCHANGED <<pending, heard>>
                   /\ UNCHANGED <<soft, exti>>
\* HAL_GPIO_EXTI_IRQHandler for one line, and pin_irq_hdr.
Serve == /\ isr # {} /\ isr' = isr \ {Min(isr)}
         /\ IF Min(isr) \in pending
            THEN Clear(Min(isr)) /\ Called(Min(isr))
            ELSE UNCHANGED <<pending, heard>>
         /\ UNCHANGED <<soft, exti>>

Call(p) == attach_irq(p) \/ dettach_irq(p) \/ irq_enable(p) \/ irq_disable(p)

PinNext == \/ Serve
           \/ \E l \in Lines : Interrupt(l)
           \/ \E p \in Pins : Call(p) \/ Edge(p)

PinSpec == PinInit /\ [][PinNext]_pinvars
\* Handlers go on; an interrupt that is due again and again is taken: buttons
\* are slower than handlers, so that no interrupt is always due before another.
PinFairSpec == PinSpec /\ WF_pinvars(Serve) /\ \A l \in Lines : SF_pinvars(Interrupt(l))

----------------------------------------------------------------------------
(* Type invariant of the interrupt tables.                                 *)
PinTypeOK == /\ \A l \in Lines : tab[l] = Free \/ tab[l] \in {p \in Pins : Line(p) = l}
             /\ UNION {mask, imr, nvic, pending, isr} \subseteq Lines
             /\ DOMAIN route = Lines
             /\ enabled \subseteq Pins /\ heard \subseteq Pins

(* A pin that its holder enabled is heard, whatever the holders of other   *)
(* pins with the same number, or on lines of the same interrupt, do: line, *)
(* port and interrupt stay its own.                                        *)
EnabledIsHeard ==
    \A p \in enabled : /\ tab[Line(p)] = p
                       /\ route[Line(p)] = Port(p) /\ Line(p) \in imr
                       /\ irqno(Line(p)) \in nvic

(* An edge on an enabled pin reaches its handler unless the pin is         *)
(* disabled first, also if it arrives while the handlers of its interrupt  *)
(* are running.                                                            *)
EdgeIsHandled ==
    \A p \in Pins : (p \in enabled /\ p \notin heard /\ Line(p) \in pending)
                      ~> (p \in heard \/ p \notin enabled)
=============================================================================
