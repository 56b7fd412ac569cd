-------------------------------- MODULE Irq --------------------------------
(***************************************************************************)
(* The table of interrupt handlers (dev/idt/irq.cpp).  Several devices may *)
(* share a line; _irq_handler calls every handler of the line in the order *)
(* of the slots, each of which asks its own device whether it was meant.   *)
(***************************************************************************)
EXTENDS Naturals

CONSTANTS
  IRQ_COUNT,        \* number of lines
  IRQ_MAX_HANDLERS, \* slots of a line
  NULL              \* an empty slot

ASSUME IrqAssumption == IRQ_COUNT \in Nat /\ IRQ_MAX_HANDLERS \in Nat

Slots == 0 .. IRQ_MAX_HANDLERS - 1
irq_valid(irq) == irq \in 0 .. IRQ_COUNT - 1

VARIABLE irq_routines

IrqInit == irq_routines = [irq \in 0 .. IRQ_COUNT - 1 |-> [i \in Slots |-> NULL]]

Installed(irq, h) == irq_valid(irq) /\ \E i \in Slots : irq_routines[irq][i] = h

Empty(irq) == {i \in Slots : irq_routines[irq][i] = NULL}
First(I)   == CHOOSE i \in I : \A j \in I : i =< j

\* Mutant: a handler that is there already gets a further slot.
irq_install_twice(irq, h) ==
  IF irq_valid(irq) /\ h # NULL /\ Empty(irq) # {}
  THEN irq_routines' = [irq_routines EXCEPT ![irq][First(Empty(irq))] = h]
  ELSE UNCHANGED irq_routines

\* A line that does not exist, a handler that is there already and a full line
\* are passed over without a word.
irq_install_handler(irq, h) ==
  IF irq_valid(irq) /\ h # NULL /\ ~Installed(irq, h) /\ Empty(irq) # {}
  THEN irq_routines' = [irq_routines EXCEPT ![irq][First(Empty(irq))] = h]
  ELSE UNCHANGED irq_routines

=============================================================================
