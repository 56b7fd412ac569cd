----------------------------- MODULE RoundRobin -----------------------------
(***************************************************************************)
(* What the scheduler promises its clients: the tasks created stand in a   *)
(* ring, the CPU goes round it, and a task that exited is passed over.     *)
(* kernel_main (Boot) starts outside the ring and hands over once.         *)
(***************************************************************************)
EXTENDS Naturals, SequencesExt

CONSTANTS Tasks, Boot

VARIABLES
  ring,  \* the tasks created, in ring order
  dead,  \* those that exited
  turn   \* who has the CPU

vars == <<ring, dead, turn>>

Alive == ToSet(ring) \ dead

\* The k-th task after t on the ring, k less than its length.
After(t, k) ==
  LET i == (CHOOSE j \in DOMAIN ring : ring[j] = t) + k
  IN  ring[IF i <= Len(ring) THEN i ELSE i - Len(ring)]

Init == ring = <<>> /\ dead = {} /\ turn = Boot

\* A newcomer takes its place somewhere on the ring.
Spawn(t) ==
  /\ t \notin ToSet(ring)
  /\ \E i \in 1 .. Len(ring) + 1 : ring' = InsertAt(ring, i, t)
  /\ UNCHANGED <<dead, turn>>

Exit ==
  /\ turn \in Alive
  /\ dead' = dead \cup {turn}
  /\ UNCHANGED <<ring, turn>>

HandOver ==
  /\ turn = Boot
  /\ turn' \in Alive
  /\ UNCHANGED <<ring, dead>>

\* The next living task after the one that has the CPU.
Rotate ==
  /\ turn \in ToSet(ring)
  /\ \E k \in 1 .. Len(ring) - 1 :
       /\ After(turn, k) \in Alive
       /\ \A j \in 1 .. k - 1 : After(turn, j) \notin Alive
       /\ turn' = After(turn, k)
  /\ UNCHANGED <<ring, dead>>

Switch == HandOver \/ Rotate

Next == Switch \/ Exit \/ \E t \in Tasks : Spawn(t)

Safe == Init /\ [][Next]_vars

Spec == Safe /\ WF_vars(Switch)
=============================================================================
