-------------------------- MODULE TaskingRefinement --------------------------
(***************************************************************************)
(* The linked list, the states and the ticks of Tasking implement the ring *)
(* of RoundRobin.                                                          *)
(***************************************************************************)
EXTENDS Tasking, Sequences, FiniteSets

FirstTask == BootSlot + 1

\* The first task is pushed and its next is set.
Linked == g_runqueue # NULL /\ next[FirstTask] # NULL

\* The queue in the order of its next pointers, from the first task created.
RingSeq ==
  IF Linked
  THEN LET n == Cardinality(Reach(FirstTask))
           walk[i \in 1 .. n] == IF i = 1 THEN FirstTask ELSE next[walk[i - 1]]
       IN  walk
  ELSE <<>>

Ring ==
  INSTANCE RoundRobin WITH
    Tasks <- Slots \ {BootSlot},
    Boot  <- BootSlot,
    ring  <- RingSeq,
    dead  <- {s \in Slots : state[s] = "DEAD"},
    turn  <- IF g_current = NULL THEN BootSlot ELSE g_current

\* Whatever runs next is the next living task on the ring, so nobody is
\* overtaken and a task that died never runs again; a push inserts one task and
\* moves no other; and the CPU does go round while ticks arrive, so that every
\* task created gets it.
RoundRobinScheduling == Ring!Spec
=============================================================================
