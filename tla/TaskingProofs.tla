--------------------------- MODULE TaskingProofs ---------------------------
(***************************************************************************)
(* Proofs about Tasking for any number of slots, stacks and tasks, when    *)
(* kernel_main and at most one task create tasks (OneSpawner).             *)
(***************************************************************************)
EXTENDS TaskingRefinement, FiniteSetTheorems, SequenceTheorems, WellFoundedInduction, TLAPS

\* pick_next's loop, started on a built task, only ever stands on built tasks.
LEMMA VisitedBuilt ==
  ASSUME TypeOK, PointersToBuilt, NEW start, Built(start)
  PROVE  \A t \in Visited(start) : Built(t)
<1> DEFINE B == {s \in Slots : Built(s)}
<1>1. B \in SUBSET Slots /\ start \in B
  BY DEF Built
<1>2. \A x \in B : state[x] # "READY" /\ next[x] # NULL => next[x] \in B
  BY DEF PointersToBuilt, Built, TypeOK
<1>3. QED
  BY <1>1, <1>2 DEF Visited

\* pick_next returns the current task or one whose frame is built.
LEMMA PickNextBuilt ==
  ASSUME TypeOK, PointersToBuilt, NEW cur \in Slots
  PROVE  PickNext(cur) = cur \/ Built(PickNext(cur))
<1> DEFINE start == IF next[cur] # NULL THEN next[cur] ELSE runqueue_head
           ready == {t \in Visited(start) : state[t] = "READY"}
<1>1. CASE g_runqueue = NULL \/ start = NULL \/ ready = {}
  BY <1>1 DEF PickNext
<1>2. CASE ~(g_runqueue = NULL \/ start = NULL \/ ready = {})
  <2>1. Built(start)
    BY <1>2 DEF PointersToBuilt, runqueue_head, Built
  <2>2. PickNext(cur) \in ready
    BY <1>2 DEF PickNext
  <2>3. QED
    BY <2>1, <2>2, VisitedBuilt
<1>3. QED
  BY <1>1, <1>2

\* A tick leaves everything alone, or saves the running context in the current
\* task and keeps it or loads the frame of a built one.
TickOutcome ==
  /\ UNCHANGED <<g_runqueue, g_sched_lock, used, next>>
  /\ state' \in [Slots -> TaskStates]
  /\ \/ UNCHANGED <<g_current, saved_esp, cpu>>
     \/ /\ g_sched_lock = 0 /\ g_current \in Slots
        /\ saved_esp' = [saved_esp EXCEPT ![g_current] = cpu]
        /\ \/ UNCHANGED <<g_current, cpu>>
           \/ g_runqueue # NULL /\ Built(g_current') /\ cpu' = saved_esp'[g_current']

LEMMA TickDoes ==
  ASSUME TypeOK, PointersToBuilt, scheduler_on_tick
  PROVE  TickOutcome
<1> USE DEF TickOutcome
<1>1. UNCHANGED <<g_runqueue, g_sched_lock, used, next>>
  BY DEF scheduler_on_tick
<1>2. CASE StayOn
  BY <1>1, <1>2 DEF StayOn, TypeOK
<1>3. CASE FirstTick
  <2>1. g_current \in Slots /\ g_sched_lock = 0
    BY <1>3 DEF FirstTick, TypeOK
  <2>2. CASE runqueue_head = NULL
    BY <1>1, <1>3, <2>1, <2>2 DEF FirstTick, TypeOK
  <2>3. CASE runqueue_head # NULL
    <3>1. Built(runqueue_head) /\ runqueue_head \in Slots /\ g_runqueue # NULL
      BY <2>3 DEF runqueue_head, PointersToBuilt, Built, TypeOK
    <3>2. QED
      BY <1>1, <1>3, <2>1, <2>3, <3>1 DEF FirstTick, TypeOK, TaskStates
  <2>4. QED
    BY <2>2, <2>3
<1>4. CASE LaterTick
  <2>1. g_current \in Slots /\ g_sched_lock = 0
    BY <1>4 DEF LaterTick, TypeOK
  <2> DEFINE n == PickNext(g_current)
  <2>2. n = g_current \/ (Built(n) /\ n \in Slots)
    BY <2>1, PickNextBuilt DEF Built
  <2>3. CASE n = g_current
    BY <1>1, <1>4, <2>1, <2>3 DEF LaterTick, TypeOK
  <2>4. CASE n # g_current
    <3>1. state' \in [Slots -> TaskStates]
      BY <1>4, <2>1, <2>2, <2>4 DEF LaterTick, TypeOK, TaskStates
    <3>2. /\ saved_esp' = [saved_esp EXCEPT ![g_current] = cpu]
          /\ g_current' = n /\ cpu' = saved_esp'[n]
          /\ g_runqueue # NULL
      BY <1>4, <2>4 DEF LaterTick, PickNext
    <3>3. QED
      BY <1>1, <2>1, <2>2, <2>4, <3>1, <3>2
  <2>5. QED
    BY <2>3, <2>4
<1>5. QED
  BY <1>2, <1>3, <1>4 DEF scheduler_on_tick
-----------------------------------------------------------------------------

LEMMA InitInv ==
  ASSUME Init PROVE SchedulerInv
<1> USE TaskingAssumption DEF Init, Contexts
<1>1. TypeOK
  BY DEF TypeOK, TaskStates, Steps
<1>2. PointersToBuilt
  BY DEF PointersToBuilt
<1>3. BootPhases
  BY DEF BootPhases
<1>4. CreationsPrivate
  BY DEF CreationsPrivate, CreationPrivate, CreateSteps, PushSteps
<1>5. FreshStacks /\ FramesNotShared
  BY DEF FreshStacks, FramesNotShared
<1>6. LockHeldByRunning
  BY DEF LockHeldByRunning
<1>7. QED
  BY <1>1, <1>2, <1>3, <1>4, <1>5, <1>6 DEF SchedulerInv

\* A tick, in the middle of any step or by task_exit's own int $0x20.
LEMMA TickPreserves ==
  ASSUME SchedulerInv, TickOutcome, UNCHANGED <<slot, stack_mem, reg>>,
         \/ UNCHANGED pc
         \/ pc[cpu] = "yield" /\ pc' = [pc EXCEPT ![cpu] = "idle"]
  PROVE  SchedulerInv'
<1> USE TaskingAssumption DEF SchedulerInv
<1>1. cpu \in Contexts /\ g_current \in Slots \cup {NULL}
  BY DEF TypeOK
<1>2. \A c \in Contexts : pc'[c] = pc[c] \/ (c = cpu /\ pc[c] = "yield" /\ pc'[c] = "idle")
  BY <1>1 DEF TypeOK
<1>3. pc' \in [Contexts -> Steps]
  BY <1>1 DEF TypeOK, Steps, ExitSteps
<1>4. saved_esp' \in [Slots -> Contexts \cup {NULL}]
  BY <1>1 DEF TypeOK, TickOutcome
<1>5. \A s : Built(s) => Built(s)'
  BY <1>1, <1>4 DEF Built, TickOutcome, TypeOK
<1>6. cpu' \in Contexts /\ g_current' \in Slots \cup {NULL}
  BY <1>1, <1>4, <1>5 DEF Built, TickOutcome, TypeOK
<1>7. TypeOK'
  BY <1>3, <1>4, <1>6 DEF TypeOK, TickOutcome
<1>8. PointersToBuilt'
  BY <1>5 DEF PointersToBuilt, TickOutcome
<1>9. \A s \in Slots : saved_esp'[s] # NULL =>
         saved_esp'[s] = saved_esp[s] \/ (s = g_current /\ saved_esp'[s] = cpu)
  BY DEF TickOutcome, TypeOK
<1>10. cpu' = cpu \/ \E s \in Slots \ {BootSlot} : saved_esp'[s] = cpu' /\ g_current' = s
  BY DEF TickOutcome, Built
<1>11. BootPhases'
  <2>1. \A s \in Slots \ {BootSlot} : saved_esp'[s] # BootStack
    <3>1. BootStack # NULL /\ NULL \notin Slots
      BY DEF Contexts
    <3>2. QED
      BY <1>9, <3>1 DEF BootPhases
  <2>2. cpu' = BootStack => cpu = BootStack /\ g_current' \in {BootSlot, NULL}
    <3>1. CASE UNCHANGED <<g_current, cpu>>
      BY <3>1 DEF BootPhases
    <3>2. CASE ~UNCHANGED <<g_current, cpu>>
      BY <3>2, <2>1 DEF TickOutcome, Built
    <3>3. QED
      BY <3>1, <3>2
  <2>3. \A c \in Stacks : c \in Contexts
    BY DEF Contexts
  <2>4. cpu' = BootStack => \A c \in Stacks : pc'[c] \in {"free", "given", "run"}
    BY <2>2, <2>3, <1>2 DEF BootPhases
  <2>5. BootStack \in Contexts
    BY DEF Contexts
  <2>6. g_current = NULL => UNCHANGED <<g_current, cpu>>
    BY DEF TickOutcome
  <2>7. g_current # NULL => g_current' # NULL
    BY DEF TickOutcome, Built
  <2>8. pc[BootStack] \in {"init", "init_fields"} => UNCHANGED <<g_current, cpu>>
    BY DEF TickOutcome, BootPhases
  <2>9. QED
    BY <1>2, <2>1, <2>2, <2>4, <2>5, <2>6, <2>7, <2>8 DEF BootPhases, TickOutcome
<1>12. CreationsPrivate'
  <2> SUFFICES ASSUME NEW c \in Contexts, c = cpu' \/ c # BootStack
               PROVE  CreationPrivate(c)'
    BY DEF CreationsPrivate
  <2>1. cpu' = BootStack => cpu = BootStack
    <3>1. \A s \in Slots \ {BootSlot} : saved_esp'[s] # BootStack
      BY <1>11 DEF BootPhases
    <3>2. QED
      BY <1>10, <3>1
  <2>2. CreationPrivate(c)
    BY <2>1 DEF CreationsPrivate
  <2>3. CASE pc[c] \in CreateSteps
    <3>1. stack_mem[c] \in Contexts
      BY <2>2, <2>3 DEF CreationPrivate, Contexts
    <3>2. pc'[c] = pc[c] /\ pc'[stack_mem[c]] = pc[stack_mem[c]]
      BY <1>2, <2>2, <2>3, <3>1 DEF CreationPrivate, CreateSteps
    <3>3. QED
      BY <2>2, <2>3, <3>2, <1>5 DEF CreationPrivate, CreateSteps, TickOutcome
  <2>4. CASE pc[c] \in PushSteps
    <3>1. pc'[c] = pc[c] /\ pc[c] \notin CreateSteps
      BY <1>2, <2>4 DEF PushSteps, CreateSteps
    <3>2. QED
      BY <2>2, <2>4, <3>1, <1>5 DEF CreationPrivate, TickOutcome, PushSteps, CreateSteps
  <2>5. CASE pc[c] \notin CreateSteps \cup PushSteps
    BY <1>2, <2>5 DEF CreationPrivate, PushSteps, CreateSteps
  <2>6. QED
    BY <2>3, <2>4, <2>5
<1>13. FreshStacks'
  <2>1. cpu' = cpu \/ \E s \in Slots : saved_esp'[s] = cpu' /\ cpu' # NULL
    BY <1>6, <1>10 DEF Contexts
  <2>2. QED
    BY <1>2, <1>9, <2>1, <1>6 DEF FreshStacks
<1>14. FramesNotShared'
  <2>1. CASE UNCHANGED saved_esp /\ UNCHANGED <<g_current, cpu>>
    BY <2>1 DEF FramesNotShared
  <2>2. CASE ~(UNCHANGED saved_esp /\ UNCHANGED <<g_current, cpu>>)
    <3>1. /\ g_current \in Slots
          /\ saved_esp' = [saved_esp EXCEPT ![g_current] = cpu]
          /\ UNCHANGED <<g_current, cpu>> \/ (Built(g_current') /\ cpu' = saved_esp'[g_current'])
      BY <2>2 DEF TickOutcome
    <3>2. \A s \in Slots : saved_esp'[s] = IF s = g_current THEN cpu ELSE saved_esp[s]
      BY <3>1 DEF TypeOK
    <3>3. \A s, t \in Slots : s # t /\ saved_esp'[s] # NULL => saved_esp'[s] # saved_esp'[t]
      BY <3>1, <3>2 DEF FramesNotShared
    <3>4. cpu' # NULL
      BY <1>6
    <3>5. QED
      BY <3>1, <3>2, <3>3, <3>4 DEF FramesNotShared, Built
  <2>3. QED
    BY <2>1, <2>2
<1>15. LockHeldByRunning'
  <2>1. cpu' = cpu \/ g_sched_lock = 0
    BY DEF TickOutcome
  <2>2. QED
    BY <1>1, <1>2, <1>6, <2>1 DEF LockHeldByRunning, TickOutcome
<1>16. \A c \in Contexts : pc'[c] = "lock" => reg'[c] = 0
  BY <1>2
<1>17. QED
  BY <1>7, <1>8, <1>11, <1>12, <1>13, <1>14, <1>15, <1>16
-----------------------------------------------------------------------------

\* Nobody else is in a creation that can go on while c creates a task.
LEMMA CreatesAlone ==
  ASSUME SchedulerInv, OneSpawner, NEW c \in Contexts, c = cpu, c \in Creators,
         NEW d \in Contexts, d # c, d # BootStack
  PROVE  pc[d] \notin CreateSteps \cup PushSteps
<1>1. CASE c = BootStack
  BY <1>1 DEF SchedulerInv, BootPhases, Contexts, CreateSteps, PushSteps
<1>2. CASE c # BootStack
  BY <1>2 DEF SchedulerInv, CreationsPrivate, CreationPrivate, OneSpawner
<1>3. QED
  BY <1>1, <1>2

\* So a step of c has to care only for c's own creation.
LEMMA CreationsOfOthers ==
  ASSUME SchedulerInv, OneSpawner, NEW c \in Contexts, c = cpu, c \in Creators, UNCHANGED cpu,
         \A d \in Contexts \ {c} : pc'[d] \in {pc[d], "given", "run"},
         CreationPrivate(c)'
  PROVE  CreationsPrivate'
<1>1. SUFFICES ASSUME NEW d \in Contexts, d # c, d # BootStack
               PROVE  CreationPrivate(d)'
  BY DEF CreationsPrivate
<1>2. pc[d] \notin CreateSteps \cup PushSteps
  BY <1>1, CreatesAlone
<1>3. pc'[d] \notin CreateSteps \cup PushSteps
  BY <1>1, <1>2 DEF CreateSteps, PushSteps
<1>4. QED
  BY <1>3 DEF CreationPrivate, CreateSteps, PushSteps

\* The steps of task_create on c, one by one.
LEMMA TaskCreatePreserves ==
  ASSUME SchedulerInv, OneSpawner, NEW c \in Contexts, NEW s \in Stacks, TaskCreate(c, s)
  PROVE  SchedulerInv'
<1> USE TaskingAssumption DEF SchedulerInv
<1>1. /\ c = cpu /\ c \in Creators /\ pc[c] = "run" /\ pc[s] = "free"
      /\ UNCHANGED <<g_current, g_runqueue, g_sched_lock, used, saved_esp, next, state, cpu, reg>>
      /\ slot'[c] \in Slots /\ ~used[slot'[c]] /\ stack_mem'[c] = s
  BY DEF TaskCreate, At, globals, fields, FreeSlots, TypeOK
<1>2. \A d \in Contexts : pc'[d] = IF d = s THEN "given" ELSE IF d = c THEN "claim" ELSE pc[d]
  BY DEF TaskCreate, TypeOK
<1>3. s \in Contexts /\ s # c /\ s # BootStack
  BY <1>1 DEF Contexts
<1>4. TypeOK'
  BY <1>1, <1>3 DEF TypeOK, Steps, CreateSteps, TaskCreate, FreeSlots
<1>5. PointersToBuilt' /\ FramesNotShared'
  BY <1>1 DEF PointersToBuilt, FramesNotShared, Built
<1>6. BootPhases'
  <2>1. BootStack \in Contexts /\ \A d \in Stacks : d \in Contexts /\ d # BootStack
    BY DEF Contexts
  <2>2. pc[BootStack] # "init" /\ pc'[BootStack] # "init" /\ pc'[BootStack] # "init_fields"
    BY <1>1, <1>2, <1>3, <2>1 DEF BootPhases
  <2>3. QED
    BY <1>1, <1>2, <1>3, <2>1, <2>2 DEF BootPhases
<1>7. CreationsPrivate'
  <2>1. slot'[c] # BootSlot
    BY <1>1 DEF BootPhases, Contexts
  <2>2. ASSUME NEW x, Built(x) PROVE x # slot'[c]
    BY <1>1, <2>2 DEF Built
  <2>3. CreationPrivate(c)'
    BY <1>1, <1>2, <1>3, <2>1, <2>2 DEF CreationPrivate, PointersToBuilt, PushSteps, CreateSteps
  <2>4. QED
    BY <1>1, <1>2, <2>3, CreationsOfOthers
<1>8. FreshStacks'
  BY <1>1, <1>2, <1>3 DEF FreshStacks
<1>9. LockHeldByRunning'
  BY <1>1, <1>2, <1>3 DEF LockHeldByRunning
<1>10. \A d \in Contexts : pc'[d] = "lock" => reg'[d] = 0
  BY <1>1, <1>2
<1>11. QED
  BY <1>4, <1>5, <1>6, <1>7, <1>8, <1>9, <1>10
\* Where the creation under way in c stands.
LEMMA CreatingFacts ==
  ASSUME SchedulerInv, NEW c \in Contexts, c = cpu, pc[c] \in CreateSteps \cup PushSteps
  PROVE  /\ c \in Creators /\ slot[c] \in Slots \ {BootSlot}
         /\ CreationPrivate(c)
         /\ pc[BootStack] \notin {"init", "init_fields"}
<1>1. CreationPrivate(c)
  BY DEF SchedulerInv, CreationsPrivate
<1>2. QED
  BY <1>1 DEF CreationPrivate, SchedulerInv, BootPhases, CreateSteps, PushSteps

\* What a step of a creation has to show: the rest of the invariant follows.
LEMMA CreateStep ==
  ASSUME SchedulerInv, OneSpawner, NEW c \in Contexts, c = cpu,
         pc[c] \in CreateSteps \cup PushSteps,
         UNCHANGED <<g_current, g_sched_lock, cpu, reg>>,
         pc'[c] \in CreateSteps \cup PushSteps \cup {"run"},
         \A d \in Contexts \ {c} : pc'[d] = pc[d] \/ (pc[d] = "given" /\ pc'[d] = "run"),
         \A s \in Slots : used[s] => used'[s],
         \A s \in Slots : \/ saved_esp'[s] \in {saved_esp[s], NULL}
                          \/ saved_esp'[s] \in Stacks /\ pc'[saved_esp'[s]] = "run",
         TypeOK', PointersToBuilt', FramesNotShared', CreationPrivate(c)'
  PROVE  SchedulerInv'
<1> USE TaskingAssumption DEF SchedulerInv
<1>1. c \in Creators /\ pc[BootStack] \notin {"init", "init_fields"}
  BY CreatingFacts
<1>2. BootStack \in Contexts /\ NULL \notin Contexts /\ \A d \in Stacks : d \in Contexts /\ d # BootStack
  BY DEF Contexts
<1>3. BootPhases'
  <2>1. pc'[BootStack] \notin {"init", "init_fields"}
    BY <1>1, <1>2 DEF CreateSteps, PushSteps
  <2>2. g_current # NULL /\ used[BootSlot] /\ BootSlot \in Slots
    BY <1>1 DEF BootPhases, BootSlot, Slots
  <2>3. \A s \in Slots \ {BootSlot} : saved_esp'[s] # BootStack
    BY <1>2 DEF BootPhases
  <2>4. QED
    BY <1>2, <2>1, <2>2, <2>3 DEF BootPhases
<1>4. CreationsPrivate'
  BY <1>1, CreationsOfOthers
<1>5. FreshStacks'
  <2>1. SUFFICES ASSUME NEW d \in Contexts, pc'[d] \in {"free", "given"}
                 PROVE  d # cpu' /\ \A s \in Slots : saved_esp'[s] # d
    BY DEF FreshStacks
  <2>2. d # c /\ pc[d] \in {"free", "given"}
    BY <2>1 DEF CreateSteps, PushSteps
  <2>3. QED
    BY <1>2, <2>1, <2>2 DEF FreshStacks
<1>6. LockHeldByRunning'
  BY DEF LockHeldByRunning, CreateSteps, PushSteps
<1>7. \A d \in Contexts : pc'[d] = "lock" => reg'[d] = 0
  BY DEF CreateSteps, PushSteps
<1>8. QED
  BY <1>3, <1>4, <1>5, <1>6, <1>7

LEMMA ClaimSlotPreserves ==
  ASSUME SchedulerInv, OneSpawner, NEW c \in Contexts, ClaimSlot(c)
  PROVE  SchedulerInv'
<1> USE DEF SchedulerInv
<1>1. /\ c = cpu /\ pc[c] = "claim" /\ pc[c] \in CreateSteps
      /\ UNCHANGED <<g_current, g_runqueue, g_sched_lock, saved_esp, next, state, cpu,
                     slot, stack_mem, reg>>
  BY DEF ClaimSlot, At, fields, CreateSteps
<1>2. CreationPrivate(c) /\ slot[c] \in Slots \ {BootSlot}
  BY <1>1, CreatingFacts
<1>3. /\ \A d \in Contexts : pc'[d] = IF d = c THEN "zero" ELSE pc[d]
      /\ \A s \in Slots : used'[s] = (used[s] \/ s = slot[c])
  BY <1>2 DEF ClaimSlot, Goto, TypeOK
<1>4. TypeOK'
  BY <1>1, <1>2 DEF ClaimSlot, Goto, TypeOK, Steps, CreateSteps
<1>5. PointersToBuilt' /\ FramesNotShared'
  BY <1>1, <1>3 DEF PointersToBuilt, FramesNotShared, Built
<1>6. CreationPrivate(c)'
  <2>1. stack_mem[c] \in Contexts \ {c}
    BY <1>1, <1>2 DEF CreationPrivate, Contexts
  <2>2. QED
    BY <1>1, <1>2, <1>3, <2>1 DEF CreationPrivate, CreateSteps, PushSteps
<1>7. QED
  BY <1>1, <1>3, <1>4, <1>5, <1>6, CreateStep DEF CreateSteps
LEMMA ZeroTaskPreserves ==
  ASSUME SchedulerInv, OneSpawner, NEW c \in Contexts, ZeroTask(c)
  PROVE  SchedulerInv'
<1> USE TaskingAssumption DEF SchedulerInv
<1>1. /\ c = cpu /\ pc[c] = "zero" /\ pc[c] \in CreateSteps
      /\ UNCHANGED <<g_current, g_runqueue, g_sched_lock, used, cpu, slot, stack_mem, reg>>
  BY DEF ZeroTask, At, globals, CreateSteps
<1>2. CreationPrivate(c) /\ slot[c] \in Slots \ {BootSlot}
  BY <1>1, CreatingFacts
<1>3. /\ \A d \in Contexts : pc'[d] = IF d = c THEN "frame" ELSE pc[d]
      /\ \A s \in Slots : /\ saved_esp'[s] = IF s = slot[c] THEN NULL ELSE saved_esp[s]
                          /\ next'[s] = IF s = slot[c] THEN NULL ELSE next[s]
  BY <1>2 DEF ZeroTask, Goto, TypeOK
<1>4. TypeOK'
  BY <1>1, <1>2 DEF ZeroTask, Goto, TypeOK, Steps, CreateSteps, TaskStates
<1>5. ASSUME NEW s, Built(s), s # slot[c] PROVE Built(s)'
  BY <1>1, <1>3, <1>5 DEF Built
<1>6. PointersToBuilt'
  BY <1>1, <1>2, <1>3, <1>5 DEF PointersToBuilt, CreationPrivate
<1>7. FramesNotShared'
  BY <1>1, <1>3 DEF FramesNotShared, TypeOK, Contexts
<1>8. CreationPrivate(c)'
  <2>1. stack_mem[c] \in Contexts \ {c}
    BY <1>1, <1>2 DEF CreationPrivate, Contexts
  <2>2. NULL # slot[c]
    BY <1>2
  <2>3. QED
    BY <1>1, <1>2, <1>3, <2>1, <2>2 DEF CreationPrivate, CreateSteps, PushSteps
<1>9. QED
  BY <1>1, <1>3, <1>4, <1>6, <1>7, <1>8, CreateStep DEF CreateSteps

LEMMA BuildFramePreserves ==
  ASSUME SchedulerInv, OneSpawner, NEW c \in Contexts, BuildFrame(c)
  PROVE  SchedulerInv'
<1> USE TaskingAssumption DEF SchedulerInv
<1> DEFINE s == stack_mem[c]
<1>1. /\ c = cpu /\ pc[c] = "frame" /\ pc[c] \in CreateSteps
      /\ UNCHANGED <<g_current, g_runqueue, g_sched_lock, used, next, cpu, slot, stack_mem, reg>>
  BY DEF BuildFrame, At, globals, CreateSteps
<1>2. CreationPrivate(c) /\ slot[c] \in Slots \ {BootSlot}
  BY <1>1, CreatingFacts
<1>3. s \in Stacks /\ s \in Contexts \ {c} /\ pc[s] = "given" /\ s # NULL /\ used[slot[c]]
  BY <1>1, <1>2 DEF CreationPrivate, Contexts
<1>4. /\ \A d \in Contexts : pc'[d] = IF d = s THEN "run" ELSE IF d = c THEN "push" ELSE pc[d]
      /\ \A t \in Slots : saved_esp'[t] = IF t = slot[c] THEN s ELSE saved_esp[t]
  BY <1>2, <1>3 DEF BuildFrame, TypeOK
<1>5. TypeOK'
  BY <1>1, <1>2, <1>3 DEF BuildFrame, TypeOK, Steps, PushSteps, TaskStates
<1>6. Built(slot[c])' /\ \A t : Built(t) => Built(t)'
  BY <1>1, <1>2, <1>3, <1>4 DEF Built
<1>7. PointersToBuilt'
  BY <1>1, <1>6 DEF PointersToBuilt
<1>8. FramesNotShared'
  <2>1. s # cpu /\ \A t \in Slots : saved_esp[t] # s
    BY <1>3 DEF FreshStacks
  <2>2. QED
    BY <1>1, <1>2, <1>4, <2>1 DEF FramesNotShared
<1>9. CreationPrivate(c)'
  BY <1>1, <1>2, <1>3, <1>4, <1>6 DEF CreationPrivate, CreateSteps, PushSteps
<1>10. \A t \in Slots : \/ saved_esp'[t] \in {saved_esp[t], NULL}
                        \/ saved_esp'[t] \in Stacks /\ pc'[saved_esp'[t]] = "run"
  BY <1>3, <1>4
<1>11. QED
  BY <1>1, <1>3, <1>4, <1>5, <1>7, <1>8, <1>9, <1>10, CreateStep DEF CreateSteps, PushSteps

\* The stores of runqueue_push only ever write built tasks.
LEMMA PushPreserves ==
  ASSUME SchedulerInv, OneSpawner, NEW c \in Contexts,
         \/ PushTest(c) \/ PushFirst(c) \/ PushSelf(c)
         \/ PushLink(c) \/ PushChain(c) \/ PushTail(c)
  PROVE  SchedulerInv'
<1> USE DEF SchedulerInv
<1>1. /\ c = cpu /\ pc[c] \in PushSteps
      /\ UNCHANGED <<g_current, g_sched_lock, used, saved_esp, state, cpu, slot, stack_mem, reg>>
  BY DEF PushTest, PushFirst, PushSelf, PushLink, PushChain, PushTail, At,
         globals, fields, PushSteps
<1>2. CreationPrivate(c) /\ slot[c] \in Slots \ {BootSlot}
  BY <1>1, CreatingFacts
<1>3. Built(slot[c]) /\ \A s : Built(s) => Built(s)'
  BY <1>1, <1>2 DEF CreationPrivate, Built
<1>4. \E step \in PushSteps \cup {"run"} :
        /\ pc' = [pc EXCEPT ![c] = step]
        /\ step \in {"push_link", "push_chain"} => g_runqueue' # NULL
  <2>1. pc[c] \in {"push_link", "push_chain"} => g_runqueue # NULL
    BY <1>2 DEF CreationPrivate
  <2>2. QED
    BY <1>1, <2>1 DEF PushTest, PushFirst, PushSelf, PushLink, PushChain, PushTail, At, Goto,
                      globals, PushSteps
<1>5. /\ pc' \in [Contexts -> Steps]
      /\ pc'[c] \in PushSteps \cup {"run"}
      /\ \A d \in Contexts \ {c} : pc'[d] = pc[d]
      /\ pc'[c] \in {"push_link", "push_chain"} => g_runqueue' # NULL
  BY <1>4 DEF TypeOK, Steps
<1>6. g_runqueue' \in {g_runqueue, slot[c]}
  BY DEF PushTest, PushFirst, PushSelf, PushLink, PushChain, PushTail, globals
<1>7. /\ next' \in [Slots -> Slots \cup {NULL}]
      /\ \A x \in Slots : next'[x] # NULL => Built(next'[x])
  <2>1. g_runqueue # NULL => g_runqueue \in Slots
    BY DEF TypeOK
  <2>2. pc[c] \in {"push_link", "push_chain"} => g_runqueue # NULL
    BY <1>2 DEF CreationPrivate
  <2>3. CASE UNCHANGED next
    BY <2>3 DEF PointersToBuilt, TypeOK
  <2>4. CASE PushSelf(c)
    BY <2>4, <1>2, <1>3 DEF PushSelf, PointersToBuilt, TypeOK
  <2>5. CASE PushLink(c)
    BY <2>5, <1>1, <1>2, <1>3, <2>1, <2>2 DEF PushLink, At, PointersToBuilt, TypeOK
  <2>6. CASE PushChain(c)
    BY <2>6, <1>1, <1>2, <1>3, <2>1, <2>2 DEF PushChain, At, PointersToBuilt, TypeOK
  <2>7. QED
    BY <2>3, <2>4, <2>5, <2>6 DEF PushTest, PushFirst, PushTail, fields
<1>8. TypeOK'
  BY <1>1, <1>2, <1>5, <1>6, <1>7 DEF TypeOK
<1>9. PointersToBuilt'
  BY <1>1, <1>3, <1>6, <1>7 DEF PointersToBuilt, Built
<1>10. FramesNotShared'
  BY <1>1 DEF FramesNotShared
<1>11. CreationPrivate(c)'
  BY <1>1, <1>2, <1>3, <1>5 DEF CreationPrivate, CreateSteps, PushSteps
<1>12. QED
  BY <1>1, <1>5, <1>8, <1>9, <1>10, <1>11, CreateStep
-----------------------------------------------------------------------------

LEMMA TaskingInitPreserves ==
  ASSUME SchedulerInv, InitAlloc \/ InitFields
  PROVE  SchedulerInv'
<1> USE TaskingAssumption DEF SchedulerInv
<1>1. BootStack \in Contexts /\ \A d \in Stacks : d \in Contexts /\ d # BootStack
  BY DEF Contexts
<1>2. BootSlot \in Slots
  BY DEF BootSlot, Slots
<1>3. /\ cpu = BootStack /\ pc[BootStack] \in {"init", "init_fields"}
      /\ g_runqueue = NULL /\ g_runqueue' = NULL
      /\ \A c \in Stacks : pc[c] \in {"free", "given", "run"}
      /\ g_current' = BootSlot /\ g_current \in {BootSlot, NULL}
      /\ UNCHANGED <<g_sched_lock, cpu, slot, stack_mem, reg>>
  BY DEF InitAlloc, InitFields, At, BootPhases
<1>4. pc' = [pc EXCEPT ![BootStack] = IF pc[BootStack] = "init" THEN "init_fields" ELSE "run"]
  BY DEF InitAlloc, InitFields, At, Goto
<1>5. \A c \in Stacks : pc'[c] = pc[c]
  BY <1>1, <1>4 DEF TypeOK
<1>6. pc'[BootStack] \in {"init_fields", "run"}
  BY <1>1, <1>4 DEF TypeOK
<1>7. /\ saved_esp' = [saved_esp EXCEPT ![BootSlot] = NULL]
      /\ next' = [next EXCEPT ![BootSlot] = NULL] \/ UNCHANGED next
      /\ used' = [s \in Slots |-> s = BootSlot] \/ UNCHANGED used
      /\ pc[BootStack] = "init_fields" => UNCHANGED <<used, next>>
      /\ pc[BootStack] = "init" => used' = [s \in Slots |-> s = BootSlot]
      /\ state' \in [Slots -> TaskStates]
  <2>1. CASE InitAlloc
    BY <1>2, <2>1 DEF InitAlloc, At, TypeOK, TaskStates
  <2>2. CASE InitFields
    <3>1. pc[BootStack] = "init_fields" /\ g_current = BootSlot
      BY <2>2 DEF InitFields, At, BootPhases
    <3>2. QED
      BY <1>2, <2>2, <3>1 DEF InitFields, TypeOK, TaskStates
  <2>3. QED
    BY <2>1, <2>2
<1>8. \A s \in Slots : saved_esp'[s] = IF s = BootSlot THEN NULL ELSE saved_esp[s]
  BY <1>7 DEF TypeOK
<1>9. TypeOK'
  BY <1>1, <1>2, <1>3, <1>4, <1>7 DEF TypeOK, Steps
<1>10. \A x \in Slots : next'[x] # NULL => next'[x] = next[x]
  BY <1>7 DEF TypeOK
<1>11. ASSUME NEW x \in Slots, next'[x] # NULL PROVE Built(next[x])'
  <2>1. next'[x] = next[x] /\ Built(next[x])
    BY <1>10, <1>11 DEF PointersToBuilt
  <2>2. pc[BootStack] = "init_fields"
    BY <2>1, <1>3 DEF BootPhases, Built
  <2>3. QED
    BY <1>7, <1>8, <2>1, <2>2 DEF Built
<1>12. PointersToBuilt'
  BY <1>3, <1>11 DEF PointersToBuilt
<1>13. BootPhases'
  <2>1. used'[BootSlot] /\ BootSlot # NULL
    BY <1>2, <1>3, <1>7 DEF BootPhases
  <2>2. \A s \in Slots \ {BootSlot} : saved_esp'[s] # BootStack
    BY <1>8 DEF BootPhases
  <2>3. QED
    BY <1>1, <1>3, <1>5, <1>6, <2>1, <2>2 DEF BootPhases
<1>14. CreationsPrivate'
  BY <1>1, <1>3, <1>5, <1>6 DEF CreationsPrivate, CreationPrivate, CreateSteps, PushSteps, Contexts
<1>15. FreshStacks'
  BY <1>1, <1>3, <1>5, <1>6, <1>8 DEF FreshStacks, Contexts
<1>16. FramesNotShared'
  <2>1. \A s \in Slots \ {BootSlot} : saved_esp'[s] # cpu'
    BY <1>3, <1>8 DEF BootPhases
  <2>2. QED
    BY <1>3, <1>8, <2>1 DEF FramesNotShared
<1>17. LockHeldByRunning'
  BY <1>1, <1>3, <1>5, <1>6 DEF LockHeldByRunning, Contexts
<1>18. \A c \in Contexts : pc'[c] = "lock" => reg'[c] = 0
  BY <1>3, <1>5, <1>6 DEF Contexts
<1>19. QED
  BY <1>9, <1>12, <1>13, <1>14, <1>15, <1>16, <1>17, <1>18
\* task_exit up to its unlock.
LEMMA TaskExitPreserves ==
  ASSUME SchedulerInv, NEW c \in Contexts,
         ExitLockLoad(c) \/ ExitLockStore(c) \/ ExitMark(c) \/ ExitUnlock(c)
  PROVE  SchedulerInv'
<1> USE DEF SchedulerInv
<1>1. /\ c = cpu
      /\ UNCHANGED <<g_current, g_runqueue, used, saved_esp, next, cpu, slot, stack_mem>>
  BY DEF ExitLockLoad, ExitLockStore, ExitMark, ExitUnlock, At, globals, fields
<1>2. \E step \in {"lock", "mark", "unlock", "yield"} :
        /\ pc' = [pc EXCEPT ![c] = step]
        /\ step = "lock" => pc[c] = "run" /\ reg' = [reg EXCEPT ![c] = g_sched_lock]
        /\ step # "lock" => UNCHANGED reg
        /\ g_sched_lock' = IF step \in {"mark", "unlock"} THEN 1 ELSE 0
  <2>1. pc[c] = "lock" => reg[c] = 0
    OBVIOUS
  <2>2. /\ g_sched_lock = IF pc[c] \in {"mark", "unlock"} THEN 1 ELSE 0
    BY <1>1 DEF LockHeldByRunning
  <2>3. QED
    BY <2>1, <2>2 DEF ExitLockLoad, ExitLockStore, ExitMark, ExitUnlock, At, Goto, globals
<1>3. /\ pc[c] \in {"run", "lock", "mark", "unlock"}
      /\ pc'[c] \in {"lock", "mark", "unlock", "yield"}
      /\ \A d \in Contexts \ {c} : pc'[d] = pc[d]
      /\ pc' \in [Contexts -> Steps]
  BY <1>2 DEF ExitLockLoad, ExitLockStore, ExitMark, ExitUnlock, At, TypeOK, Steps, ExitSteps
<1>4. TypeOK'
  <2>1. state' \in [Slots -> TaskStates]
    BY DEF ExitLockLoad, ExitLockStore, ExitMark, ExitUnlock, fields, TypeOK, TaskStates
  <2>2. reg' \in [Contexts -> Nat] /\ g_sched_lock' \in Nat
    BY <1>2 DEF TypeOK
  <2>3. QED
    BY <1>1, <1>3, <2>1, <2>2 DEF TypeOK
<1>5. PointersToBuilt' /\ FramesNotShared'
  BY <1>1 DEF PointersToBuilt, FramesNotShared, Built
<1>6. BootPhases'
  <2>1. BootStack \in Contexts /\ \A d \in Stacks : d \in Contexts /\ d # BootStack
    BY TaskingAssumption DEF Contexts
  <2>2. pc'[BootStack] \in {"init", "init_fields"} <=> pc[BootStack] \in {"init", "init_fields"}
    BY <1>3, <2>1
  <2>3. pc'[BootStack] = "init" <=> pc[BootStack] = "init"
    BY <1>3, <2>1
  <2>4. QED
    BY <1>1, <1>3, <2>1, <2>2, <2>3 DEF BootPhases
<1>7. CreationsPrivate'
  <2>1. SUFFICES ASSUME NEW d \in Contexts, d = cpu \/ d # BootStack
                 PROVE  CreationPrivate(d)'
    BY <1>1 DEF CreationsPrivate
  <2>2. CASE d = c
    BY <1>3, <2>2 DEF CreationPrivate, CreateSteps, PushSteps
  <2>3. CASE d # c
    <3>1. CreationPrivate(d) /\ pc'[d] = pc[d]
      BY <1>3, <2>1, <2>3 DEF CreationsPrivate
    <3>2. pc[d] \in CreateSteps => stack_mem[d] \in Contexts \ {c}
      BY <1>3, <3>1 DEF CreationPrivate, Contexts
    <3>3. QED
      BY <1>1, <1>3, <3>1, <3>2 DEF CreationPrivate, CreateSteps, PushSteps, Built
  <2>4. QED
    BY <2>2, <2>3
<1>8. FreshStacks'
  BY <1>1, <1>3 DEF FreshStacks
<1>9. LockHeldByRunning'
  BY <1>1, <1>2, <1>3 DEF LockHeldByRunning, TypeOK
<1>10. \A d \in Contexts : pc'[d] = "lock" => reg'[d] = 0
  BY <1>1, <1>2, <1>3 DEF LockHeldByRunning, TypeOK
<1>11. QED
  BY <1>4, <1>5, <1>6, <1>7, <1>8, <1>9, <1>10

-----------------------------------------------------------------------------

LEMMA NextPreserves ==
  ASSUME SchedulerInv, OneSpawner, [Next]_vars
  PROVE  SchedulerInv'
<1> USE DEF SchedulerInv
<1>1. CASE Tick
  BY <1>1, TickDoes, TickPreserves DEF Tick, locals
<1>2. CASE InitAlloc \/ InitFields
  BY <1>2, TaskingInitPreserves
<1>3. ASSUME NEW c \in Contexts, task_create(c) PROVE SchedulerInv'
  BY <1>3, TaskCreatePreserves, ClaimSlotPreserves, ZeroTaskPreserves, BuildFramePreserves,
     PushPreserves DEF task_create
<1>4. ASSUME NEW c \in Contexts, ExitYield(c) PROVE SchedulerInv'
  <2>1. c = cpu /\ pc[cpu] = "yield" /\ pc' = [pc EXCEPT ![cpu] = "idle"]
    BY <1>4 DEF ExitYield, At, Goto
  <2>2. TickOutcome /\ UNCHANGED <<slot, stack_mem, reg>>
    BY <1>4, TickDoes DEF ExitYield
  <2>3. QED
    BY <2>1, <2>2, TickPreserves
<1>5. ASSUME NEW c \in Contexts, ExitLockLoad(c) \/ Exiting(c) PROVE SchedulerInv'
  BY <1>4, <1>5, TaskExitPreserves DEF Exiting
<1>6. CASE UNCHANGED vars
  BY <1>6 DEF vars, globals, fields, locals, TypeOK, PointersToBuilt, BootPhases,
     CreationsPrivate, CreationPrivate, FreshStacks, FramesNotShared, LockHeldByRunning, Built
<1>7. QED
  BY <1>1, <1>2, <1>3, <1>5, <1>6 DEF Next

\* The scheduler's inductive invariant, for any numbers of slots and tasks.
THEOREM SchedulerInvariant == OneSpawner => (Spec => []SchedulerInv)
<1> SUFFICES ASSUME OneSpawner PROVE Spec => []SchedulerInv
  OBVIOUS
<1>1. Init => SchedulerInv
  BY InitInv
<1>2. SchedulerInv /\ [Next]_vars => SchedulerInv'
  BY NextPreserves
<1>3. QED
  BY <1>1, <1>2, PTL DEF Spec

\* The variables keep their types: in particular the frame a tick loads is
\* always one that was built or saved, never the NULL of a zeroed task_t.
THEOREM TypeCorrect == OneSpawner => (Spec => []TypeOK)
<1> SUFFICES ASSUME OneSpawner PROVE Spec => []TypeOK
  OBVIOUS
<1>1. SchedulerInv => TypeOK
  BY DEF SchedulerInv
<1>2. QED
  BY <1>1, SchedulerInvariant, PTL

\* The scheduler lock belongs to the running context and is never lost.
THEOREM LockExclusion == OneSpawner => (Spec => []LockHeldByRunning)
<1> SUFFICES ASSUME OneSpawner PROVE Spec => []LockHeldByRunning
  OBVIOUS
<1>1. SchedulerInv => LockHeldByRunning
  BY DEF SchedulerInv
<1>2. QED
  BY <1>1, SchedulerInvariant, PTL

\* No two tasks ever resume on the same stack.
THEOREM StackExclusion == OneSpawner => (Spec => []FramesNotShared)
<1> SUFFICES ASSUME OneSpawner PROVE Spec => []FramesNotShared
  OBVIOUS
<1>1. SchedulerInv => FramesNotShared
  BY DEF SchedulerInv
<1>2. QED
  BY <1>1, SchedulerInvariant, PTL

\* Once a tick takes the CPU from kernel_main it never runs again.
THEOREM KernelMainNeverResumes == OneSpawner => (Spec => KernelMainAbandoned)
<1> SUFFICES ASSUME OneSpawner PROVE Spec => KernelMainAbandoned
  OBVIOUS
<1>1. SchedulerInv /\ SchedulerInv' /\ [Next]_vars => [cpu # BootStack => cpu' # BootStack]_vars
  <2> SUFFICES ASSUME SchedulerInv, SchedulerInv', Next, cpu # BootStack PROVE cpu' # BootStack
    OBVIOUS
  <2>1. CASE scheduler_on_tick
    <3>1. TickOutcome
      BY <2>1, TickDoes DEF SchedulerInv
    <3>2. UNCHANGED cpu \/ (Built(g_current') /\ cpu' = saved_esp'[g_current'])
      BY <3>1 DEF TickOutcome
    <3>3. \A s \in Slots \ {BootSlot} : saved_esp'[s] # BootStack
      BY DEF SchedulerInv, BootPhases
    <3>4. QED
      BY <3>2, <3>3 DEF Built
  <2>2. CASE ~scheduler_on_tick
    BY <2>2 DEF Next, Tick, InitAlloc, InitFields, task_create, TaskCreate, ClaimSlot, ZeroTask,
       BuildFrame, PushTest, PushFirst, PushSelf, PushLink, PushChain, PushTail,
       ExitLockLoad, Exiting, ExitLockStore, ExitMark, ExitUnlock, ExitYield
  <2>3. QED
    BY <2>1, <2>2
<1>2. QED
  BY <1>1, SchedulerInvariant, PTL DEF Spec, KernelMainAbandoned

-----------------------------------------------------------------------------
(* The run queue.                                                          *)

Closed(nx, S)  == \A y \in S : nx[y] # NULL => nx[y] \in S
From(nx, x)    == {t \in Slots : \A S \in SUBSET Slots : x \in S /\ Closed(nx, S) => t \in S}
OneCircle(nx, g) == \A s \in From(nx, g) : g \in From(nx, s)
Queued(nx, g, s) == g # NULL /\ s \in From(nx, g)

\* From is the least closed set.
LEMMA FromFacts ==
  ASSUME NEW nx \in [Slots -> Slots \cup {NULL}], NEW x \in Slots
  PROVE  /\ From(nx, x) \in SUBSET Slots /\ x \in From(nx, x) /\ Closed(nx, From(nx, x))
         /\ \A S \in SUBSET Slots : x \in S /\ Closed(nx, S) => From(nx, x) \subseteq S
BY DEF From, Closed

LEMMA FromAgain ==
  ASSUME NEW nx \in [Slots -> Slots \cup {NULL}], NEW x \in Slots, NEW y \in From(nx, x)
  PROVE  y \in Slots /\ From(nx, y) \subseteq From(nx, x)
<1>1. y \in Slots /\ From(nx, x) \in SUBSET Slots /\ Closed(nx, From(nx, x))
  BY FromFacts
<1>2. QED
  BY <1>1, FromFacts

\* A slot that nothing points to is not reached.
LEMMA Unpointed ==
  ASSUME NEW nx \in [Slots -> Slots \cup {NULL}], NEW g \in Slots, NEW t, g # t,
         \A x \in Slots : nx[x] # t
  PROVE  t \notin From(nx, g)
<1> DEFINE S == Slots \ {t}
<1>1. S \in SUBSET Slots /\ g \in S /\ Closed(nx, S)
  BY DEF Closed
<1> HIDE DEF S
<1>2. From(nx, g) \subseteq S
  BY <1>1, FromFacts
<1>3. QED
  BY <1>2 DEF S

\* A store into a slot outside the circle leaves it alone.
LEMMA StoreOutside ==
  ASSUME NEW nx \in [Slots -> Slots \cup {NULL}], NEW ny \in [Slots -> Slots \cup {NULL}],
         NEW g \in Slots, NEW t, t \notin From(nx, g),
         \A x \in Slots \ {t} : ny[x] = nx[x],
         OneCircle(nx, g)
  PROVE  From(ny, g) = From(nx, g) /\ OneCircle(ny, g)
<1> DEFINE R == From(nx, g)
<1>1. R \in SUBSET Slots /\ g \in R /\ Closed(nx, R)
  BY FromFacts
<1>2. From(ny, g) \subseteq R
  <2>1. Closed(ny, R)
    BY <1>1 DEF Closed
  <2> HIDE DEF R
  <2>2. QED
    BY <1>1, <2>1, FromFacts
<1>3. ASSUME NEW s \in R PROVE From(nx, s) \subseteq From(ny, s)
  <2>1. s \in Slots /\ From(nx, s) \subseteq R
    BY <1>3, FromAgain
  <2>2. SUFFICES ASSUME NEW S \in SUBSET Slots, s \in S, Closed(ny, S)
                 PROVE  From(nx, s) \subseteq S
    BY <2>1 DEF From
  <2>3. s \in S \cap R /\ S \cap R \in SUBSET Slots /\ Closed(nx, S \cap R)
    BY <1>1, <1>3, <2>2 DEF Closed
  <2>4. From(nx, s) \subseteq S \cap R
    BY <2>1, <2>3, FromFacts
  <2>5. QED
    BY <2>4
<1>4. QED
  BY <1>1, <1>2, <1>3 DEF OneCircle

\* The first task is a circle of its own, before its next is set and after.
LEMMA Alone ==
  ASSUME NEW nx \in [Slots -> Slots \cup {NULL}], NEW t \in Slots, nx[t] \in {NULL, t}
  PROVE  From(nx, t) = {t} /\ OneCircle(nx, t)
<1>1. {t} \in SUBSET Slots /\ t \in {t} /\ Closed(nx, {t})
  BY DEF Closed
<1>2. From(nx, t) = {t}
  BY <1>1, FromFacts
<1>3. QED
  BY <1>2 DEF OneCircle

\* tail->next = t, where t->next is the head already.
LEMMA LinkedIn ==
  ASSUME NEW nx \in [Slots -> Slots \cup {NULL}], NEW ny \in [Slots -> Slots \cup {NULL}],
         NEW g \in Slots, NEW t \in Slots,
         nx[g] # NULL, nx[t] = nx[g], t # g,
         ny[g] = t, \A x \in Slots \ {g} : ny[x] = nx[x],
         OneCircle(nx, g), NULL \notin Slots
  PROVE  From(nx, g) \subseteq From(ny, g) /\ t \in From(ny, g) /\ OneCircle(ny, g)
<1> DEFINE R == From(nx, g)
<1>1. R \in SUBSET Slots /\ g \in R /\ Closed(nx, R) /\ nx[g] \in R
  BY FromFacts DEF Closed
<1>2. ASSUME NEW S \in SUBSET Slots, g \in S, Closed(ny, S)
      PROVE  t \in S /\ R \subseteq S
  <2>1. t \in S /\ ny[t] \in S
    BY <1>2 DEF Closed
  <2>2. nx[g] \in S
    BY <2>1
  <2>3. Closed(nx, S)
    BY <1>2, <2>2 DEF Closed
  <2>4. QED
    BY <1>2, <2>1, <2>3, FromFacts
<1>3. R \subseteq From(ny, g) /\ t \in From(ny, g)
  BY <1>1, <1>2 DEF From
<1>4. From(ny, g) \subseteq R \cup {t}
  <2>1. R \cup {t} \in SUBSET Slots /\ g \in R \cup {t}
    BY <1>1
  <2>2. Closed(ny, R \cup {t})
    BY <1>1 DEF Closed
  <2> HIDE DEF R
  <2>3. QED
    BY <2>1, <2>2, FromFacts
<1>5. ASSUME NEW s \in R \cup {t}, NEW S \in SUBSET Slots, s \in S, Closed(ny, S)
      PROVE  g \in S
  <2>1. SUFFICES ASSUME g \notin S PROVE FALSE
    OBVIOUS
  <2>2. Closed(nx, S)
    BY <1>5, <2>1 DEF Closed
  <2>3. PICK r \in R : r \in S
    <3>1. CASE s = t
      BY <1>1, <1>5, <2>2, <3>1 DEF Closed
    <3>2. CASE s # t
      BY <1>5, <3>2
    <3>3. QED
      BY <3>1, <3>2
  <2>4. g \in From(nx, r) /\ r \in Slots
    BY <1>1 DEF OneCircle
  <2>5. From(nx, r) \subseteq S
    BY <2>2, <2>3, <2>4, FromFacts
  <2>6. QED
    BY <2>1, <2>4, <2>5
<1>6. \A s \in R \cup {t} : g \in From(ny, s)
  BY <1>5 DEF From
<1>7. QED
  BY <1>3, <1>4, <1>6 DEF OneCircle

\* A circle may be entered at any slot.
LEMMA TailMoved ==
  ASSUME NEW nx \in [Slots -> Slots \cup {NULL}], NEW g \in Slots, NEW t \in From(nx, g),
         OneCircle(nx, g)
  PROVE  From(nx, t) = From(nx, g) /\ OneCircle(nx, t)
<1>1. t \in Slots /\ From(nx, t) \subseteq From(nx, g)
  BY FromAgain
<1>2. g \in From(nx, t)
  BY DEF OneCircle
<1>3. From(nx, g) \subseteq From(nx, t)
  BY <1>1, <1>2, FromAgain
<1>4. ASSUME NEW s \in From(nx, t) PROVE t \in From(nx, s)
  <2>1. s \in From(nx, g) /\ s \in Slots
    BY <1>1, <1>4, FromAgain
  <2>2. g \in From(nx, s)
    BY <2>1 DEF OneCircle
  <2>3. QED
    BY <2>1, <2>2, FromAgain
<1>5. QED
  BY <1>1, <1>3, <1>4 DEF OneCircle

\* What the creation under way in c has to do with the queue.
QueuePrivate(c) ==
  /\ pc[c] \in {"frame", "push", "push_first", "push_link"} => next[slot[c]] = NULL
  /\ pc[c] \in {"push", "push_first", "push_link", "push_chain"} => ~Queued(next, g_runqueue, slot[c])
  /\ pc[c] = "push_first" => g_runqueue = NULL
  /\ pc[c] = "push_self"  => g_runqueue = slot[c] /\ next[slot[c]] = NULL
  /\ pc[c] = "push_chain" => next[g_runqueue] # NULL /\ next[slot[c]] = next[g_runqueue]
  /\ pc[c] = "push_tail"  => g_runqueue # NULL /\ next[g_runqueue] = slot[c]

\* The queue is one circle of all tasks created, but for the one store in which
\* its first task has no next yet: no tick leaves kernel_main there.
QueueInv ==
  /\ g_runqueue # NULL => OneCircle(next, g_runqueue)
  /\ \A s \in Slots \ {BootSlot} : used[s] /\ ~BeingCreated(s) => Queued(next, g_runqueue, s)
  /\ next[BootSlot] = NULL
  /\ g_runqueue # NULL /\ next[g_runqueue] = NULL => cpu = BootStack /\ pc[BootStack] = "push_self"
  /\ cpu # BootStack => g_runqueue # NULL
  /\ \A c \in Contexts : c = cpu \/ c # BootStack => QueuePrivate(c)

LEMMA QueueInit == Init => QueueInv
BY TaskingAssumption DEF Init, QueueInv, QueuePrivate, Queued, BeingCreated, CreateSteps, PushSteps,
   Contexts, BootSlot, Slots

\* Steps that leave the queue and the creations alone.
LEMMA QueueQuiet ==
  ASSUME SchedulerInv, QueueInv, UNCHANGED <<g_runqueue, next, used, slot>>,
         \A c \in Contexts : \/ pc'[c] = pc[c]
                             \/ {pc[c], pc'[c]} \cap (CreateSteps \cup PushSteps) = {},
         cpu' = cpu \/ (cpu' # BootStack /\ g_runqueue # NULL /\ next[g_runqueue] # NULL)
  PROVE  QueueInv'
<1>1. \A c \in Contexts : pc[c] \in CreateSteps \cup PushSteps \/ pc'[c] \in CreateSteps \cup PushSteps
                            => pc'[c] = pc[c]
  OBVIOUS
<1>2. \A s \in Slots : BeingCreated(s) <=> BeingCreated(s)'
  BY <1>1 DEF BeingCreated
<1>3. BootStack \in Contexts
  BY DEF Contexts
<1>4. g_runqueue' # NULL /\ next'[g_runqueue'] = NULL => cpu' = BootStack /\ pc'[BootStack] = "push_self"
  BY <1>1, <1>3 DEF QueueInv, PushSteps
<1>5. \A c \in Contexts : c = cpu' \/ c # BootStack => QueuePrivate(c)'
  <2>1. SUFFICES ASSUME NEW c \in Contexts, c = cpu' \/ c # BootStack PROVE QueuePrivate(c)'
    OBVIOUS
  <2>2. QueuePrivate(c)
    BY <2>1 DEF QueueInv
  <2>3. CASE pc'[c] \in CreateSteps \cup PushSteps
    BY <1>1, <2>2, <2>3 DEF QueuePrivate
  <2>4. CASE pc'[c] \notin CreateSteps \cup PushSteps
    BY <2>4 DEF QueuePrivate, CreateSteps, PushSteps
  <2>5. QED
    BY <2>3, <2>4
<1>6. QED
  BY <1>2, <1>4, <1>5 DEF QueueInv

\* What a step of a creation has to show.
LEMMA QueueStep ==
  ASSUME SchedulerInv, OneSpawner, QueueInv, NEW c \in Contexts, c = cpu,
         pc[c] \in CreateSteps \cup PushSteps, UNCHANGED <<cpu, slot>>,
         pc'[c] \in CreateSteps \cup PushSteps \cup {"run"},
         \A d \in Contexts \ {c} : pc'[d] = pc[d] \/ (pc[d] = "given" /\ pc'[d] = "run"),
         \A s \in Slots : used'[s] => used[s] \/ s = slot[c],
         \A s \in Slots : Queued(next, g_runqueue, s) => Queued(next', g_runqueue', s),
         pc'[c] = "run" => Queued(next', g_runqueue', slot[c]),
         g_runqueue' # NULL => OneCircle(next', g_runqueue'),
         next'[BootSlot] = NULL,
         g_runqueue' # NULL /\ next'[g_runqueue'] = NULL => c = BootStack /\ pc'[c] = "push_self",
         g_runqueue = NULL \/ g_runqueue' # NULL,
         QueuePrivate(c)'
  PROVE  QueueInv'
<1>1. c \in Creators
  BY CreatingFacts
<1>2. \A d \in Contexts \ {c} : d # BootStack => QueuePrivate(d)'
  <2>1. SUFFICES ASSUME NEW d \in Contexts \ {c}, d # BootStack PROVE QueuePrivate(d)'
    OBVIOUS
  <2>2. pc'[d] \notin CreateSteps \cup PushSteps
    <3>1. pc[d] \notin CreateSteps \cup PushSteps
      BY <1>1, <2>1, CreatesAlone
    <3>2. QED
      BY <3>1 DEF CreateSteps, PushSteps
  <2>3. QED
    BY <2>2 DEF QueuePrivate, CreateSteps, PushSteps
<1>3. ASSUME NEW s \in Slots \ {BootSlot}, used'[s], ~BeingCreated(s)'
      PROVE  Queued(next', g_runqueue', s)
  <2>1. CASE s = slot[c]
    <3>1. pc'[c] = "run"
      BY <1>3, <2>1 DEF BeingCreated
    <3>2. QED
      BY <2>1, <3>1
  <2>2. CASE s # slot[c]
    <3>1. used[s]
      BY <1>3, <2>2
    <3>2. ~BeingCreated(s)
      <4>1. SUFFICES ASSUME NEW d \in Contexts, slot[d] = s, pc[d] \in CreateSteps \cup PushSteps
                     PROVE  FALSE
        BY DEF BeingCreated
      <4>2. d # c
        BY <2>2, <4>1
      <4>3. pc'[d] = pc[d]
        BY <4>1, <4>2 DEF CreateSteps, PushSteps
      <4>4. QED
        BY <1>3, <4>1, <4>3 DEF BeingCreated
    <3>3. QED
      BY <3>1, <3>2 DEF QueueInv
  <2>3. QED
    BY <2>1, <2>2
<1>4. cpu' # BootStack => g_runqueue' # NULL
  BY DEF QueueInv
<1>5. \A d \in Contexts : d = cpu' \/ d # BootStack => QueuePrivate(d)'
  BY <1>2
<1>6. g_runqueue' # NULL /\ next'[g_runqueue'] = NULL => cpu' = BootStack /\ pc'[BootStack] = "push_self"
  OBVIOUS
<1>7. \A s \in Slots \ {BootSlot} : used'[s] /\ ~BeingCreated(s)' => Queued(next', g_runqueue', s)
  BY <1>3
<1>8. QED
  BY <1>4, <1>5, <1>6, <1>7 DEF QueueInv

\* A tick: only a queue whose head is there takes the CPU from kernel_main.
LEMMA QueueTick ==
  ASSUME SchedulerInv, SchedulerInv', QueueInv, scheduler_on_tick,
         cpu' # cpu
  PROVE  cpu' # BootStack /\ g_runqueue # NULL /\ next[g_runqueue] # NULL
<1> USE TaskingAssumption DEF SchedulerInv
<1>1. TickOutcome
  BY TickDoes
<1>2. g_runqueue # NULL /\ Built(g_current') /\ cpu' = saved_esp'[g_current']
  BY <1>1 DEF TickOutcome
<1>3. cpu' # BootStack
  BY <1>2 DEF BootPhases, Built
<1>4. ASSUME next[g_runqueue] = NULL PROVE FALSE
  <2>1. cpu = BootStack /\ next[BootSlot] = NULL /\ g_current \in {BootSlot, NULL}
    BY <1>2, <1>4 DEF QueueInv, BootPhases
  <2>2. runqueue_head = NULL
    BY <1>4 DEF runqueue_head
  <2>3. CASE FirstTick
    BY <2>2, <2>3 DEF FirstTick
  <2>4. CASE LaterTick
    <3>1. g_current = BootSlot
      BY <2>1, <2>4 DEF LaterTick
    <3>2. PickNext(g_current) = g_current
      BY <2>1, <2>2, <3>1 DEF PickNext
    <3>3. QED
      BY <2>4, <3>2 DEF LaterTick
  <2>5. CASE StayOn
    BY <2>5 DEF StayOn
  <2>6. QED
    BY <2>3, <2>4, <2>5 DEF scheduler_on_tick
<1>5. QED
  BY <1>2, <1>3, <1>4

LEMMA QueueTicks ==
  ASSUME SchedulerInv, SchedulerInv', QueueInv,
         Tick \/ \E c \in Contexts : ExitYield(c)
  PROVE  QueueInv'
<1>1. scheduler_on_tick /\ UNCHANGED slot
  BY DEF Tick, ExitYield, locals
<1>2. UNCHANGED <<g_runqueue, next, used>>
  BY <1>1 DEF scheduler_on_tick
<1>3. \A c \in Contexts : \/ pc'[c] = pc[c]
                          \/ {pc[c], pc'[c]} \cap (CreateSteps \cup PushSteps) = {}
  BY DEF Tick, locals, ExitYield, At, Goto, SchedulerInv, TypeOK, CreateSteps, PushSteps
<1>4. cpu' = cpu \/ (cpu' # BootStack /\ g_runqueue # NULL /\ next[g_runqueue] # NULL)
  BY <1>1, QueueTick
<1>5. QED
  BY <1>1, <1>2, <1>3, <1>4, QueueQuiet

\* tasking_init starts with an empty queue.
LEMMA QueueTaskingInit ==
  ASSUME SchedulerInv, QueueInv, InitAlloc \/ InitFields
  PROVE  QueueInv'
<1> USE TaskingAssumption DEF SchedulerInv
<1>1. /\ BootStack \in Contexts /\ BootSlot \in Slots
      /\ \A c \in Contexts : c = BootStack \/ c \in Stacks
      /\ \A c \in Stacks : c \in Contexts /\ c # BootStack
  BY DEF Contexts, BootSlot, Slots
<1>2. /\ cpu = BootStack /\ pc[BootStack] \in {"init", "init_fields"} /\ UNCHANGED <<cpu, slot>>
      /\ pc'[BootStack] \in {"init_fields", "run"} /\ \A c \in Stacks : pc'[c] = pc[c]
  BY <1>1 DEF InitAlloc, InitFields, At, Goto, TypeOK
<1>3. g_runqueue = NULL /\ g_runqueue' = NULL
  BY <1>2 DEF InitAlloc, InitFields, BootPhases
<1>4. next'[BootSlot] = NULL
  BY <1>1 DEF InitAlloc, InitFields, QueueInv, TypeOK
<1>5. \A c \in Contexts : pc'[c] \notin CreateSteps \cup PushSteps
  BY <1>1, <1>2 DEF BootPhases, CreateSteps, PushSteps
<1>6. \A c \in Contexts : QueuePrivate(c)'
  BY <1>5 DEF QueuePrivate, CreateSteps, PushSteps
<1>7. ASSUME NEW s \in Slots \ {BootSlot}, used'[s] PROVE FALSE
  <2>1. CASE InitAlloc
    BY <1>7, <2>1 DEF InitAlloc
  <2>2. CASE InitFields
    <3>1. used[s] /\ ~BeingCreated(s)
      <4>1. \A c \in Contexts : pc[c] \notin CreateSteps \cup PushSteps
        BY <1>1, <1>2 DEF BootPhases, CreateSteps, PushSteps
      <4>2. QED
        BY <1>7, <2>2, <4>1 DEF BeingCreated, InitFields
    <3>2. QED
      BY <1>3, <1>7, <3>1 DEF QueueInv, Queued
  <2>3. QED
    BY <2>1, <2>2
<1>8. QED
  BY <1>2, <1>3, <1>4, <1>6, <1>7 DEF QueueInv

LEMMA QueueTaskCreate ==
  ASSUME SchedulerInv, OneSpawner, QueueInv, NEW c \in Contexts, NEW s \in Stacks, TaskCreate(c, s)
  PROVE  QueueInv'
<1>1. /\ c = cpu /\ c \in Creators /\ pc[c] = "run" /\ pc[s] = "free"
      /\ UNCHANGED <<g_runqueue, used, next, cpu>>
      /\ \A d \in Contexts \ {c} : slot'[d] = slot[d]
  BY DEF TaskCreate, At, globals, fields, SchedulerInv, TypeOK
<1>2. \A d \in Contexts : pc'[d] = IF d = s THEN "given" ELSE IF d = c THEN "claim" ELSE pc[d]
  BY DEF TaskCreate, SchedulerInv, TypeOK
<1>3. s \in Contexts /\ s # c /\ BootStack \in Contexts
  BY <1>1 DEF Contexts
<1>4. \A t \in Slots : BeingCreated(t) => BeingCreated(t)'
  <2>1. SUFFICES ASSUME NEW t \in Slots, NEW d \in Contexts, slot[d] = t,
                        pc[d] \in CreateSteps \cup PushSteps
                 PROVE  BeingCreated(t)'
    BY DEF BeingCreated
  <2>2. d # c /\ d # s
    BY <1>1, <2>1 DEF CreateSteps, PushSteps
  <2>3. slot'[d] = t /\ pc'[d] = pc[d]
    BY <1>1, <1>2, <2>1, <2>2
  <2>4. QED
    BY <2>1, <2>3 DEF BeingCreated
<1>5. ASSUME NEW d \in Contexts, d = cpu \/ d # BootStack PROVE QueuePrivate(d)'
  <2>1. pc'[d] \notin PushSteps \cup {"frame"}
    <3>1. CASE d = c
      BY <1>2, <1>3, <3>1 DEF PushSteps
    <3>2. CASE d # c
      <4>1. pc[d] \notin CreateSteps \cup PushSteps
        BY <1>1, <1>5, <3>2, CreatesAlone
      <4>2. QED
        BY <1>2, <3>2, <4>1 DEF CreateSteps, PushSteps
    <3>3. QED
      BY <3>1, <3>2
  <2>2. QED
    BY <2>1 DEF QueuePrivate, PushSteps
<1>6. g_runqueue' # NULL /\ next'[g_runqueue'] = NULL => cpu' = BootStack /\ pc'[BootStack] = "push_self"
  <2>1. ASSUME g_runqueue # NULL, next[g_runqueue] = NULL PROVE FALSE
    BY <1>1, <2>1 DEF QueueInv
  <2>2. QED
    BY <1>1, <2>1
<1>7. QED
  BY <1>1, <1>4, <1>5, <1>6 DEF QueueInv

\* The steps of a creation up to its push.
LEMMA QueueCreate ==
  ASSUME SchedulerInv, OneSpawner, QueueInv, NEW c \in Contexts,
         ClaimSlot(c) \/ ZeroTask(c) \/ BuildFrame(c) \/ PushTest(c)
  PROVE  QueueInv'
<1> USE TaskingAssumption DEF SchedulerInv
<1>1. /\ c = cpu /\ pc[c] \in {"claim", "zero", "frame", "push"} /\ UNCHANGED <<cpu, slot, g_runqueue>>
      /\ pc'[c] \in {"zero", "frame", "push", "push_first", "push_link"}
  BY DEF ClaimSlot, ZeroTask, BuildFrame, PushTest, At, Goto, TypeOK, globals, fields
<1>2. pc[c] \in CreateSteps \cup PushSteps /\ pc'[c] \in CreateSteps \cup PushSteps
  BY <1>1 DEF CreateSteps, PushSteps
<1>3. CreationPrivate(c) /\ slot[c] \in Slots \ {BootSlot} /\ QueuePrivate(c) /\ BootSlot \in Slots
  BY <1>1, <1>2, CreatingFacts DEF QueueInv, Slots, BootSlot
<1> DEFINE t == slot[c]
<1>4. \A d \in Contexts \ {c} : pc'[d] = pc[d] \/ (pc[d] = "given" /\ pc'[d] = "run")
  <2>1. CASE BuildFrame(c)
    BY <1>3, <2>1 DEF BuildFrame, At, CreationPrivate, CreateSteps, TypeOK
  <2>2. QED
    BY <2>1 DEF ClaimSlot, ZeroTask, PushTest, Goto, TypeOK
<1>5. \A s \in Slots : used'[s] => used[s] \/ s = t
  BY DEF ClaimSlot, ZeroTask, BuildFrame, PushTest, TypeOK, globals
<1>6. ASSUME pc[c] \in CreateSteps, g_runqueue # NULL
      PROVE  t \notin From(next, g_runqueue)
  <2>1. g_runqueue # t /\ (\A x \in Slots : next[x] # t) /\ g_runqueue \in Slots
    BY <1>3, <1>6 DEF CreationPrivate, TypeOK
  <2>2. QED
    BY <2>1, Unpointed DEF TypeOK
<1>7. ~Queued(next, g_runqueue, t)
  <2>1. CASE pc[c] \in CreateSteps
    BY <1>6, <2>1 DEF Queued
  <2>2. CASE pc[c] = "push"
    BY <1>3, <2>2 DEF QueuePrivate
  <2>3. QED
    BY <1>1, <2>1, <2>2 DEF CreateSteps
<1>8. \/ UNCHANGED next
      \/ /\ pc'[c] = "frame" /\ next'[t] = NULL
         /\ \A x \in Slots \ {t} : next'[x] = next[x]
  BY <1>3 DEF ClaimSlot, ZeroTask, BuildFrame, PushTest, Goto, At, TypeOK, fields
<1>9. next' \in [Slots -> Slots \cup {NULL}]
  BY DEF ClaimSlot, ZeroTask, BuildFrame, PushTest, TypeOK, fields
<1>10. next'[BootSlot] = NULL
  BY <1>3, <1>8 DEF QueueInv
<1>11. g_runqueue # NULL => /\ From(next', g_runqueue) = From(next, g_runqueue)
                            /\ OneCircle(next', g_runqueue)
  <2>1. CASE UNCHANGED next
    BY <2>1 DEF QueueInv
  <2>2. ASSUME g_runqueue # NULL, \A x \in Slots \ {t} : next'[x] = next[x]
        PROVE  /\ From(next', g_runqueue) = From(next, g_runqueue)
               /\ OneCircle(next', g_runqueue)
    <3>1. t \notin From(next, g_runqueue) /\ OneCircle(next, g_runqueue) /\ g_runqueue \in Slots
      BY <1>7, <2>2 DEF Queued, QueueInv, TypeOK
    <3>2. QED
      BY <1>9, <2>2, <3>1, StoreOutside DEF TypeOK
  <2>3. QED
    BY <1>8, <2>1, <2>2
<1>12. ~Queued(next', g_runqueue, t)
  BY <1>7, <1>11 DEF Queued
<1>13. next[t] = NULL \/ pc[c] \notin {"frame", "push"}
  BY <1>3 DEF QueuePrivate
<1>14. ASSUME g_runqueue # NULL, next'[g_runqueue] = NULL PROVE FALSE
  <2>1. g_runqueue \in From(next, g_runqueue) /\ g_runqueue \in Slots
    BY <1>14, FromFacts DEF TypeOK
  <2>2. g_runqueue # t
    BY <1>7, <1>14, <2>1 DEF Queued
  <2>3. next[g_runqueue] = NULL
    BY <1>8, <1>14, <2>1, <2>2
  <2>4. QED
    BY <1>1, <1>14, <2>3 DEF QueueInv
<1>15. QueuePrivate(c)'
  <2>1. pc'[c] \in {"frame", "push", "push_first", "push_link"} => next'[t] = NULL
    BY <1>3, <1>13 DEF ClaimSlot, ZeroTask, BuildFrame, PushTest, Goto, At, TypeOK, globals, fields
  <2>2. pc'[c] = "push_first" => g_runqueue = NULL
    BY <1>1 DEF ClaimSlot, ZeroTask, BuildFrame, PushTest, Goto, At, TypeOK
  <2>3. QED
    BY <1>1, <1>12, <2>1, <2>2 DEF QueuePrivate
<1>16. \A s \in Slots : Queued(next, g_runqueue, s) => Queued(next', g_runqueue', s)
  BY <1>1, <1>11 DEF Queued
<1>17. pc'[c] # "run" /\ (g_runqueue' # NULL => OneCircle(next', g_runqueue'))
  BY <1>1, <1>11
<1> HIDE DEF SchedulerInv, t
<1>18. QED
  BY <1>1, <1>2, <1>4, <1>5, <1>10, <1>14, <1>15, <1>16, <1>17, QueueStep DEF t

\* The push itself, store by store.
LEMMA QueuePush ==
  ASSUME SchedulerInv, OneSpawner, QueueInv, NEW c \in Contexts,
         PushFirst(c) \/ PushSelf(c) \/ PushLink(c) \/ PushChain(c) \/ PushTail(c)
  PROVE  QueueInv'
<1> USE TaskingAssumption DEF SchedulerInv
<1>1. /\ c = cpu /\ pc[c] \in {"push_first", "push_self", "push_link", "push_chain", "push_tail"}
      /\ UNCHANGED <<cpu, slot, used>>
      /\ pc'[c] \in {"push_self", "push_chain", "push_tail", "run"}
      /\ \A d \in Contexts \ {c} : pc'[d] = pc[d]
  BY DEF PushFirst, PushSelf, PushLink, PushChain, PushTail, At, Goto, TypeOK, globals, fields
<1>2. pc[c] \in CreateSteps \cup PushSteps /\ pc'[c] \in CreateSteps \cup PushSteps \cup {"run"}
  BY <1>1 DEF CreateSteps, PushSteps
<1>3. /\ CreationPrivate(c) /\ slot[c] \in Slots \ {BootSlot} /\ QueuePrivate(c) /\ BootSlot \in Slots
      /\ NULL \notin Slots
  BY <1>1, <1>2, CreatingFacts DEF QueueInv, Slots, BootSlot
<1> DEFINE t == slot[c]
           g == g_runqueue
\* All that is left to show of each.
<1> DEFINE Grown == \A s \in Slots : Queued(next, g_runqueue, s) => Queued(next', g_runqueue', s)
           Circle == g_runqueue' # NULL => OneCircle(next', g_runqueue')
           Headed == g_runqueue' # NULL /\ next'[g_runqueue'] = NULL => c = BootStack /\ pc'[c] = "push_self"
<1>4. ASSUME Grown, Circle, Headed, next'[BootSlot] = NULL, g_runqueue = NULL \/ g_runqueue' # NULL,
             pc'[c] = "run" => Queued(next', g_runqueue', t), QueuePrivate(c)'
      PROVE  QueueInv'
  <2> HIDE DEF SchedulerInv
  <2>1. \A d \in Contexts \ {c} : pc'[d] = pc[d] \/ (pc[d] = "given" /\ pc'[d] = "run")
    BY <1>1
  <2>2. \A s \in Slots : used'[s] => used[s] \/ s = slot[c]
    BY <1>1
  <2>3. QED
    BY <1>1, <1>2, <1>4, <2>1, <2>2, QueueStep
<1>5. next \in [Slots -> Slots \cup {NULL}] /\ next[BootSlot] = NULL
      /\ (g # NULL => g \in Slots /\ OneCircle(next, g))
  BY DEF TypeOK, QueueInv
<1>6. CASE PushFirst(c)
  <2>1. g_runqueue = NULL /\ g_runqueue' = t /\ UNCHANGED next /\ pc[c] = "push_first"
        /\ pc'[c] = "push_self"
    BY <1>3, <1>6 DEF PushFirst, At, Goto, QueuePrivate, TypeOK, fields
  <2>2. c = BootStack
    BY <1>1, <2>1 DEF QueueInv
  <2>3. next[t] = NULL
    BY <1>3, <2>1 DEF QueuePrivate
  <2>4. OneCircle(next, t)
    BY <1>3, <1>5, <2>3, Alone
  <2>5. Grown /\ Circle /\ Headed
    BY <2>1, <2>2, <2>4 DEF Queued
  <2>6. QueuePrivate(c)'
    BY <1>1, <2>1, <2>3 DEF QueuePrivate
  <2>7. QED
    BY <1>3, <1>4, <1>5, <2>1, <2>5, <2>6
<1>7. CASE PushSelf(c)
  <2>1. g = t /\ next[t] = NULL /\ UNCHANGED g_runqueue /\ next' = [next EXCEPT ![t] = t]
        /\ pc'[c] = "run"
    BY <1>3, <1>7 DEF PushSelf, At, Goto, QueuePrivate, TypeOK, globals
  <2>2. /\ next' \in [Slots -> Slots \cup {NULL}] /\ next'[t] = t /\ next'[BootSlot] = NULL
    BY <1>3, <1>5, <2>1
  <2>3. From(next, t) = {t} /\ From(next', t) = {t} /\ OneCircle(next', t)
    BY <1>3, <1>5, <2>1, <2>2, Alone
  <2>4. Grown /\ Circle /\ Headed /\ Queued(next', g_runqueue', t)
    BY <1>3, <2>1, <2>2, <2>3 DEF Queued
  <2>5. QueuePrivate(c)'
    BY <2>1 DEF QueuePrivate
  <2>6. QED
    BY <1>4, <2>1, <2>2, <2>4, <2>5
<1>8. CASE PushLink(c)
  <2>1. pc[c] = "push_link" /\ UNCHANGED g_runqueue /\ next' = [next EXCEPT ![t] = next[g]]
        /\ pc'[c] = "push_chain"
    BY <1>8 DEF PushLink, At, Goto, TypeOK, globals
  <2>2. g \in Slots /\ g # NULL /\ ~Queued(next, g, t)
    BY <1>3, <1>5, <2>1 DEF CreationPrivate, QueuePrivate
  <2>3. t # g /\ t \notin From(next, g)
    BY <1>5, <2>2, FromFacts DEF Queued
  <2>4. next[g] # NULL
    BY <1>1, <2>1, <2>2 DEF QueueInv
  <2>5. /\ next' \in [Slots -> Slots \cup {NULL}] /\ next'[t] = next[g]
        /\ \A x \in Slots \ {t} : next'[x] = next[x]
    BY <1>3, <1>5, <2>1, <2>2
  <2>6. From(next', g) = From(next, g) /\ OneCircle(next', g)
    BY <1>5, <2>2, <2>3, <2>5, StoreOutside
  <2>7. Grown /\ Circle /\ Headed
    BY <2>1, <2>2, <2>3, <2>4, <2>5, <2>6 DEF Queued
  <2>8. QueuePrivate(c)'
    BY <1>1, <2>1, <2>2, <2>3, <2>4, <2>5, <2>6 DEF QueuePrivate, Queued
  <2>9. QED
    BY <1>3, <1>4, <1>5, <2>1, <2>5, <2>7, <2>8
<1>9. CASE PushChain(c)
  <2>1. pc[c] = "push_chain" /\ UNCHANGED g_runqueue /\ next' = [next EXCEPT ![g] = t]
        /\ pc'[c] = "push_tail"
    BY <1>9 DEF PushChain, At, Goto, TypeOK, globals
  <2>2. g \in Slots /\ g # NULL /\ ~Queued(next, g, t) /\ next[g] # NULL /\ next[t] = next[g]
    BY <1>3, <1>5, <2>1 DEF CreationPrivate, QueuePrivate
  <2>3. t # g /\ g # BootSlot
    BY <1>5, <2>2, FromFacts DEF Queued
  <2>4. /\ next' \in [Slots -> Slots \cup {NULL}] /\ next'[g] = t
        /\ \A x \in Slots \ {g} : next'[x] = next[x]
    BY <1>3, <1>5, <2>1, <2>2
  <2>5. From(next, g) \subseteq From(next', g) /\ OneCircle(next', g)
    BY <1>3, <1>5, <2>2, <2>3, <2>4, LinkedIn
  <2>6. Grown /\ Circle /\ Headed
    BY <1>3, <2>1, <2>2, <2>4, <2>5 DEF Queued
  <2>7. QueuePrivate(c)'
    BY <1>1, <2>1, <2>2, <2>4 DEF QueuePrivate
  <2>8. QED
    BY <1>3, <1>4, <1>5, <2>1, <2>2, <2>3, <2>4, <2>6, <2>7
<1>10. CASE PushTail(c)
  <2>1. pc[c] = "push_tail" /\ g_runqueue' = t /\ UNCHANGED next /\ pc'[c] = "run"
    BY <1>10 DEF PushTail, At, Goto, TypeOK, fields
  <2>2. g \in Slots /\ g # NULL /\ next[g] = t
    BY <1>3, <1>5, <2>1 DEF QueuePrivate
  <2>3. t \in From(next, g)
    <3>1. g \in From(next, g) /\ Closed(next, From(next, g))
      BY <1>5, <2>2, FromFacts
    <3>2. QED
      BY <1>3, <2>2, <3>1 DEF Closed
  <2>4. From(next, t) = From(next, g) /\ OneCircle(next, t)
    BY <1>5, <2>2, <2>3, TailMoved
  <2>5. next[t] # NULL
    <3>1. g \in From(next, t)
      BY <1>5, <2>2, <2>4, FromFacts
    <3>2. ASSUME next[t] = NULL PROVE FALSE
      <4>1. From(next, t) = {t}
        BY <1>3, <1>5, <3>2, Alone
      <4>2. QED
        BY <1>3, <2>2, <3>1, <3>2, <4>1
    <3>3. QED
      BY <3>2
  <2>6. Grown /\ Circle /\ Headed /\ Queued(next', g_runqueue', t)
    BY <1>3, <2>1, <2>2, <2>3, <2>4, <2>5 DEF Queued
  <2>7. QueuePrivate(c)'
    BY <2>1 DEF QueuePrivate
  <2>8. QED
    BY <1>3, <1>4, <1>5, <2>1, <2>6, <2>7
<1>11. QED
  BY <1>6, <1>7, <1>8, <1>9, <1>10

LEMMA QueueNext ==
  ASSUME SchedulerInv, SchedulerInv', OneSpawner, QueueInv, [Next]_vars
  PROVE  QueueInv'
<1>1. CASE Tick \/ \E c \in Contexts : ExitYield(c)
  BY <1>1, QueueTicks
<1>2. CASE InitAlloc \/ InitFields
  BY <1>2, QueueTaskingInit
<1>3. ASSUME NEW c \in Contexts, task_create(c) PROVE QueueInv'
  BY <1>3, QueueTaskCreate, QueueCreate, QueuePush DEF task_create
<1>4. ASSUME NEW c \in Contexts, ExitLockLoad(c) \/ ExitLockStore(c) \/ ExitMark(c) \/ ExitUnlock(c)
      PROVE  QueueInv'
  <2>1. UNCHANGED <<g_runqueue, next, used, slot, cpu>>
    BY <1>4 DEF ExitLockLoad, ExitLockStore, ExitMark, ExitUnlock, globals, fields
  <2>2. \A d \in Contexts : \/ pc'[d] = pc[d]
                            \/ {pc[d], pc'[d]} \cap (CreateSteps \cup PushSteps) = {}
    BY <1>4 DEF ExitLockLoad, ExitLockStore, ExitMark, ExitUnlock, At, Goto, SchedulerInv, TypeOK,
       CreateSteps, PushSteps
  <2>3. QED
    BY <2>1, <2>2, QueueQuiet
<1>5. CASE UNCHANGED vars
  <2>1. UNCHANGED <<g_runqueue, next, used, slot, cpu, pc>>
    BY <1>5 DEF vars, globals, fields, locals
  <2>2. QED
    BY <2>1, QueueQuiet
<1>6. QED
  BY <1>1, <1>2, <1>3, <1>4, <1>5 DEF Next, Exiting

\* The run queue is one circle of all the tasks created, for any number of
\* tasks and wherever ticks cut runqueue_push, one that kernel_main never
\* finishes included.
THEOREM QueueNeverBreaks == OneSpawner => (Spec => []RunqueueCircle)
<1> SUFFICES ASSUME OneSpawner PROVE Spec => []RunqueueCircle
  OBVIOUS
<1>1. Init => SchedulerInv /\ QueueInv
  BY InitInv, QueueInit
<1>2. SchedulerInv /\ QueueInv /\ [Next]_vars => (SchedulerInv /\ QueueInv)'
  <2> SUFFICES ASSUME SchedulerInv, QueueInv, [Next]_vars PROVE SchedulerInv' /\ QueueInv'
    OBVIOUS
  <2>1. SchedulerInv'
    BY NextPreserves
  <2>2. QueueInv'
    BY <2>1, QueueNext
  <2>3. QED
    BY <2>1, <2>2
<1>3. SchedulerInv /\ QueueInv => RunqueueCircle
  <2> SUFFICES ASSUME SchedulerInv, QueueInv, g_runqueue # NULL
               PROVE  /\ \A s \in From(next, g_runqueue) : g_runqueue \in From(next, s)
                      /\ BootSlot \notin From(next, g_runqueue)
                      /\ {s \in Slots \ {BootSlot} : used[s] /\ ~BeingCreated(s)}
                           \subseteq From(next, g_runqueue)
    BY DEF RunqueueCircle, Reach, From, Closed
  <2>1. OneCircle(next, g_runqueue) /\ g_runqueue \in Slots /\ g_runqueue # BootSlot
    BY DEF QueueInv, SchedulerInv, TypeOK, PointersToBuilt, Built
  <2>2. \A x \in Slots : next[x] # BootSlot
    BY TaskingAssumption DEF SchedulerInv, PointersToBuilt, Built, BootSlot, Slots
  <2>3. BootSlot \notin From(next, g_runqueue)
    BY <2>1, <2>2, Unpointed DEF SchedulerInv, TypeOK
  <2>4. QED
    BY <2>1, <2>3 DEF QueueInv, OneCircle, Queued
<1>4. QED
  BY <1>1, <1>2, <1>3, PTL DEF Spec

-----------------------------------------------------------------------------
(* The run queue as a ring, and the steps of RoundRobin.                   *)

LEMMA Least ==
  ASSUME NEW T \in SUBSET Nat, T # {}
  PROVE  \E m \in T : \A n \in T : m =< n
<1>1. PICK m \in T : \A n \in T : <<n, m>> \notin OpToRel(<, Nat)
  BY NatLessThanWellFounded, WFMin, Zenon
<1>2. ASSUME NEW n \in T PROVE m =< n
  <2>1. <<n, m>> \notin {ss \in Nat \X Nat : ss[1] < ss[2]}
    BY <1>1 DEF OpToRel
  <2>2. n \in Nat /\ m \in Nat
    OBVIOUS
  <2>3. QED
    BY <2>1, <2>2
<1>3. QED
  BY <1>2

\* A circle of next pointers through the first task, from there.
Circle(nx, list) ==
  /\ list \in Seq(Slots) /\ Len(list) > 0 /\ list[1] = FirstTask
  /\ \A i, j \in 1 .. Len(list) : list[i] = list[j] => i = j
  /\ \A i \in 1 .. Len(list) : nx[list[i]] = list[IF i = Len(list) THEN 1 ELSE i + 1]

Members(list) == {list[i] : i \in 1 .. Len(list)}

LEMMA CircleFacts ==
  ASSUME NEW nx, NEW list, Circle(nx, list)
  PROVE  /\ Len(list) \in Nat \ {0} /\ list \in [1 .. Len(list) -> Slots]
         /\ FirstTask \in Members(list) /\ Members(list) \subseteq Slots
         /\ nx[list[Len(list)]] = FirstTask
         /\ \A i \in 1 .. Len(list) : i # Len(list) => i + 1 \in 1 .. Len(list) /\ nx[list[i]] = list[i + 1]
         /\ \A s \in Members(list) : nx[s] \in Members(list)
<1>1. Len(list) \in Nat \ {0} /\ list \in [1 .. Len(list) -> Slots]
  <2>1. list \in Seq(Slots) /\ Len(list) > 0
    BY Zenon DEF Circle
  <2>2. QED
    BY <2>1
<1>2. FirstTask \in Members(list) /\ Members(list) \subseteq Slots
  <2>1. list[1] = FirstTask
    BY Zenon DEF Circle
  <2>2. 1 \in 1 .. Len(list)
    BY <1>1
  <2>3. QED
    BY <1>1, <2>1, <2>2 DEF Members
<1>3. nx[list[Len(list)]] = FirstTask
  <2>1. Len(list) \in 1 .. Len(list)
    BY <1>1
  <2>2. QED
    BY <2>1 DEF Circle
<1>4. ASSUME NEW i \in 1 .. Len(list), i # Len(list)
      PROVE  i + 1 \in 1 .. Len(list) /\ nx[list[i]] = list[i + 1]
  <2>1. nx[list[i]] = list[i + 1]
    <3>1. nx[list[i]] = list[IF i = Len(list) THEN 1 ELSE i + 1]
      BY Zenon DEF Circle
    <3>2. QED
      BY <1>4, <3>1
  <2>2. i + 1 \in 1 .. Len(list)
    <3>1. Len(list) \in Nat
      BY <1>1
    <3>2. QED
      BY <1>4, <3>1
  <2>3. QED
    BY <2>1, <2>2
<1>5. ASSUME NEW s \in Members(list) PROVE nx[s] \in Members(list)
  <2>1. PICK i \in 1 .. Len(list) : s = list[i]
    BY DEF Members
  <2>2. QED
    BY <1>1, <1>2, <1>3, <1>4, <2>1 DEF Members
<1>6. QED
  BY <1>1, <1>2, <1>3, <1>4, <1>5

\* Who follows the circle from a place on it comes to its end, and so round.
LEMMA CircleUp ==
  ASSUME NEW nx, NEW list, Circle(nx, list), NEW F, Closed(nx, F), NULL \notin Slots,
         NEW a \in 1 .. Len(list), list[a] \in F
  PROVE  \A i \in a .. Len(list) : list[i] \in F
<1> DEFINE T == {i \in Nat : i \in a .. Len(list) /\ list[i] \notin F}
<1>1. SUFFICES ASSUME T # {} PROVE FALSE
  BY CircleFacts
<1>2. PICK m \in T : \A n \in T : m =< n
  BY <1>1, Least
<1>3. m \in a .. Len(list) /\ m # a /\ list[m] \notin F /\ Len(list) \in Nat
  BY <1>2, CircleFacts
<1>4. m - 1 \in Nat /\ m - 1 \in a .. Len(list) /\ m - 1 # Len(list) /\ ~(m =< m - 1)
  BY <1>3
<1>5. list[m - 1] \in F
  BY <1>2, <1>4
<1>6. nx[list[m - 1]] = list[(m - 1) + 1]
  BY <1>4, CircleFacts
<1>7. (m - 1) + 1 = m
  BY <1>3
<1>8. nx[list[m - 1]] = list[m]
  BY <1>6, <1>7
<1>9. list[m] # NULL
  BY <1>3, CircleFacts
<1>10. QED
  BY <1>3, <1>5, <1>8, <1>9 DEF Closed

LEMMA CircleRound ==
  ASSUME NEW nx, NEW list, Circle(nx, list), NEW F, Closed(nx, F), NULL \notin Slots,
         NEW g \in Members(list), g \in F
  PROVE  Members(list) \subseteq F
<1>1. PICK a \in 1 .. Len(list) : g = list[a]
  BY DEF Members
<1>2. list[Len(list)] \in F
  BY <1>1, CircleUp, CircleFacts
<1>3. list[1] \in F
  BY <1>2, CircleFacts DEF Closed, Circle
<1>4. \A i \in 1 .. Len(list) : list[i] \in F
  BY <1>3, CircleUp, CircleFacts
<1>5. QED
  BY <1>4 DEF Members

LEMMA CircleFrom ==
  ASSUME NEW nx \in [Slots -> Slots \cup {NULL}], NEW list, Circle(nx, list), NULL \notin Slots,
         NEW g \in Members(list)
  PROVE  From(nx, g) = Members(list)
<1>1. g \in Slots /\ Members(list) \in SUBSET Slots /\ Closed(nx, Members(list))
  BY CircleFacts DEF Closed
<1>2. From(nx, g) \subseteq Members(list)
  BY <1>1, FromFacts
<1>3. g \in From(nx, g) /\ Closed(nx, From(nx, g))
  BY <1>1, FromFacts
<1>4. Members(list) \subseteq From(nx, g)
  BY <1>3, CircleRound
<1>5. QED
  BY <1>2, <1>4

LEMMA CircleLength ==
  ASSUME NEW nx, NEW list, Circle(nx, list)
  PROVE  Cardinality(Members(list)) = Len(list)
<1>1. Len(list) \in Nat /\ list \in [1 .. Len(list) -> Members(list)]
  BY CircleFacts DEF Members
<1>2. list \in Injection(1 .. Len(list), Members(list))
  BY <1>1 DEF Circle, Injection, IsInjective
<1>3. list \in Surjection(1 .. Len(list), Members(list))
  BY <1>1 DEF Surjection, Members
<1>4. IsFiniteSet(1 .. Len(list)) /\ Cardinality(1 .. Len(list)) = Len(list)
  BY <1>1, FS_Interval
<1>5. QED
  BY <1>2, <1>3, <1>4, FS_Surjection

\* RingSeq walks the circle.
LEMMA RingIs ==
  ASSUME TypeOK, Linked, NEW list, Circle(next, list)
  PROVE  RingSeq = list
<1> DEFINE n == Cardinality(Reach(FirstTask))
<1>1. NULL \notin Slots
  BY TaskingAssumption
<1>2. Reach(FirstTask) = Members(list)
  <2>1. Reach(FirstTask) = From(next, FirstTask)
    BY DEF Reach, From, Closed
  <2>2. QED
    BY <1>1, <2>1, CircleFrom, CircleFacts DEF TypeOK
<1>3. n = Len(list) /\ n \in Nat
  BY <1>2, CircleLength, CircleFacts
<1> HIDE DEF n
<1>4. \E w : RingSeq = w /\ w = CHOOSE f : f = [i \in 1 .. n |-> IF i = 1 THEN FirstTask ELSE next[f[i - 1]]]
  BY Zenon DEF RingSeq, n
<1>5. list = [i \in 1 .. n |-> IF i = 1 THEN FirstTask ELSE next[list[i - 1]]]
  <2>1. ASSUME NEW i \in 1 .. n PROVE list[i] = IF i = 1 THEN FirstTask ELSE next[list[i - 1]]
    <3>1. CASE i = 1
      BY <3>1 DEF Circle
    <3>2. CASE i # 1
      <4>1. i - 1 \in 1 .. Len(list) /\ i - 1 # Len(list) /\ (i - 1) + 1 = i
        BY <1>3, <3>2
      <4>2. next[list[i - 1]] = list[(i - 1) + 1]
        BY <4>1, CircleFacts
      <4>3. QED
        BY <3>2, <4>1, <4>2
    <3>3. QED
      BY <3>1, <3>2
  <2>2. list \in [1 .. n -> Slots]
    BY <1>3, CircleFacts
  <2>3. QED
    BY <2>1, <2>2
<1>6. PICK w : RingSeq = w /\ w = [i \in 1 .. n |-> IF i = 1 THEN FirstTask ELSE next[w[i - 1]]]
  BY <1>4, <1>5, Zenon
<1>7. \A i \in 1 .. n : w[i] = list[i]
  <2> DEFINE T == {i \in Nat : i \in 1 .. n /\ w[i] # list[i]}
  <2>1. SUFFICES ASSUME T # {} PROVE FALSE
    BY <1>3
  <2>2. PICK m \in T : \A k \in T : m =< k
    BY <2>1, Least
  <2>3. m \in 1 .. n /\ w[m] # list[m]
    BY <2>2
  <2>4. m # 1
    <3>1. w[1] = FirstTask
      BY <1>3, <1>6, <2>3
    <3>2. QED
      BY <2>3, <3>1 DEF Circle
  <2>5. m - 1 \in Nat /\ m - 1 \in 1 .. n /\ ~(m =< m - 1)
    BY <1>3, <2>3, <2>4
  <2>6. w[m - 1] = list[m - 1]
    BY <2>2, <2>5
  <2>7. w[m] = next[w[m - 1]]
    <3>1. \A i \in 1 .. n : w[i] = IF i = 1 THEN FirstTask ELSE next[w[i - 1]]
      BY <1>6
    <3>2. QED
      BY <2>3, <2>4, <3>1
  <2>8. list[m] = next[list[m - 1]]
    <3>1. \A i \in 1 .. n : list[i] = IF i = 1 THEN FirstTask ELSE next[list[i - 1]]
      BY <1>5
    <3>2. QED
      BY <2>3, <2>4, <3>1
  <2>9. QED
    BY <2>3, <2>6, <2>7, <2>8
<1>8. w = list
  <2>1. list = [i \in 1 .. n |-> list[i]]
    BY <1>3, CircleFacts
  <2>2. w = [i \in 1 .. n |-> w[i]]
    BY <1>6
  <2>3. QED
    BY <1>7, <2>1, <2>2
<1>9. QED
  BY <1>6, <1>8

-----------------------------------------------------------------------------
(* What stores do to the circle.                                           *)

LEMMA CircleOutside ==
  ASSUME NEW nx, NEW ny, NEW list, Circle(nx, list),
         \A s \in Members(list) : ny[s] = nx[s]
  PROVE  Circle(ny, list)
<1>1. \A i \in 1 .. Len(list) : list[i] \in Members(list)
  BY DEF Members
<1>2. \A i \in 1 .. Len(list) : ny[list[i]] = nx[list[i]]
  BY <1>1
<1>3. QED
  BY <1>2, Zenon DEF Circle

LEMMA CircleFirst ==
  ASSUME NEW nx, FirstTask \in Slots, nx[FirstTask] = FirstTask
  PROVE  Circle(nx, <<FirstTask>>) /\ Members(<<FirstTask>>) = {FirstTask}
BY DEF Circle, Members

LEMMA Inserted ==
  ASSUME NEW list \in Seq(Slots), NEW m \in 1 .. Len(list), NEW t \in Slots
  PROVE  /\ Ring!InsertAt(list, m + 1, t) \in Seq(Slots)
         /\ Len(Ring!InsertAt(list, m + 1, t)) = Len(list) + 1
         /\ \A i \in 1 .. Len(list) + 1 : Ring!InsertAt(list, m + 1, t)[i] =
              IF i <= m THEN list[i] ELSE IF i = m + 1 THEN t ELSE list[i - 1]
<1> DEFINE before == SubSeq(list, 1, m)
           after  == SubSeq(list, m + 1, Len(list))
           start  == before \o <<t>>
<1>1. Len(list) \in Nat /\ m \in Nat /\ 1 =< m /\ m =< Len(list)
  OBVIOUS
<1>2. before \in Seq(Slots) /\ Len(before) = m /\ \A i \in 1 .. m : before[i] = list[i]
  BY <1>1
<1>3. /\ after \in Seq(Slots) /\ Len(after) = Len(list) - m
      /\ \A i \in 1 .. Len(list) - m : after[i] = list[i + m]
  BY <1>1
<1>4. <<t>> \in Seq(Slots) /\ Len(<<t>>) = 1 /\ <<t>>[1] = t
  OBVIOUS
<1> HIDE DEF before, after
<1>5. /\ start \in Seq(Slots) /\ Len(start) = m + 1
      /\ \A i \in 1 .. m + 1 : start[i] = IF i <= m THEN list[i] ELSE t
  <2>1. /\ before \o <<t>> \in Seq(Slots)
        /\ Len(before \o <<t>>) = Len(before) + Len(<<t>>)
        /\ \A i \in 1 .. Len(before) + Len(<<t>>) : (before \o <<t>>)[i] =
             IF i <= Len(before) THEN before[i] ELSE <<t>>[i - Len(before)]
    BY <1>2, <1>4, ConcatProperties, Zenon
  <2>2. ASSUME NEW i \in 1 .. m + 1 PROVE start[i] = IF i <= m THEN list[i] ELSE t
    <3>1. CASE i <= m
      BY <1>1, <1>2, <1>4, <2>1, <2>2, <3>1
    <3>2. CASE ~(i <= m)
      <4>1. i = m + 1 /\ i - m = 1
        BY <1>1, <2>2, <3>2
      <4>2. QED
        BY <1>1, <1>2, <1>4, <2>1, <2>2, <3>2, <4>1
    <3>3. QED
      BY <3>1, <3>2
  <2>3. QED
    BY <1>2, <1>4, <2>1, <2>2
<1> HIDE DEF start
<1> DEFINE new == start \o after
<1>6. /\ start \o after \in Seq(Slots)
      /\ Len(start \o after) = Len(start) + Len(after)
      /\ \A i \in 1 .. Len(start) + Len(after) : (start \o after)[i] =
           IF i <= Len(start) THEN start[i] ELSE after[i - Len(start)]
  BY <1>3, <1>5, ConcatProperties, Zenon
<1>7. Len(start) + Len(after) = Len(list) + 1
  BY <1>1, <1>3, <1>5
<1>8. Ring!InsertAt(list, m + 1, t) = start \o after
  <2>1. (m + 1) - 1 = m
    BY <1>1
  <2>2. QED
    BY <2>1 DEF Ring!InsertAt, start, before, after
<1>9. ASSUME NEW i \in 1 .. Len(list) + 1
      PROVE  (start \o after)[i] = IF i <= m THEN list[i] ELSE IF i = m + 1 THEN t ELSE list[i - 1]
  <2>1. (start \o after)[i] = IF i <= m + 1 THEN start[i] ELSE after[i - (m + 1)]
    BY <1>5, <1>6, <1>7
  <2>2. CASE i <= m + 1
    <3>1. i \in 1 .. m + 1
      BY <1>1, <2>2
    <3>2. (start \o after)[i] = IF i <= m THEN list[i] ELSE t
      BY <1>5, <2>1, <2>2, <3>1
    <3>3. ~(i <= m) => i = m + 1
      BY <1>1, <2>2
    <3>4. QED
      BY <3>2, <3>3
  <2>3. CASE ~(i <= m + 1)
    <3>1. i - (m + 1) \in 1 .. Len(list) - m /\ (i - (m + 1)) + m = i - 1 /\ ~(i <= m) /\ i # m + 1
      BY <1>1, <2>3
    <3>2. after[i - (m + 1)] = list[i - 1]
      BY <1>3, <3>1
    <3>3. QED
      BY <2>1, <2>3, <3>1, <3>2
  <2>4. QED
    BY <2>2, <2>3
<1>10. QED
  BY <1>6, <1>7, <1>8, <1>9

LEMMA CircleInsert ==
  ASSUME NEW nx, NEW ny, NEW list, Circle(nx, list), NEW m \in 1 .. Len(list),
         NEW t \in Slots, t \notin Members(list),
         ny[list[m]] = t, ny[t] = nx[list[m]],
         \A s \in Members(list) : s # list[m] => ny[s] = nx[s]
  PROVE  LET new == Ring!InsertAt(list, m + 1, t)
         IN  Circle(ny, new) /\ Members(new) = Members(list) \cup {t}
<1> DEFINE new == Ring!InsertAt(list, m + 1, t)
           l   == Len(list)
<1>1. l \in Nat \ {0} /\ m \in Nat /\ 1 =< m /\ m =< l /\ list \in Seq(Slots)
  BY CircleFacts DEF Circle
<1>2. /\ new \in Seq(Slots) /\ Len(new) = l + 1
      /\ \A i \in 1 .. l + 1 : new[i] = IF i <= m THEN list[i] ELSE IF i = m + 1 THEN t ELSE list[i - 1]
  BY <1>1, Inserted
<1> HIDE DEF new
<1>3. \A i \in 1 .. l : list[i] \in Members(list) /\ list[i] # t
  BY DEF Members
<1>4. new[1] = FirstTask
  <2>1. 1 \in 1 .. l + 1 /\ 1 <= m
    BY <1>1
  <2>2. new[1] = list[1]
    BY <1>2, <2>1
  <2>3. QED
    BY <2>2, Zenon DEF Circle
\* The place in the old list of each but the new one.
<1> DEFINE old(i) == IF i <= m THEN i ELSE i - 1
<1>5. \A i \in 1 .. l + 1 : i # m + 1 => old(i) \in 1 .. l /\ new[i] = list[old(i)]
  BY <1>1, <1>2
<1>6. new[m + 1] = t
  BY <1>1, <1>2
<1>7. ASSUME NEW i \in 1 .. l + 1, NEW j \in 1 .. l + 1, new[i] = new[j] PROVE i = j
  <2>1. \A a, b \in 1 .. l : list[a] = list[b] => a = b
    BY Zenon DEF Circle
  <2>2. CASE i = m + 1 \/ j = m + 1
    BY <1>3, <1>5, <1>6, <1>7, <2>2
  <2>3. CASE i # m + 1 /\ j # m + 1
    <3>1. old(i) = old(j)
      BY <1>5, <1>7, <2>1, <2>3
    <3>2. QED
      BY <1>1, <2>3, <3>1
  <2>4. QED
    BY <2>2, <2>3
<1>8. ASSUME NEW i \in 1 .. l + 1
      PROVE  ny[new[i]] = new[IF i = l + 1 THEN 1 ELSE i + 1]
  <2>1. list[1] = FirstTask /\ nx[list[l]] = FirstTask
        /\ \A a \in 1 .. l : a # l => a + 1 \in 1 .. l /\ nx[list[a]] = list[a + 1]
    <3>1. list[1] = FirstTask
      BY Zenon DEF Circle
    <3>2. QED
      BY <3>1, CircleFacts
  <2>2. \A a, b \in 1 .. l : list[a] = list[b] => a = b
    BY Zenon DEF Circle
  <2>3. CASE i = m
    <3>1. new[i] = list[m] /\ i # l + 1 /\ new[i + 1] = t
      BY <1>1, <1>2, <2>3
    <3>2. QED
      BY <3>1
  <2>4. CASE i = m + 1
    <3>1. new[i] = t /\ ny[new[i]] = nx[list[m]]
      BY <1>6, <2>4
    <3>2. CASE m = l
      <4>1. i = l + 1
        BY <1>1, <2>4, <3>2
      <4>2. QED
        BY <1>4, <2>1, <3>1, <3>2, <4>1
    <3>3. CASE m # l
      <4>1. i # l + 1 /\ i + 1 \in 1 .. l + 1 /\ ~(i + 1 <= m) /\ i + 1 # m + 1 /\ (i + 1) - 1 = m + 1
        BY <1>1, <2>4, <3>3
      <4>2. new[i + 1] = list[m + 1]
        BY <1>2, <4>1
      <4>3. QED
        BY <1>1, <2>1, <3>1, <3>3, <4>1, <4>2
    <3>4. QED
      BY <3>2, <3>3
  <2>5. CASE i # m /\ i # m + 1
    <3>1. old(i) \in 1 .. l /\ new[i] = list[old(i)] /\ old(i) # m
      BY <1>1, <1>5, <2>5
    <3>2. ny[new[i]] = nx[list[old(i)]]
      BY <1>1, <1>3, <2>2, <3>1
    <3>3. CASE i = l + 1
      <4>1. old(i) = l
        BY <1>1, <3>3
      <4>2. QED
        BY <1>4, <2>1, <3>2, <3>3, <4>1
    <3>4. CASE i # l + 1
      <4>1. old(i) # l /\ i + 1 \in 1 .. l + 1 /\ i + 1 # m + 1 /\ old(i + 1) = old(i) + 1
        BY <1>1, <2>5, <3>4
      <4>2. nx[list[old(i)]] = list[old(i) + 1]
        BY <2>1, <3>1, <4>1
      <4>3. new[i + 1] = list[old(i + 1)]
        BY <1>5, <4>1
      <4>4. QED
        BY <3>2, <3>4, <4>1, <4>2, <4>3
    <3>5. QED
      BY <3>3, <3>4
  <2>6. QED
    BY <2>3, <2>4, <2>5
<1>9. Members(new) = Members(list) \cup {t}
  <2>1. ASSUME NEW s \in Members(new) PROVE s \in Members(list) \cup {t}
    <3>1. PICK i \in 1 .. l + 1 : s = new[i]
      BY <1>2 DEF Members
    <3>2. QED
      BY <1>3, <1>5, <1>6, <3>1
  <2>2. ASSUME NEW s \in Members(list) PROVE s \in Members(new)
    <3>1. PICK a \in 1 .. l : s = list[a]
      BY DEF Members
    <3>2. CASE a <= m
      <4>1. a \in 1 .. l + 1 /\ new[a] = s
        BY <1>1, <1>2, <3>1, <3>2
      <4>2. QED
        BY <1>2, <4>1 DEF Members
    <3>3. CASE ~(a <= m)
      <4>1. a + 1 \in 1 .. l + 1 /\ new[a + 1] = list[(a + 1) - 1] /\ (a + 1) - 1 = a
        BY <1>1, <1>2, <3>1, <3>3
      <4>2. QED
        BY <1>2, <3>1, <4>1 DEF Members
    <3>4. QED
      BY <3>2, <3>3
  <2>3. t \in Members(new)
    BY <1>1, <1>2, <1>6 DEF Members
  <2>4. QED
    BY <2>1, <2>2, <2>3
<1> HIDE DEF old
<1>10. Circle(ny, new)
  <2>1. Len(new) > 0
    BY <1>1, <1>2
  <2>2. QED
    BY <1>2, <1>4, <1>7, <1>8, <2>1, Zenon DEF Circle
<1>11. QED
  BY <1>9, <1>10 DEF new

-----------------------------------------------------------------------------
(* The ring while steps are taken.                                         *)

\* Until the first task is linked, only kernel_main runs and creates it.
BeforeFirst ==
  ~Linked =>
    /\ cpu = BootStack
    /\ \A s \in Slots : next[s] = NULL
    /\ g_runqueue # NULL => pc[BootStack] = "push_self"
    /\ pc[BootStack] \notin {"push_link", "push_chain", "push_tail"}
    /\ pc[BootStack] \in CreateSteps \cup PushSteps => slot[BootStack] = FirstTask
    /\ \A s \in Slots \ {BootSlot} :
         used[s] => pc[BootStack] \in CreateSteps \cup PushSteps /\ s = FirstTask

RingShape ==
  /\ BeforeFirst
  /\ Linked => Circle(next, RingSeq) /\ g_runqueue \in Members(RingSeq)

\* A step leaves the ring alone, or puts one task in.
RingOutcome ==
  \/ RingSeq' = RingSeq
  \/ /\ UNCHANGED <<g_current, state, cpu>>
     /\ \E i \in 1 .. Len(RingSeq) + 1, t \in Slots \ {BootSlot} :
          /\ t \notin Members(RingSeq)
          /\ RingSeq' = Ring!InsertAt(RingSeq, i, t)
          /\ Members(RingSeq') = Members(RingSeq) \cup {t}

LEMMA NoRing == ~Linked => RingSeq = <<>> /\ Len(RingSeq) = 0 /\ Members(RingSeq) = {}
BY DEF RingSeq, Members

RingWalks == \A l : TypeOK /\ Linked /\ Circle(next, l) => RingSeq = l

LEMMA RingAlwaysWalks == RingWalks
BY RingIs DEF RingWalks

LEMMA RingThen ==
  ASSUME TypeOK', Linked', NEW list, Circle(next', list)
  PROVE  RingSeq' = list
<1>1. RingWalks'
  BY RingAlwaysWalks, PTL
<1>2. QED
  BY <1>1, Zenon DEF RingWalks, Circle

\* Stores outside the ring, or into the tail.
LEMMA RingSame ==
  ASSUME TypeOK', RingShape, Linked, g_runqueue' \in Members(RingSeq),
         \A s \in Members(RingSeq) : next'[s] = next[s]
  PROVE  RingShape' /\ RingSeq' = RingSeq
<1>1. Circle(next, RingSeq) /\ Circle(next', RingSeq)
  BY CircleOutside DEF RingShape
<1>2. FirstTask \in Members(RingSeq) /\ next[FirstTask] # NULL
  BY <1>1, CircleFacts DEF Linked
<1>3. Linked'
  <2>1. Members(RingSeq) \subseteq Slots
    BY <1>1, CircleFacts
  <2>2. QED
    BY <1>2, <2>1, TaskingAssumption DEF Linked
<1>4. RingSeq' = RingSeq
  BY <1>1, <1>3, RingThen
<1>5. QED
  BY <1>1, <1>3, <1>4 DEF RingShape, BeforeFirst, Circle, Members

LEMMA RingQuiet ==
  ASSUME TypeOK', RingShape, UNCHANGED <<g_runqueue, next, used, slot>>,
         ~Linked => cpu' = cpu,
         \/ pc'[BootStack] = pc[BootStack]
         \/ {pc[BootStack], pc'[BootStack]} \cap (CreateSteps \cup PushSteps) = {}
  PROVE  RingShape' /\ RingSeq' = RingSeq
<1>1. CASE Linked
  BY <1>1, RingSame DEF RingShape
<1>2. CASE ~Linked
  <2>1. ~Linked' /\ RingSeq' = RingSeq
    BY <1>2 DEF Linked, RingSeq
  <2>2. BeforeFirst'
    BY <1>2, <2>1 DEF RingShape, BeforeFirst, PushSteps, CreateSteps
  <2>3. QED
    BY <2>1, <2>2 DEF RingShape
<1>3. QED
  BY <1>1, <1>2

\* The slot of a creation under way is not on the ring before its push.
LEMMA NotOnRing ==
  ASSUME SchedulerInv, QueueInv, RingShape, NEW c \in Contexts, c = cpu,
         pc[c] \in CreateSteps \cup {"push", "push_first", "push_link", "push_chain"}
  PROVE  slot[c] \in Slots \ {BootSlot} /\ slot[c] \notin Members(RingSeq)
<1>1. slot[c] \in Slots \ {BootSlot} /\ CreationPrivate(c) /\ QueuePrivate(c)
  BY CreatingFacts DEF PushSteps, QueueInv
<1>2. CASE ~Linked
  BY <1>1, <1>2, NoRing
<1>3. CASE Linked
  <2>1. g_runqueue \in Slots /\ g_runqueue # NULL /\ next \in [Slots -> Slots \cup {NULL}]
    BY <1>3 DEF Linked, SchedulerInv, TypeOK
  <2>2. From(next, g_runqueue) = Members(RingSeq)
    BY <1>3, <2>1, CircleFrom, TaskingAssumption DEF RingShape
  <2>3. slot[c] \notin From(next, g_runqueue)
    <3>1. CASE pc[c] \in CreateSteps
      BY <1>1, <2>1, <3>1, Unpointed DEF CreationPrivate
    <3>2. CASE pc[c] \notin CreateSteps
      BY <1>1, <2>1, <3>2 DEF QueuePrivate, Queued
    <3>3. QED
      BY <3>1, <3>2
  <2>4. QED
    BY <1>1, <2>2, <2>3
<1>4. QED
  BY <1>2, <1>3

LEMMA RingInitAlloc ==
  ASSUME SchedulerInv, SchedulerInv', RingShape, InitAlloc
  PROVE  RingShape' /\ RingSeq' = RingSeq
<1>1. BootSlot \in Slots /\ BootStack \in Contexts
  BY TaskingAssumption DEF BootSlot, Slots, Contexts
<1>2. /\ cpu = BootStack /\ cpu' = cpu /\ pc'[BootStack] = "init_fields" /\ g_runqueue = NULL
      /\ g_runqueue' = NULL /\ \A s \in Slots : next[s] = NULL
  BY <1>1 DEF InitAlloc, At, Goto, SchedulerInv, BootPhases, TypeOK
<1>3. \A s \in Slots : next'[s] = NULL
  BY <1>1, <1>2 DEF InitAlloc, SchedulerInv, TypeOK
<1>4. ~Linked /\ ~Linked' /\ RingSeq' = RingSeq
  BY <1>2 DEF Linked, RingSeq
<1>5. \A s \in Slots \ {BootSlot} : ~used'[s]
  BY DEF InitAlloc
<1>6. QED
  BY <1>2, <1>3, <1>4, <1>5 DEF RingShape, BeforeFirst, CreateSteps, PushSteps

LEMMA RingTaskCreate ==
  ASSUME SchedulerInv, SchedulerInv', RingShape, NEW c \in Contexts, NEW s \in Stacks, TaskCreate(c, s)
  PROVE  RingShape' /\ RingSeq' = RingSeq
<1>1. UNCHANGED <<g_runqueue, next, used, cpu>> /\ c = cpu /\ pc[c] = "run" /\ TypeOK /\ TypeOK'
  BY DEF TaskCreate, At, globals, fields, SchedulerInv
<1>2. CASE Linked
  BY <1>1, <1>2, RingSame DEF RingShape
<1>3. CASE ~Linked
  <2>1. ~Linked' /\ RingSeq' = RingSeq
    BY <1>1, <1>3 DEF Linked, RingSeq
  <2>2. c = BootStack /\ BootStack \in Contexts /\ s # c /\ g_runqueue = NULL
        /\ \A t \in Slots : next[t] = NULL
    BY <1>1, <1>3, TaskingAssumption DEF RingShape, BeforeFirst, Contexts
  <2>3. pc'[BootStack] = "claim"
    BY <1>1, <2>2 DEF TaskCreate, TypeOK
  <2>4. \A t \in Slots \ {BootSlot} : ~used[t]
    BY <1>1, <1>3, <2>2 DEF RingShape, BeforeFirst, CreateSteps, PushSteps
  <2>5. slot'[BootStack] = FirstTask
    <3>1. PICK i \in FreeSlots : (\A j \in FreeSlots : i <= j) /\ slot' = [slot EXCEPT ![c] = i]
      BY DEF TaskCreate
    <3>2. slot'[BootStack] = i
      BY <1>1, <2>2, <3>1 DEF TypeOK
    <3>3. used[BootSlot]
      BY <1>1, <2>2 DEF SchedulerInv, BootPhases
    <3>4. i \in 0 .. MAX_TASKS - 1 /\ i # 0 /\ MAX_TASKS \in Nat
      BY <3>1, <3>3, TaskingAssumption DEF FreeSlots, Slots, BootSlot
    <3>5. 1 \in 0 .. MAX_TASKS - 1 /\ 1 # 0
      BY <3>4
    <3>6. 1 \in FreeSlots
      BY <2>4, <3>5 DEF FreeSlots, Slots, BootSlot
    <3>7. i <= 1
      BY <3>1, <3>6
    <3>8. QED
      BY <3>2, <3>4, <3>7 DEF FirstTask, BootSlot
  <2>6. BeforeFirst'
    BY <1>1, <2>2, <2>3, <2>4, <2>5 DEF BeforeFirst, CreateSteps, PushSteps
  <2>7. QED
    BY <2>1, <2>6 DEF RingShape
<1>4. QED
  BY <1>2, <1>3

\* The steps of a creation up to its push.
LEMMA RingCreate ==
  ASSUME SchedulerInv, SchedulerInv', QueueInv, RingShape, NEW c \in Contexts,
         ClaimSlot(c) \/ ZeroTask(c) \/ BuildFrame(c) \/ PushTest(c)
  PROVE  RingShape' /\ RingSeq' = RingSeq
<1>1. /\ c = cpu /\ pc[c] \in {"claim", "zero", "frame", "push"} /\ UNCHANGED <<cpu, slot, g_runqueue>>
      /\ pc'[c] \in {"zero", "frame", "push", "push_first", "push_link"}
      /\ TypeOK /\ TypeOK'
  BY DEF ClaimSlot, ZeroTask, BuildFrame, PushTest, At, Goto, SchedulerInv, TypeOK, globals, fields
<1>2. slot[c] \in Slots \ {BootSlot} /\ slot[c] \notin Members(RingSeq)
  BY <1>1, NotOnRing DEF CreateSteps
<1>3. \A x \in Slots \ {slot[c]} : next'[x] = next[x]
  BY <1>1, <1>2 DEF ClaimSlot, ZeroTask, BuildFrame, PushTest, fields, TypeOK
<1>4. next'[slot[c]] \in {next[slot[c]], NULL}
  BY <1>1, <1>2 DEF ClaimSlot, ZeroTask, BuildFrame, PushTest, fields, TypeOK
<1>5. \A s \in Slots : used'[s] => used[s] \/ s = slot[c]
  BY <1>1 DEF ClaimSlot, ZeroTask, BuildFrame, PushTest, TypeOK, globals
<1>6. CASE Linked
  <2>1. Members(RingSeq) \subseteq Slots
    BY <1>6, CircleFacts DEF RingShape
  <2>2. QED
    BY <1>1, <1>2, <1>3, <1>6, <2>1, RingSame DEF RingShape
<1>7. CASE ~Linked
  <2>1. /\ c = BootStack /\ g_runqueue = NULL /\ slot[c] = FirstTask
        /\ \A s \in Slots : next[s] = NULL
        /\ \A s \in Slots \ {BootSlot} : used[s] => s = FirstTask
    <3>1. pc[c] \in CreateSteps \cup PushSteps /\ pc[c] # "push_self"
      BY <1>1 DEF CreateSteps, PushSteps
    <3>2. c = BootStack
      BY <1>1, <1>7 DEF RingShape, BeforeFirst
    <3>3. QED
      BY <1>7, <3>1, <3>2 DEF RingShape, BeforeFirst
  <2>2. pc'[c] # "push_link"
    BY <1>1, <2>1 DEF ClaimSlot, ZeroTask, BuildFrame, PushTest, At, Goto, SchedulerInv, TypeOK
  <2>3. \A s \in Slots : next'[s] = NULL
    BY <1>3, <1>4, <2>1
  <2>4. ~Linked' /\ RingSeq' = RingSeq
    BY <1>1, <1>7, <2>1 DEF Linked, RingSeq
  <2>5. pc'[c] \in CreateSteps \cup PushSteps /\ pc'[c] \notin {"push_link", "push_chain", "push_tail"}
    BY <1>1, <2>2 DEF CreateSteps, PushSteps
  <2>6. BeforeFirst'
    BY <1>1, <1>5, <2>1, <2>3, <2>5 DEF BeforeFirst
  <2>7. QED
    BY <2>4, <2>6 DEF RingShape
<1>8. QED
  BY <1>6, <1>7

\* The stores of the push: one puts the task on the ring.
LEMMA RingPush ==
  ASSUME SchedulerInv, SchedulerInv', QueueInv, RingShape, NEW c \in Contexts,
         PushFirst(c) \/ PushSelf(c) \/ PushLink(c) \/ PushChain(c) \/ PushTail(c)
  PROVE  RingShape' /\ RingOutcome
<1> DEFINE t == slot[c]
           g == g_runqueue
<1>1. /\ c = cpu /\ pc[c] \in {"push_first", "push_self", "push_link", "push_chain", "push_tail"}
      /\ UNCHANGED <<g_current, state, cpu, slot, used>> /\ TypeOK /\ TypeOK'
      /\ next \in [Slots -> Slots \cup {NULL}] /\ NULL \notin Slots
      /\ g \in Slots \cup {NULL}
  BY TaskingAssumption DEF PushFirst, PushSelf, PushLink, PushChain, PushTail, At, SchedulerInv,
     TypeOK, globals, fields
<1>2. t \in Slots \ {BootSlot} /\ QueuePrivate(c)
  <2>1. pc[c] \in CreateSteps \cup PushSteps
    BY <1>1 DEF PushSteps
  <2>2. QED
    BY <1>1, <2>1, CreatingFacts DEF QueueInv
<1>3. CASE PushFirst(c)
  <2>1. pc[c] = "push_first" /\ g = NULL /\ g_runqueue' = t /\ UNCHANGED next
        /\ pc'[c] = "push_self"
    BY <1>1, <1>2, <1>3 DEF PushFirst, At, Goto, QueuePrivate, TypeOK, fields
  <2>2. ~Linked /\ c = BootStack /\ t = FirstTask /\ \A s \in Slots : next[s] = NULL
    BY <1>1, <2>1 DEF Linked, RingShape, BeforeFirst, PushSteps
  <2>3. ~Linked' /\ RingSeq' = RingSeq
    BY <1>2, <2>1, <2>2 DEF Linked, RingSeq
  <2>4. BeforeFirst'
    <3>1. pc'[BootStack] \in CreateSteps \cup PushSteps
      BY <2>1, <2>2 DEF PushSteps
    <3>2. \A s \in Slots \ {BootSlot} : used[s] => s = FirstTask
      BY <2>2 DEF RingShape, BeforeFirst
    <3>3. QED
      BY <1>1, <2>1, <2>2, <3>1, <3>2 DEF BeforeFirst
  <2>5. QED
    BY <2>3, <2>4 DEF RingShape, RingOutcome
<1>4. CASE PushSelf(c)
  <2>1. pc[c] = "push_self" /\ g = t /\ next[t] = NULL /\ UNCHANGED g_runqueue
        /\ next' = [next EXCEPT ![t] = t]
    BY <1>1, <1>2, <1>4 DEF PushSelf, At, QueuePrivate, globals
  <2>2. ~Linked
    <3>1. ASSUME Linked PROVE FALSE
      <4>1. g \in Members(RingSeq) /\ next[g] \in Members(RingSeq) /\ Members(RingSeq) \subseteq Slots
        BY <3>1, CircleFacts DEF RingShape
      <4>2. QED
        BY <1>1, <2>1, <4>1
    <3>2. QED
      BY <3>1
  <2>3. t = FirstTask /\ RingSeq = <<>> /\ Members(RingSeq) = {} /\ Len(RingSeq) = 0
    <3>1. pc[c] \in CreateSteps \cup PushSteps /\ c = BootStack
      BY <1>1, <2>1, <2>2 DEF PushSteps, RingShape, BeforeFirst
    <3>2. QED
      BY <2>2, <3>1, NoRing DEF RingShape, BeforeFirst
  <2>4. next'[FirstTask] = FirstTask /\ FirstTask \in Slots /\ g_runqueue' = FirstTask
    BY <1>1, <1>2, <2>1, <2>3
  <2>5. Linked'
    BY <1>1, <2>4 DEF Linked
  <2>6. Circle(next', <<FirstTask>>) /\ Members(<<FirstTask>>) = {FirstTask}
    BY <2>4, CircleFirst
  <2>7. RingSeq' = <<FirstTask>>
    BY <1>1, <2>5, <2>6, RingThen
  <2>8. Ring!InsertAt(RingSeq, 1, t) = <<FirstTask>>
    <3>1. SubSeq(<<>>, 1, 1 - 1) = <<>> /\ SubSeq(<<>>, 1, Len(<<>>)) = <<>>
      OBVIOUS
    <3>2. <<>> \o <<FirstTask>> \o <<>> = <<FirstTask>>
      OBVIOUS
    <3>3. QED
      BY <2>3, <3>1, <3>2, Zenon DEF Ring!InsertAt
  <2>9. RingOutcome
    <3>1. 1 \in 1 .. Len(RingSeq) + 1
      BY <2>3
    <3>2. Members(RingSeq') = Members(RingSeq) \cup {t}
      BY <2>3, <2>6, <2>7 DEF Members
    <3>3. UNCHANGED <<g_current, state, cpu>> /\ t \notin Members(RingSeq)
          /\ RingSeq' = Ring!InsertAt(RingSeq, 1, t)
      BY <1>1, <2>3, <2>7, <2>8
    <3>4. QED
      BY <1>2, <3>1, <3>2, <3>3, Zenon DEF RingOutcome
  <2>10. g_runqueue' \in Members(RingSeq') /\ Circle(next', RingSeq')
    BY <2>4, <2>6, <2>7 DEF Members, Circle
  <2>11. QED
    BY <2>5, <2>9, <2>10 DEF RingShape, BeforeFirst
<1>5. CASE PushLink(c) \/ PushChain(c) \/ PushTail(c)
  <2>1. pc[c] \in {"push_link", "push_chain", "push_tail"}
    BY <1>5 DEF PushLink, PushChain, PushTail, At
  <2>2. Linked
    <3>1. ~Linked => c = BootStack /\ pc[BootStack] \notin {"push_link", "push_chain", "push_tail"}
      BY <1>1 DEF RingShape, BeforeFirst
    <3>2. QED
      BY <2>1, <3>1
  <2>3. /\ Circle(next, RingSeq) /\ g \in Members(RingSeq) /\ Members(RingSeq) \subseteq Slots
        /\ g # NULL
    BY <2>2, CircleFacts DEF RingShape, Linked
  <2>4. CASE PushLink(c)
    <3>1. pc[c] = "push_link" /\ UNCHANGED g_runqueue /\ next' = [next EXCEPT ![t] = next[g]]
      BY <2>4 DEF PushLink, At, globals
    <3>2. t \notin Members(RingSeq)
      BY <1>1, <3>1, NotOnRing
    <3>3. \A s \in Members(RingSeq) : next'[s] = next[s]
      BY <1>1, <2>3, <3>1, <3>2
    <3>4. QED
      BY <1>1, <2>2, <2>3, <3>1, <3>3, RingSame DEF RingOutcome
  <2>5. CASE PushTail(c)
    <3>1. pc[c] = "push_tail" /\ UNCHANGED next /\ g_runqueue' = t /\ next[g] = t
      BY <1>2, <2>5 DEF PushTail, At, fields, QueuePrivate
    <3>2. t \in Members(RingSeq)
      BY <2>3, <3>1, CircleFacts
    <3>3. QED
      BY <1>1, <2>2, <3>1, <3>2, RingSame DEF RingOutcome
  <2>6. CASE PushChain(c)
    <3>1. /\ pc[c] = "push_chain" /\ UNCHANGED g_runqueue /\ next' = [next EXCEPT ![g] = t]
          /\ next[t] = next[g]
      BY <1>2, <2>6 DEF PushChain, At, globals, QueuePrivate
    <3>2. t \notin Members(RingSeq)
      BY <1>1, <3>1, NotOnRing
    <3>3. PICK m \in 1 .. Len(RingSeq) : g = RingSeq[m]
      BY <2>3 DEF Members
    <3>4. /\ next'[RingSeq[m]] = t /\ next'[t] = next[RingSeq[m]]
          /\ \A s \in Members(RingSeq) : s # RingSeq[m] => next'[s] = next[s]
      BY <1>1, <1>2, <2>3, <3>1, <3>2, <3>3
    <3> DEFINE new == Ring!InsertAt(RingSeq, m + 1, t)
    <3>5. Circle(next', new) /\ Members(new) = Members(RingSeq) \cup {t}
      BY <1>2, <2>3, <3>2, <3>4, CircleInsert
    <3> HIDE DEF new
    <3>6. Linked'
      <4>1. FirstTask \in Members(RingSeq) /\ next[FirstTask] # NULL
        BY <2>2, <2>3, CircleFacts DEF Linked
      <4>2. next'[FirstTask] # NULL
        BY <1>1, <1>2, <2>3, <3>1, <4>1
      <4>3. QED
        BY <2>3, <3>1, <4>2 DEF Linked
    <3>7. RingSeq' = new
      BY <1>1, <3>5, <3>6, RingThen
    <3>8. g_runqueue' \in Members(RingSeq') /\ Circle(next', RingSeq')
      <4>1. g_runqueue' \in Members(new)
        BY <2>3, <3>1, <3>5
      <4>2. QED
        BY <3>5, <3>7, <4>1, Zenon DEF Members, Circle
    <3>9. RingOutcome
      <4>1. m + 1 \in 1 .. Len(RingSeq) + 1
        BY <2>3, CircleFacts
      <4>2. Members(RingSeq') = Members(RingSeq) \cup {t}
        BY <3>5, <3>7, Zenon DEF Members
      <4>3. RingSeq' = Ring!InsertAt(RingSeq, m + 1, t)
        BY <3>7 DEF new
      <4>4. QED
        BY <1>1, <1>2, <3>2, <4>1, <4>2, <4>3, Zenon DEF RingOutcome
    <3>10. QED
      BY <3>6, <3>8, <3>9 DEF RingShape, BeforeFirst
  <2>7. QED
    BY <1>5, <2>4, <2>5, <2>6
<1>6. QED
  BY <1>3, <1>4, <1>5

-----------------------------------------------------------------------------
(* pick_next goes round the ring.                                          *)

\* The place k further on a ring of n.
Wrapped(n, i, k) == IF i + k <= n THEN i + k ELSE i + k - n

GoesRound(n, i) ==
  /\ \A k \in 1 .. n : Wrapped(n, i, k) \in 1 .. n
  /\ \A k \in 1 .. n - 1 :
       /\ Wrapped(n, i, k) # i /\ k \in 1 .. n /\ k + 1 \in 1 .. n
       /\ Wrapped(n, i, k + 1) = IF Wrapped(n, i, k) = n THEN 1 ELSE Wrapped(n, i, k) + 1
  /\ Wrapped(n, i, n) = i
  /\ Wrapped(n, i, 1) = IF i = n THEN 1 ELSE i + 1
  /\ \A a \in 1 .. n : \E k \in 1 .. n : a = Wrapped(n, i, k)

LEMMA WrappedFacts ==
  ASSUME NEW n \in Nat \ {0}, NEW i \in 1 .. n
  PROVE  GoesRound(n, i)
<1>1. \A k \in 1 .. n : Wrapped(n, i, k) \in 1 .. n
  BY DEF Wrapped
<1>2. ASSUME NEW k \in 1 .. n - 1
      PROVE  Wrapped(n, i, k) # i /\ k \in 1 .. n /\ k + 1 \in 1 .. n
             /\ Wrapped(n, i, k + 1) = IF Wrapped(n, i, k) = n THEN 1 ELSE Wrapped(n, i, k) + 1
  BY DEF Wrapped
<1>3. Wrapped(n, i, n) = i /\ Wrapped(n, i, 1) = IF i = n THEN 1 ELSE i + 1
  BY DEF Wrapped
<1>4. ASSUME NEW a \in 1 .. n PROVE \E k \in 1 .. n : a = Wrapped(n, i, k)
  <2>1. CASE i < a
    <3>1. a - i \in 1 .. n /\ a = Wrapped(n, i, a - i)
      BY <2>1 DEF Wrapped
    <3>2. QED
      BY <3>1
  <2>2. CASE ~(i < a)
    <3>1. a - i + n \in 1 .. n /\ a = Wrapped(n, i, a - i + n)
      BY <2>2 DEF Wrapped
    <3>2. QED
      BY <3>1
  <2>3. QED
    BY <2>1, <2>2
<1>5. QED
  BY <1>1, <1>2, <1>3, <1>4 DEF GoesRound

\* Some ready task of the ring is picked, if any other than cur is.
LEMMA PickOnRing ==
  ASSUME TypeOK, RingShape, next[BootSlot] = NULL, NEW cur \in Slots,
         cur = BootSlot \/ cur \in Members(RingSeq), PickNext(cur) # cur
  PROVE  /\ Linked /\ PickNext(cur) \in Members(RingSeq) /\ state[PickNext(cur)] = "READY"
         /\ PickNext(cur) \in Visited(IF next[cur] # NULL THEN next[cur] ELSE runqueue_head)
<1> DEFINE start == IF next[cur] # NULL THEN next[cur] ELSE runqueue_head
           ready == {t \in Visited(start) : state[t] = "READY"}
<1>1. g_runqueue # NULL /\ start # NULL /\ ready # {} /\ PickNext(cur) \in ready
  BY DEF PickNext
<1>2. Linked
  <2>1. ASSUME ~Linked PROVE FALSE
    <3>1. \A s \in Slots : next[s] = NULL
      BY <2>1 DEF RingShape, BeforeFirst
    <3>2. QED
      BY <1>1, <3>1 DEF runqueue_head, TypeOK
  <2>2. QED
    BY <2>1
<1>3. Circle(next, RingSeq) /\ g_runqueue \in Members(RingSeq) /\ NULL \notin Slots
  BY <1>2, TaskingAssumption DEF RingShape
<1>4. Members(RingSeq) \in SUBSET Slots /\ \A s \in Members(RingSeq) : next[s] \in Members(RingSeq)
  BY <1>3, CircleFacts
<1>5. start \in Members(RingSeq)
  BY <1>1, <1>3, <1>4 DEF runqueue_head
<1>6. Visited(start) \subseteq Members(RingSeq)
  BY <1>4, <1>5 DEF Visited
<1>7. QED
  BY <1>1, <1>2, <1>6

\* From a task of the ring it is the first ready one after it.
LEMMA PickRotates ==
  ASSUME TypeOK, RingShape, next[BootSlot] = NULL, NEW i \in 1 .. Len(RingSeq),
         PickNext(RingSeq[i]) # RingSeq[i]
  PROVE  \E k \in 1 .. Len(RingSeq) - 1 :
           /\ PickNext(RingSeq[i]) = RingSeq[Wrapped(Len(RingSeq), i, k)]
           /\ \A j \in 1 .. k - 1 : state[RingSeq[Wrapped(Len(RingSeq), i, j)]] # "READY"
<1> DEFINE n     == Len(RingSeq)
           cur   == RingSeq[i]
           at(k) == RingSeq[Wrapped(n, i, k)]
           p     == PickNext(cur)
<1>1. cur \in Members(RingSeq)
  BY DEF Members
<1>2. Linked
  BY <1>1, NoRing
<1>3. Circle(next, RingSeq) /\ NULL \notin Slots
  BY <1>2, TaskingAssumption DEF RingShape
<1>4. /\ n \in Nat \ {0} /\ i \in 1 .. n /\ n = Len(RingSeq) /\ Members(RingSeq) \subseteq Slots /\ next[RingSeq[n]] = FirstTask
      /\ \A a \in 1 .. n : a # n => next[RingSeq[a]] = RingSeq[a + 1]
      /\ RingSeq \in [1 .. n -> Slots] /\ \A s \in Members(RingSeq) : next[s] \in Members(RingSeq)
  BY <1>3, CircleFacts
<1> HIDE DEF n
<1>5. RingSeq[1] = FirstTask
  BY <1>3, Zenon DEF Circle
<1>6. \A a \in 1 .. n : next[RingSeq[a]] = RingSeq[IF a = n THEN 1 ELSE a + 1]
  BY <1>4, <1>5
<1>7. /\ \A k \in 1 .. n : Wrapped(n, i, k) \in 1 .. n
      /\ \A k \in 1 .. n - 1 :
           /\ Wrapped(n, i, k) # i /\ k \in 1 .. n /\ k + 1 \in 1 .. n
           /\ Wrapped(n, i, k + 1) = IF Wrapped(n, i, k) = n THEN 1 ELSE Wrapped(n, i, k) + 1
      /\ Wrapped(n, i, n) = i
      /\ Wrapped(n, i, 1) = IF i = n THEN 1 ELSE i + 1
      /\ \A a \in 1 .. n : \E k \in 1 .. n : a = Wrapped(n, i, k)
  <2>1. n \in Nat \ {0} /\ i \in 1 .. n
    BY <1>4
  <2>2. GoesRound(n, i)
    BY <2>1, WrappedFacts
  <2>3. QED
    BY <2>2 DEF GoesRound
<1>8. \A k \in 1 .. n - 1 : next[at(k)] = at(k + 1)
  BY <1>6, <1>7
<1>9. next[cur] = at(1) /\ at(n) = cur
  <2>1. next[RingSeq[i]] = RingSeq[IF i = n THEN 1 ELSE i + 1]
    BY <1>4, <1>6
  <2>2. QED
    BY <1>7, <2>1
<1>10. /\ p \in Members(RingSeq) /\ state[p] = "READY"
       /\ p \in Visited(at(1))
  <2>1. cur \in Slots /\ next[cur] # NULL
    BY <1>1, <1>3, <1>4
  <2>2. QED
    BY <1>1, <1>9, <2>1, PickOnRing DEF n
<1> DEFINE T == {k \in Nat : k \in 1 .. n /\ state[at(k)] = "READY"}
<1>11. PICK k \in T : \A j \in T : k =< j
  <2>1. PICK a \in 1 .. n : p = RingSeq[a]
    BY <1>4, <1>10 DEF Members
  <2>2. PICK j \in 1 .. n : a = Wrapped(n, i, j)
    BY <1>7, <2>1
  <2>3. j \in T
    <3>1. j \in Nat
      <4>1. n \in Nat
        BY <1>4
      <4>2. QED
        BY <4>1
    <3>2. p = at(j)
      BY <2>1, <2>2, Zenon
    <3>3. QED
      BY <1>10, <3>1, <3>2
  <2> HIDE DEF T
  <2>4. T \in SUBSET Nat /\ T # {}
    BY <2>3 DEF T
  <2>5. QED
    BY <2>4, Least
<1>12. k \in 1 .. n /\ k \in Nat /\ n \in Nat /\ state[at(k)] = "READY"
  BY <1>4, <1>11
<1>13. \A j \in 1 .. k - 1 : j \in 1 .. n - 1 /\ state[at(j)] # "READY"
  <2>1. ASSUME NEW j \in 1 .. k - 1 PROVE j \in 1 .. n - 1 /\ j \in Nat /\ ~(k =< j) /\ j \in 1 .. n
    BY <1>12
  <2>2. QED
    BY <1>11, <2>1
<1>14. p = at(k)
  <2> DEFINE S == {at(j) : j \in 1 .. k}
  <2>1. S \in SUBSET Slots /\ at(1) \in S
    <3>1. \A j \in 1 .. k : j \in 1 .. n
      BY <1>12
    <3>2. 1 \in 1 .. k
      BY <1>12
    <3>3. \A j \in 1 .. k : at(j) \in Slots
      BY <1>4, <1>7, <3>1
    <3>4. QED
      BY <3>2, <3>3
  <2>2. ASSUME NEW x \in S, state[x] # "READY", next[x] # NULL PROVE next[x] \in S
    <3>1. PICK j \in 1 .. k : x = at(j)
      OBVIOUS
    <3>2. j # k
      BY <1>12, <2>2, <3>1
    <3>3. j \in 1 .. n - 1 /\ j + 1 \in 1 .. k
      BY <1>12, <3>2
    <3>4. next[x] = at(j + 1)
      BY <1>8, <3>1, <3>3
    <3>5. QED
      BY <3>3, <3>4
  <2>3. p \in S
    <3> HIDE DEF S
    <3>1. QED
      BY <1>10, <2>1, <2>2 DEF Visited
  <2>4. PICK j \in 1 .. k : p = at(j)
    BY <2>3
  <2>5. j = k
    <3>1. j \in 1 .. k - 1 => FALSE
      BY <1>10, <1>13, <2>4
    <3>2. QED
      BY <1>12, <3>1
  <2>6. QED
    BY <2>4, <2>5
<1>15. k # n
  BY <1>9, <1>14
<1>16. k \in 1 .. n - 1
  BY <1>12, <1>15
<1> HIDE DEF T
<1>17. QED
  BY <1>4, <1>13, <1>14, <1>16

-----------------------------------------------------------------------------
(* The steps of RoundRobin.                                                *)

RingInv ==
  /\ RingShape
  /\ g_current \notin {NULL, BootSlot} => g_current \in Members(RingSeq)
  /\ \A s \in Slots : state[s] = "DEAD" => s \in Members(RingSeq) /\ cpu # BootStack
  /\ \A s \in Slots \ {BootSlot} : state[s] = "RUNNING" => s = g_current
  /\ cpu # BootStack => g_current \notin {NULL, BootSlot}
  /\ pc[BootStack] \notin ExitSteps

LEMMA RingInit == Init => RingInv
<1> SUFFICES ASSUME Init PROVE RingInv
  OBVIOUS
<1>1. ~Linked
  BY DEF Init, Linked
<1>2. BootStack \in Contexts /\ pc[BootStack] = "init"
  BY DEF Init, Contexts
<1>3. BeforeFirst
  BY <1>1, <1>2 DEF Init, BeforeFirst, CreateSteps, PushSteps
<1>4. QED
  BY <1>1, <1>2, <1>3 DEF Init, RingInv, RingShape, ExitSteps

LEMMA MembersBuilt ==
  ASSUME SchedulerInv, QueueInv, RingShape
  PROVE  \A s \in Members(RingSeq) : Built(s) /\ s \in Slots /\ s # BootSlot /\ s # NULL
<1>1. CASE ~Linked
  BY <1>1, NoRing
<1>2. CASE Linked
  <2> DEFINE B == {s \in Slots : Built(s)}
  <2>1. Closed(next, B)
    BY DEF Closed, SchedulerInv, PointersToBuilt, Built
  <2>2. g_runqueue \in B /\ g_runqueue \in Members(RingSeq) /\ Circle(next, RingSeq)
    BY <1>2 DEF Linked, SchedulerInv, PointersToBuilt, Built, RingShape
  <2> HIDE DEF B
  <2>3. Members(RingSeq) \subseteq B
    BY <2>1, <2>2, CircleRound, TaskingAssumption
  <2>4. QED
    BY <2>3, TaskingAssumption DEF B, Built
<1>3. QED
  BY <1>1, <1>2

\* A tick hands the CPU to a task of the ring: from kernel_main to any, from a
\* task of the ring to the first after it that is not dead.
HandsOver ==
  /\ g_current # NULL /\ g_current' \in Members(RingSeq) /\ state[g_current'] # "DEAD"
  /\ cpu' # BootStack
  /\ \A s \in Slots \ {BootSlot} : state'[s] = "RUNNING" => s = g_current'
  /\ \/ g_current = BootSlot
     \/ \E i \in 1 .. Len(RingSeq), k \in 1 .. Len(RingSeq) - 1 :
          /\ g_current = RingSeq[i] /\ g_current' = RingSeq[Wrapped(Len(RingSeq), i, k)]
          /\ \A j \in 1 .. k - 1 : state[RingSeq[Wrapped(Len(RingSeq), i, j)]] = "DEAD"

LEMMA TickHandsOver ==
  ASSUME SchedulerInv, SchedulerInv', QueueInv, RingInv, scheduler_on_tick
  PROVE  /\ \A s \in Slots : state'[s] = "DEAD" <=> state[s] = "DEAD"
         /\ UNCHANGED <<g_current, state, cpu>> \/ HandsOver
<1>1. /\ TypeOK /\ next[BootSlot] = NULL /\ RingShape /\ next \in [Slots -> Slots \cup {NULL}]
      /\ state \in [Slots -> TaskStates] /\ NULL \notin Slots
      /\ \A s \in Members(RingSeq) : Built(s) /\ s \in Slots /\ s # BootSlot /\ s # NULL
  BY MembersBuilt, TaskingAssumption DEF SchedulerInv, QueueInv, RingInv, TypeOK
<1>2. \A s \in Slots \ {BootSlot} : saved_esp'[s] # BootStack
  BY DEF SchedulerInv, BootPhases
<1>3. CASE StayOn
  BY <1>3 DEF StayOn
<1>4. CASE FirstTick
  <2> DEFINE h == runqueue_head
  <2>1. g_current # NULL /\ saved_esp[g_current] = NULL
    BY <1>4 DEF FirstTick
  <2>2. g_current = BootSlot
    <3>1. ~Built(g_current)
      BY <2>1 DEF Built
    <3>2. QED
      BY <1>1, <2>1, <3>1 DEF RingInv
  <2>3. CASE h = NULL
    BY <1>4, <2>3 DEF FirstTick
  <2>4. CASE h # NULL
    <3>1. /\ g_current' = h /\ state' = [state EXCEPT ![h] = "RUNNING"] /\ cpu' = saved_esp'[h]
      BY <1>4, <2>4 DEF FirstTick
    <3>2. Linked
      <4>1. ASSUME ~Linked PROVE FALSE
        BY <1>1, <2>4, <4>1 DEF runqueue_head, RingShape, BeforeFirst, TypeOK
      <4>2. QED
        BY <4>1
    <3>3. h \in Members(RingSeq)
      BY <1>1, <3>2, CircleFacts DEF runqueue_head, RingShape, Linked
    <3>4. \A s \in Slots : state[s] # "DEAD"
      BY <2>2 DEF RingInv
    <3>5. h \in Slots \ {BootSlot} /\ cpu' # BootStack
      BY <1>1, <1>2, <3>1, <3>3
    <3>6. \A s \in Slots : state'[s] = IF s = h THEN "RUNNING" ELSE state[s]
      BY <1>1, <3>1
    <3>7. \A s \in Slots \ {BootSlot} : state'[s] = "RUNNING" => s = h
      BY <2>2, <3>6 DEF RingInv
    <3>8. HandsOver
      BY <2>1, <2>2, <3>1, <3>3, <3>4, <3>5, <3>7 DEF HandsOver
    <3>9. QED
      BY <3>4, <3>6, <3>8
  <2>5. QED
    BY <2>3, <2>4
<1>5. CASE LaterTick
  <2> DEFINE p == PickNext(g_current)
  <2>1. g_current # NULL /\ g_current \in Slots
    BY <1>1, <1>5 DEF LaterTick, TypeOK
  <2>2. CASE p = g_current
    BY <1>5, <2>2 DEF LaterTick
  <2>3. CASE p # g_current
    <3>1. /\ g_current' = p /\ cpu' = saved_esp'[p]
          /\ state' = [state EXCEPT ![g_current] = IF @ = "RUNNING" THEN "READY" ELSE @,
                                    ![p] = "RUNNING"]
      BY <1>5, <2>3 DEF LaterTick
    <3>2. g_current = BootSlot \/ g_current \in Members(RingSeq)
      BY <2>1 DEF RingInv
    <3>3. Linked /\ p \in Members(RingSeq) /\ state[p] = "READY"
      BY <1>1, <2>1, <2>3, <3>2, PickOnRing
    <3>4. p \in Slots \ {BootSlot} /\ cpu' # BootStack
      BY <1>1, <1>2, <3>1, <3>3
    <3>5. \A s \in Slots : state'[s] = IF s = p THEN "RUNNING"
                                       ELSE IF s = g_current /\ state[s] = "RUNNING" THEN "READY"
                                       ELSE state[s]
      BY <1>1, <2>1, <2>3, <3>1, <3>4
    <3>6. \A s \in Slots \ {BootSlot} : state'[s] = "RUNNING" => s = p
      <4>1. ASSUME NEW s \in Slots \ {BootSlot}, state'[s] = "RUNNING", s # p PROVE FALSE
        <5>1. s # g_current /\ state[s] = "RUNNING"
          BY <3>5, <4>1
        <5>2. QED
          BY <5>1 DEF RingInv
      <4>2. QED
        BY <4>1
    <3>7. \A s \in Slots : state'[s] = "DEAD" <=> state[s] = "DEAD"
      BY <3>3, <3>5
    <3>8. ASSUME g_current # BootSlot
          PROVE  \E i \in 1 .. Len(RingSeq), k \in 1 .. Len(RingSeq) - 1 :
            /\ g_current = RingSeq[i] /\ p = RingSeq[Wrapped(Len(RingSeq), i, k)]
            /\ \A j \in 1 .. k - 1 : state[RingSeq[Wrapped(Len(RingSeq), i, j)]] = "DEAD"
      <4>1. PICK i \in 1 .. Len(RingSeq) : g_current = RingSeq[i]
        BY <3>2, <3>8 DEF Members
      <4>2. p = PickNext(RingSeq[i]) /\ PickNext(RingSeq[i]) # RingSeq[i]
        BY <2>3, <4>1
      <4> HIDE DEF p
      <4>3. PICK k \in 1 .. Len(RingSeq) - 1 :
              /\ PickNext(RingSeq[i]) = RingSeq[Wrapped(Len(RingSeq), i, k)]
              /\ \A j \in 1 .. k - 1 : state[RingSeq[Wrapped(Len(RingSeq), i, j)]] # "READY"
        BY <1>1, <4>2, PickRotates
      <4>4. Circle(next, RingSeq) /\ Len(RingSeq) \in Nat \ {0}
        <5>1. Circle(next, RingSeq)
          BY <1>1, <3>3 DEF RingShape
        <5>2. QED
          BY <5>1, CircleFacts
      <4> DEFINE n == Len(RingSeq)
      <4>5. \A a, b \in 1 .. n : RingSeq[a] = RingSeq[b] => a = b
        BY <4>4, Zenon DEF Circle
      <4>6. ASSUME NEW j \in 1 .. k - 1 PROVE state[RingSeq[Wrapped(n, i, j)]] = "DEAD"
        <5>1. j \in 1 .. n /\ j \in 1 .. n - 1
          BY <4>4
        <5>2. GoesRound(n, i)
          BY <4>4, WrappedFacts
        <5>3. Wrapped(n, i, j) \in 1 .. n /\ Wrapped(n, i, j) # i
          BY <5>1, <5>2 DEF GoesRound
        <5> DEFINE s == RingSeq[Wrapped(n, i, j)]
        <5>4. s # g_current /\ s \in Members(RingSeq)
          BY <4>1, <4>5, <5>3 DEF Members
        <5>5. s \in Slots \ {BootSlot} /\ state[s] # "READY"
          BY <1>1, <4>3, <5>4
        <5>6. state[s] # "RUNNING"
          BY <5>4, <5>5 DEF RingInv
        <5>7. state[s] \in TaskStates
          BY <1>1, <5>5
        <5>8. QED
          BY <5>5, <5>6, <5>7 DEF TaskStates
      <4>7. QED
        BY <4>1, <4>2, <4>6, <4>3
    <3> HIDE DEF p
    <3>9. state[p] # "DEAD"
      BY <3>3
    <3>10. HandsOver
      BY <2>1, <3>1, <3>3, <3>4, <3>6, <3>8, <3>9 DEF HandsOver
    <3>11. QED
      BY <3>7, <3>10
  <2>4. QED
    BY <2>2, <2>3
<1>6. QED
  BY <1>3, <1>4, <1>5 DEF scheduler_on_tick

\* What a step outside the scheduler's ticks has to show.
LEMMA RingKept ==
  ASSUME RingInv, RingShape', Members(RingSeq) \subseteq Members(RingSeq'),
         UNCHANGED <<g_current, cpu>>, pc'[BootStack] \notin ExitSteps,
         \A s \in Slots : state'[s] \in {state[s], "READY"}
  PROVE  RingInv'
<1>1. \A s \in Slots : state'[s] = "DEAD" => state[s] = "DEAD"
  OBVIOUS
<1>2. \A s \in Slots : state'[s] = "RUNNING" => state[s] = "RUNNING"
  OBVIOUS
<1>3. (g_current \notin {NULL, BootSlot} => g_current \in Members(RingSeq))'
  BY DEF RingInv, Members
<1>4. (\A s \in Slots : state[s] = "DEAD" => s \in Members(RingSeq) /\ cpu # BootStack)'
  BY <1>1 DEF RingInv, Members
<1>5. (\A s \in Slots \ {BootSlot} : state[s] = "RUNNING" => s = g_current)'
  BY <1>2 DEF RingInv
<1>6. QED
  BY <1>3, <1>4, <1>5 DEF RingInv

LEMMA BootNeverExits ==
  ASSUME SchedulerInv, RingInv, [Next]_vars
  PROVE  pc'[BootStack] \notin ExitSteps
<1>1. BootStack \in Contexts /\ BootStack \notin Stacks /\ pc \in [Contexts -> Steps]
      /\ pc[BootStack] \notin ExitSteps
  BY TaskingAssumption DEF Contexts, SchedulerInv, TypeOK, RingInv
<1>2. CASE UNCHANGED pc
  BY <1>1, <1>2
<1>3. CASE InitAlloc \/ InitFields
  BY <1>1, <1>3 DEF InitAlloc, InitFields, Goto, ExitSteps
<1>4. ASSUME NEW c \in Contexts, task_create(c) PROVE pc'[BootStack] \notin ExitSteps
  <2>1. ASSUME NEW s \in Stacks, TaskCreate(c, s) PROVE pc'[BootStack] \notin ExitSteps
    BY <1>1, <2>1 DEF TaskCreate, ExitSteps
  <2>2. CASE BuildFrame(c)
    <3>1. stack_mem[c] \in Stacks \cup {NULL}
      BY DEF SchedulerInv, TypeOK
    <3>2. QED
      BY <1>1, <2>2, <3>1 DEF BuildFrame, ExitSteps
  <2>3. CASE \/ ClaimSlot(c) \/ ZeroTask(c) \/ PushTest(c) \/ PushFirst(c) \/ PushSelf(c)
             \/ PushLink(c) \/ PushChain(c) \/ PushTail(c)
    BY <1>1, <2>3 DEF ClaimSlot, ZeroTask, PushTest, PushFirst, PushSelf, PushLink, PushChain, PushTail,
       Goto, ExitSteps
  <2>4. QED
    BY <1>4, <2>1, <2>2, <2>3 DEF task_create
<1>5. ASSUME NEW c \in Contexts, ExitLockLoad(c) \/ Exiting(c) PROVE pc'[BootStack] \notin ExitSteps
  <2>1. c # BootStack
    BY <1>1, <1>5 DEF ExitLockLoad, Exiting, ExitLockStore, ExitMark, ExitUnlock, ExitYield, At, ExitSteps
  <2>2. pc'[BootStack] = pc[BootStack]
    BY <1>1, <1>5, <2>1 DEF ExitLockLoad, Exiting, ExitLockStore, ExitMark, ExitUnlock, ExitYield, Goto
  <2>3. QED
    BY <1>1, <2>2
<1>6. QED
  BY <1>2, <1>3, <1>4, <1>5 DEF Next, Tick, locals, vars

RingStep == [Ring!Next]_(Ring!vars)

Dead == {s \in Slots : state[s] = "DEAD"}
Turn == IF g_current = NULL THEN BootSlot ELSE g_current

LEMMA OnRing ==
  ASSUME RingShape
  PROVE  Ring!ToSet(RingSeq) = Members(RingSeq)
<1>1. CASE ~Linked
  BY <1>1, NoRing DEF Ring!ToSet
<1>2. CASE Linked
  <2>1. RingSeq \in Seq(Slots)
    BY <1>2 DEF RingShape, Circle
  <2>2. DOMAIN RingSeq = 1 .. Len(RingSeq)
    BY <2>1
  <2>3. QED
    BY <2>2 DEF Ring!ToSet, Members
<1>3. QED
  BY <1>1, <1>2

\* A step that only puts a task on the ring.
LEMMA Spawns ==
  ASSUME RingShape, RingOutcome, UNCHANGED <<Dead, Turn>>
  PROVE  RingStep
<1>1. CASE RingSeq' = RingSeq
  BY <1>1 DEF RingStep, Ring!vars, Dead, Turn
<1>2. CASE RingSeq' # RingSeq
  <2>1. PICK i \in 1 .. Len(RingSeq) + 1, t \in Slots \ {BootSlot} :
          t \notin Members(RingSeq) /\ RingSeq' = Ring!InsertAt(RingSeq, i, t)
    BY <1>2 DEF RingOutcome
  <2>2. Ring!ToSet(RingSeq) = Members(RingSeq)
    BY OnRing
  <2>3. Ring!Spawn(t)
    BY <2>1, <2>2 DEF Ring!Spawn, Dead, Turn
  <2>4. QED
    BY <2>1, <2>3 DEF RingStep, Ring!Next
<1>3. QED
  BY <1>1, <1>2

LEMMA TickRotates ==
  ASSUME SchedulerInv, SchedulerInv', QueueInv, RingInv, scheduler_on_tick
  PROVE  RingStep
<1>1. RingSeq' = RingSeq
  BY DEF scheduler_on_tick, RingSeq, Linked, Reach
<1>2. Dead' = Dead
  BY TickHandsOver DEF Dead
<1>3. CASE UNCHANGED <<g_current, state, cpu>>
  BY <1>1, <1>2, <1>3, Spawns DEF RingInv, RingOutcome, Turn
<1>4. CASE HandsOver
  <2>1. Ring!ToSet(RingSeq) = Members(RingSeq)
    BY OnRing DEF RingInv
  <2>2. /\ g_current' \in Members(RingSeq) /\ g_current' \in Slots /\ g_current' # NULL /\ g_current # NULL
        /\ state[g_current'] # "DEAD"
    BY <1>4, MembersBuilt DEF HandsOver, RingInv
  <2>3. g_current' \in Ring!Alive
    BY <2>1, <2>2 DEF Ring!Alive
  <2>4. CASE g_current = BootSlot
    <3>1. Ring!HandOver
      BY <1>1, <1>2, <2>2, <2>3, <2>4 DEF Ring!HandOver, Dead
    <3>2. QED
      BY <3>1 DEF RingStep, Ring!Next, Ring!Switch
  <2>5. CASE g_current # BootSlot
    <3> DEFINE n == Len(RingSeq)
    <3>1. PICK i \in 1 .. n, k \in 1 .. n - 1 :
            /\ g_current = RingSeq[i] /\ g_current' = RingSeq[Wrapped(n, i, k)]
            /\ \A j \in 1 .. k - 1 : state[RingSeq[Wrapped(n, i, j)]] = "DEAD"
      BY <1>4, <2>5 DEF HandsOver
    <3>2. Linked
      BY <2>2, NoRing
    <3>3. Circle(next, RingSeq) /\ n \in Nat \ {0} /\ RingSeq \in [1 .. n -> Slots]
      BY <3>2, CircleFacts DEF RingInv, RingShape
    <3>4. \A a, b \in 1 .. n : RingSeq[a] = RingSeq[b] => a = b
      BY <3>3, Zenon DEF Circle
    <3>5. DOMAIN RingSeq = 1 .. n
      BY <3>3
    <3>6. (CHOOSE j \in DOMAIN RingSeq : RingSeq[j] = g_current) = i
      BY <3>1, <3>4, <3>5
    <3>7. \A j \in 1 .. n : Ring!After(g_current, j) = RingSeq[Wrapped(n, i, j)]
      <4> DEFINE e == CHOOSE j \in DOMAIN RingSeq : RingSeq[j] = g_current
      <4>1. SUFFICES ASSUME NEW j \in 1 .. n PROVE Ring!After(g_current, j) = RingSeq[Wrapped(n, i, j)]
        OBVIOUS
      <4>2. Ring!After(g_current, j) = RingSeq[IF e + j <= n THEN e + j ELSE (e + j) - n]
        BY DEF Ring!After
      <4> HIDE DEF e
      <4>3. e = i
        BY <3>6 DEF e
      <4>4. QED
        BY <4>2, <4>3 DEF Wrapped
    <3>8. \A j \in 1 .. k - 1 : Ring!After(g_current, j) \notin Ring!Alive
      <4>1. ASSUME NEW j \in 1 .. k - 1 PROVE Ring!After(g_current, j) \notin Ring!Alive
        <5>1. j \in 1 .. n
          BY <3>3
        <5>2. GoesRound(n, i)
          BY <3>3, WrappedFacts
        <5>3. RingSeq[Wrapped(n, i, j)] \in Slots
          BY <3>3, <5>1, <5>2 DEF GoesRound
        <5>4. QED
          BY <3>1, <3>7, <5>1, <5>3 DEF Ring!Alive
      <4>2. QED
        BY <4>1
    <3>9. g_current \in Ring!ToSet(RingSeq)
      BY <2>1, <3>1 DEF Members
    <3>10. Ring!Rotate
      BY <3>3, <1>1, <1>2, <2>2, <2>3, <3>1, <3>7, <3>8, <3>9 DEF Ring!Rotate, Dead
    <3>11. QED
      BY <3>10 DEF RingStep, Ring!Next, Ring!Switch
  <2>6. QED
    BY <2>4, <2>5
<1>5. QED
  BY <1>3, <1>4, TickHandsOver

LEMMA RingTick ==
  ASSUME SchedulerInv, SchedulerInv', QueueInv, RingInv, [Next]_vars,
         Tick \/ \E c \in Contexts : ExitYield(c)
  PROVE  RingInv' /\ RingStep
<1>1. scheduler_on_tick /\ UNCHANGED <<g_runqueue, next, used, slot>>
  BY DEF Tick, ExitYield, locals, scheduler_on_tick
<1>2. RingStep
  BY <1>1, TickRotates
<1>3. \/ pc'[BootStack] = pc[BootStack]
      \/ {pc[BootStack], pc'[BootStack]} \cap (CreateSteps \cup PushSteps) = {}
  BY TaskingAssumption DEF Tick, locals, ExitYield, At, Goto, SchedulerInv, TypeOK, CreateSteps, PushSteps, Contexts
<1>4. ASSUME ~Linked PROVE cpu' = cpu
  <2>1. \A s \in Slots : next[s] = NULL
    BY <1>4 DEF RingInv, RingShape, BeforeFirst
  <2>2. ASSUME cpu' # cpu PROVE FALSE
    <3>1. g_runqueue # NULL /\ next[g_runqueue] # NULL
      BY <1>1, <2>2, QueueTick
    <3>2. QED
      BY <2>1, <3>1 DEF SchedulerInv, TypeOK
  <2>3. QED
    BY <2>2
<1>5. RingShape' /\ RingSeq' = RingSeq
  BY <1>1, <1>3, <1>4, RingQuiet DEF RingInv, SchedulerInv
<1>6. Members(RingSeq)' = Members(RingSeq)
  BY <1>5 DEF Members
<1>7. pc'[BootStack] \notin ExitSteps
  BY BootNeverExits
<1>8. \A s \in Slots : state'[s] = "DEAD" <=> state[s] = "DEAD"
  BY <1>1, TickHandsOver
<1>9. CASE UNCHANGED <<g_current, state, cpu>>
  <2>1. (\A s \in Slots : state[s] = "DEAD" => s \in Members(RingSeq) /\ cpu # BootStack)'
    BY <1>6, <1>9 DEF RingInv
  <2>2. (g_current \notin {NULL, BootSlot} => g_current \in Members(RingSeq))'
    BY <1>6, <1>9 DEF RingInv
  <2>3. (\A s \in Slots \ {BootSlot} : state[s] = "RUNNING" => s = g_current)'
    BY <1>9 DEF RingInv
  <2>4. (cpu # BootStack => g_current \notin {NULL, BootSlot})'
    BY <1>9 DEF RingInv
  <2>5. QED
    BY <1>2, <1>5, <1>7, <2>1, <2>2, <2>3, <2>4, Zenon DEF RingInv
<1>10. CASE HandsOver
  <2>1. g_current' \in Members(RingSeq) /\ g_current' \notin {NULL, BootSlot} /\ cpu' # BootStack
    BY <1>10, MembersBuilt DEF HandsOver, RingInv
  <2>2. (\A s \in Slots : state[s] = "DEAD" => s \in Members(RingSeq) /\ cpu # BootStack)'
    BY <1>6, <1>8, <2>1 DEF RingInv
  <2>3. (g_current \notin {NULL, BootSlot} => g_current \in Members(RingSeq))'
    BY <1>6, <2>1
  <2>4. (\A s \in Slots \ {BootSlot} : state[s] = "RUNNING" => s = g_current)'
    BY <1>10 DEF HandsOver
  <2>5. (cpu # BootStack => g_current \notin {NULL, BootSlot})'
    BY <2>1
  <2>6. QED
    BY <1>2, <1>5, <1>7, <2>2, <2>3, <2>4, <2>5, Zenon DEF RingInv
<1>11. QED
  BY <1>1, <1>2, <1>9, <1>10, TickHandsOver

LEMMA RingTaskingInit ==
  ASSUME SchedulerInv, SchedulerInv', RingInv, [Next]_vars, InitAlloc \/ InitFields
  PROVE  RingInv' /\ RingStep
<1>1. /\ BootSlot \in Slots /\ cpu = BootStack /\ UNCHANGED <<cpu, slot>> /\ NULL # BootSlot
      /\ pc[BootStack] \in {"init", "init_fields"} /\ BootStack \in Contexts
      /\ state \in [Slots -> TaskStates]
  <2>1. BootSlot \in Slots /\ NULL # BootSlot /\ BootStack \in Contexts
    BY TaskingAssumption DEF BootSlot, Slots, Contexts
  <2>2. state \in [Slots -> TaskStates]
    BY DEF SchedulerInv, TypeOK
  <2>3. cpu = BootStack /\ pc[BootStack] \in {"init", "init_fields"}
    BY DEF InitAlloc, InitFields, At
  <2>4. UNCHANGED <<cpu, slot>>
    BY DEF InitAlloc, InitFields
  <2>5. QED
    BY <2>1, <2>2, <2>3, <2>4
<1>2. g_current' = BootSlot /\ g_current \in {NULL, BootSlot} /\ g_runqueue = NULL /\ g_runqueue' = NULL
  BY <1>1 DEF InitAlloc, InitFields, At, SchedulerInv, BootPhases
<1>3. RingShape' /\ RingSeq' = RingSeq
  <2>1. CASE InitAlloc
    BY <2>1, RingInitAlloc DEF RingInv
  <2>2. CASE InitFields
    <3>1. UNCHANGED <<g_runqueue, next, used, slot, cpu>>
      BY <1>2, <2>2 DEF InitFields
    <3>2. {pc[BootStack], pc'[BootStack]} \cap (CreateSteps \cup PushSteps) = {}
      BY <1>1, <2>2 DEF InitFields, Goto, SchedulerInv, TypeOK, CreateSteps, PushSteps
    <3>3. QED
      BY <3>1, <3>2, RingQuiet DEF RingInv, SchedulerInv
  <2>3. QED
    BY <2>1, <2>2
<1>4. \A s \in Slots \ {BootSlot} : state'[s] = state[s]
  BY <1>1, <1>2 DEF InitAlloc, InitFields
<1>5. state'[BootSlot] \in {"READY", "RUNNING"}
  <2>1. CASE InitAlloc
    BY <1>1, <2>1 DEF InitAlloc
  <2>2. CASE InitFields
    <3>1. g_current = BootSlot
      BY <1>2, <2>2 DEF InitFields
    <3>2. QED
      BY <1>1, <2>2, <3>1 DEF InitFields
  <2>3. QED
    BY <2>1, <2>2
<1>6. \A s \in Slots : state[s] # "DEAD" /\ state'[s] # "DEAD"
  <2>1. \A s \in Slots : state[s] # "DEAD"
    BY <1>1 DEF RingInv
  <2>2. QED
    BY <1>4, <1>5, <2>1
<1>7. \A s \in Slots \ {BootSlot} : state'[s] # "RUNNING"
  BY <1>2, <1>4, TaskingAssumption DEF RingInv
<1>8. RingInv'
  BY <1>1, <1>2, <1>3, <1>6, <1>7, BootNeverExits DEF RingInv
<1>9. UNCHANGED <<Dead, Turn>>
  BY <1>2, <1>6 DEF Dead, Turn
<1>10. RingStep
  BY <1>3, <1>9, Spawns DEF RingInv, RingOutcome
<1>11. QED
  BY <1>8, <1>10

LEMMA RingCreation ==
  ASSUME SchedulerInv, SchedulerInv', QueueInv, RingInv, [Next]_vars,
         NEW c \in Contexts, task_create(c)
  PROVE  RingInv' /\ RingStep
<1>1. UNCHANGED <<g_current, cpu>> /\ c = cpu
  BY DEF task_create, TaskCreate, ClaimSlot, ZeroTask, BuildFrame, PushTest, PushFirst, PushSelf,
     PushLink, PushChain, PushTail, At, globals
<1>2. state \in [Slots -> TaskStates] /\ state' \in [Slots -> TaskStates] /\ RingShape
  BY DEF SchedulerInv, TypeOK, RingInv
<1>3. CASE UNCHANGED state
  <2>1. RingShape' /\ RingOutcome
    BY <1>2, RingTaskCreate, RingCreate, RingPush DEF task_create, RingOutcome
  <2>2. Members(RingSeq) \subseteq Members(RingSeq')
    BY <2>1 DEF RingOutcome
  <2>3. RingInv'
    BY <1>1, <1>3, <2>1, <2>2, RingKept, BootNeverExits
  <2>4. RingStep
    BY <1>1, <1>3, <2>1, Spawns DEF RingInv, Dead, Turn
  <2>5. QED
    BY <2>3, <2>4
<1>4. CASE ZeroTask(c) \/ BuildFrame(c)
  <2>1. RingShape' /\ RingSeq' = RingSeq
    BY <1>2, <1>4, RingCreate
  <2>2. slot[c] \in Slots \ {BootSlot} /\ slot[c] \notin Members(RingSeq)
    <3>1. pc[c] \in CreateSteps
      BY <1>4 DEF ZeroTask, BuildFrame, At, CreateSteps
    <3>2. QED
      BY <1>1, <1>2, <3>1, NotOnRing
  <2>3. \A s \in Slots : state'[s] = IF s = slot[c] THEN "READY" ELSE state[s]
    BY <1>2, <1>4, <2>2 DEF ZeroTask, BuildFrame
  <2>4. state[slot[c]] # "DEAD"
    BY <2>2 DEF RingInv
  <2>5. RingInv'
    <3>1. Members(RingSeq) \subseteq Members(RingSeq')
      BY <2>1
    <3>2. QED
      BY <1>1, <2>1, <2>3, <3>1, RingKept, BootNeverExits
  <2>6. UNCHANGED <<Dead, Turn>>
    BY <1>1, <2>3, <2>4 DEF Dead, Turn
  <2>7. QED
    BY <2>1, <2>5, <2>6, Spawns DEF RingInv, RingOutcome
<1>5. QED
  BY <1>3, <1>4 DEF task_create, TaskCreate, ClaimSlot, PushTest, PushFirst, PushSelf,
     PushLink, PushChain, PushTail, fields

LEMMA RingExit ==
  ASSUME SchedulerInv, SchedulerInv', QueueInv, RingInv, [Next]_vars,
         \/ UNCHANGED vars
         \/ \E c \in Contexts : ExitLockLoad(c) \/ ExitLockStore(c) \/ ExitMark(c) \/ ExitUnlock(c)
  PROVE  RingInv' /\ RingStep
<1>1. UNCHANGED <<g_runqueue, next, used, slot, cpu, g_current>>
  BY DEF ExitLockLoad, ExitLockStore, ExitMark, ExitUnlock, globals, fields, locals, vars
<1>2. \/ pc'[BootStack] = pc[BootStack]
      \/ {pc[BootStack], pc'[BootStack]} \cap (CreateSteps \cup PushSteps) = {}
  BY TaskingAssumption DEF ExitLockLoad, ExitLockStore, ExitMark, ExitUnlock, vars, locals, At, Goto,
     SchedulerInv, TypeOK, CreateSteps, PushSteps, Contexts
<1>3. RingShape' /\ RingSeq' = RingSeq
  BY <1>1, <1>2, RingQuiet DEF RingInv, SchedulerInv
<1>4. pc'[BootStack] \notin ExitSteps
  BY BootNeverExits
<1>5. CASE UNCHANGED state
  <2>1. RingInv'
    <3>1. Members(RingSeq) \subseteq Members(RingSeq')
      BY <1>3
    <3>2. QED
      BY <1>1, <1>3, <1>4, <1>5, <3>1, RingKept
  <2>2. QED
    BY <1>1, <1>3, <1>5, <2>1, Spawns DEF RingInv, RingOutcome, Dead, Turn
<1>6. ASSUME NEW c \in Contexts, ExitMark(c) PROVE RingInv' /\ RingStep
  <2>1. cpu = c /\ c # BootStack
    BY <1>6 DEF ExitMark, At, RingInv, ExitSteps
  <2>2. /\ g_current \in Members(RingSeq) /\ g_current \in Slots /\ g_current \notin {NULL, BootSlot}
        /\ state \in [Slots -> TaskStates]
    BY <2>1, MembersBuilt, TaskingAssumption DEF RingInv, SchedulerInv, TypeOK
  <2>3. \A s \in Slots : state'[s] = IF s = g_current THEN "DEAD" ELSE state[s]
    BY <1>6, <2>2 DEF ExitMark
  <2>4. Members(RingSeq)' = Members(RingSeq)
    BY <1>3 DEF Members
  <2>5. RingInv'
    BY <1>1, <1>3, <1>4, <2>1, <2>2, <2>3, <2>4 DEF RingInv
  <2>6. Dead' = Dead \cup {g_current} /\ Turn = g_current /\ Turn' = g_current
    BY <1>1, <2>2, <2>3 DEF Dead, Turn
  <2>7. CASE g_current \in Dead
    BY <1>3, <2>5, <2>6, <2>7, Spawns DEF RingInv, RingOutcome
  <2>8. CASE g_current \notin Dead
    <3>1. g_current \in Ring!Alive
      <4>1. Ring!ToSet(RingSeq) = Members(RingSeq)
        BY OnRing DEF RingInv
      <4>2. QED
        BY <2>2, <2>8, <4>1 DEF Ring!Alive, Dead
    <3>2. Ring!Exit
      BY <1>3, <2>6, <3>1 DEF Ring!Exit, Dead, Turn
    <3>3. QED
      BY <2>5, <3>2 DEF RingStep, Ring!Next
  <2>9. QED
    BY <2>7, <2>8
<1>7. QED
  BY <1>5, <1>6 DEF ExitLockLoad, ExitLockStore, ExitUnlock, fields, vars

LEMMA RingNext ==
  ASSUME SchedulerInv, SchedulerInv', QueueInv, RingInv, [Next]_vars
  PROVE  RingInv' /\ RingStep
<1>1. CASE Tick \/ \E c \in Contexts : ExitYield(c)
  BY <1>1, RingTick
<1>2. CASE InitAlloc \/ InitFields
  BY <1>2, RingTaskingInit
<1>3. ASSUME NEW c \in Contexts, task_create(c) PROVE RingInv' /\ RingStep
  BY <1>3, RingCreation
<1>4. CASE \/ UNCHANGED vars
           \/ \E c \in Contexts : ExitLockLoad(c) \/ ExitLockStore(c) \/ ExitMark(c) \/ ExitUnlock(c)
  BY <1>4, RingExit
<1>5. QED
  BY <1>1, <1>2, <1>3, <1>4 DEF Next, Exiting

\* The run queue of linked slots, the states and the ticks implement the ring of
\* RoundRobin: whoever runs next is the next living task, nobody is overtaken,
\* nobody dead runs again, and a push inserts one task and moves no other.
THEOREM TasksGoRound == OneSpawner => (Spec => Ring!Safe)
<1> SUFFICES ASSUME OneSpawner PROVE Spec => Ring!Safe
  OBVIOUS
<1>1. Init => SchedulerInv /\ QueueInv /\ RingInv
  BY InitInv, QueueInit, RingInit
<1>2. SchedulerInv /\ QueueInv /\ RingInv /\ [Next]_vars => (SchedulerInv /\ QueueInv /\ RingInv)' /\ RingStep
  <2> SUFFICES ASSUME SchedulerInv, QueueInv, RingInv, [Next]_vars
               PROVE  SchedulerInv' /\ QueueInv' /\ RingInv' /\ RingStep
    OBVIOUS
  <2>1. SchedulerInv'
    BY NextPreserves
  <2>2. QueueInv'
    BY <2>1, QueueNext
  <2>3. RingInv' /\ RingStep
    BY <2>1, RingNext
  <2>4. QED
    BY <2>1, <2>2, <2>3
<1>3. Init => Ring!Init
  <2> SUFFICES ASSUME Init PROVE Ring!Init
    OBVIOUS
  <2>1. RingSeq = <<>>
    BY NoRing DEF Init, Linked
  <2>2. QED
    BY <2>1 DEF Init, Ring!Init
<1>4. QED
  BY <1>1, <1>2, <1>3, PTL DEF Spec, Ring!Safe, RingStep
=============================================================================
