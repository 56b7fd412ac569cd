------------------------------ MODULE Tasking ------------------------------
(***************************************************************************)
(* The preemptive task scheduler of dev/tasking/tasking.cpp.               *)
(*                                                                         *)
(* A context is a kernel stack: kernel_main's (BootStack) or one handed to *)
(* task_create (a member of Stacks).  cpu is the context that executes.    *)
(* IRQ0 may arrive before any of its steps (code outside the interrupt     *)
(* stubs runs with IF = 1) and runs scheduler_on_tick to completion (the   *)
(* gates are interrupt gates), which may load the stack of another task.   *)
(* Each step of a context is one access to the scheduler's globals that    *)
(* another context or the timer can see.                                   *)
(*                                                                         *)
(* A saved_esp is represented by the context whose registers it points to. *)
(* pid is left out: no code reads it.                                      *)
(***************************************************************************)
EXTENDS Naturals

CONSTANTS
  MAX_TASKS,  \* size of g_tasks
  Stacks,     \* the stacks clients hand to task_create, each of them once
  BootStack,  \* the stack kernel_main runs on
  Creators,   \* the contexts whose code calls task_create
  NULL

Slots    == 0 .. MAX_TASKS - 1   \* g_tasks[i] is slot i
Contexts == Stacks \cup {BootStack}
BootSlot == 0                    \* what task_alloc returns to tasking_init

ASSUME TaskingAssumption ==
  /\ MAX_TASKS \in Nat \ {0}
  /\ BootStack \notin Stacks
  /\ Creators \subseteq Contexts
  /\ NULL \notin Slots \cup Contexts

VARIABLES
  g_current, g_runqueue, g_sched_lock,  \* the globals; g_runqueue is the tail
  used,                                 \* g_task_used
  saved_esp, next, state,               \* the fields of g_tasks
  cpu,                                  \* the context that executes
  pc,                                   \* where each context is
  slot, stack_mem,                      \* task_create's t and stack_mem
  reg                                   \* the register of g_sched_lock++

globals == <<g_current, g_runqueue, g_sched_lock, used>>
fields  == <<saved_esp, next, state>>
locals  == <<pc, slot, stack_mem, reg>>
vars    == <<globals, fields, cpu, locals>>

TaskStates == {"READY", "RUNNING", "DEAD"}

\* Where a context can be.  "free": a stack not yet given to task_create;
\* "given": task_create is building its frame; "run": client code; then the
\* steps of tasking_init, task_create with runqueue_push, and task_exit.
CreateSteps == {"claim", "zero", "frame"}
PushSteps   == {"push", "push_first", "push_self", "push_link", "push_chain",
                "push_tail"}
ExitSteps   == {"lock", "mark", "unlock", "yield", "idle"}
Steps       == {"free", "given", "run", "init", "init_fields"}
                 \cup CreateSteps \cup PushSteps \cup ExitSteps

Init ==
  /\ g_current = NULL /\ g_runqueue = NULL /\ g_sched_lock = 0
  /\ used      = [s \in Slots |-> FALSE]
  /\ saved_esp = [s \in Slots |-> NULL]
  /\ next      = [s \in Slots |-> NULL]
  /\ state     = [s \in Slots |-> "READY"]
  /\ cpu       = BootStack
  /\ pc        = [c \in Contexts |-> IF c = BootStack THEN "init" ELSE "free"]
  /\ slot      = [c \in Contexts |-> NULL]
  /\ stack_mem = [c \in Contexts |-> NULL]
  /\ reg       = [c \in Contexts |-> 0]

-----------------------------------------------------------------------------
(* The run queue: a circular list entered at its tail.                     *)

runqueue_head == IF g_runqueue = NULL THEN NULL ELSE next[g_runqueue]

\* The slots the loop of pick_next can stand on when it starts at `start`: it
\* moves on from a slot that is not READY.  (The least set closed under it.)
Visited(start) ==
  {t \in Slots :
     \A S \in SUBSET Slots :
       (/\ start \in S
        /\ \A x \in S : state[x] # "READY" /\ next[x] # NULL => next[x] \in S)
       => t \in S}

\* Mutant: the walk starts at the head instead of after cur.
PickNextFromHead(cur) ==
  LET ready == {t \in Visited(runqueue_head) : state[t] = "READY"}
  IN  IF g_runqueue = NULL \/ runqueue_head = NULL \/ ready = {}
        THEN cur
        ELSE CHOOSE t \in ready : TRUE

\* pick_next: the first READY slot after cur, or cur.
PickNext(cur) ==
  LET start == IF next[cur] # NULL THEN next[cur] ELSE runqueue_head
      ready == {t \in Visited(start) : state[t] = "READY"}
  IN  IF g_runqueue = NULL \/ start = NULL \/ ready = {}
        THEN cur
        ELSE CHOOSE t \in ready : TRUE

-----------------------------------------------------------------------------
(* scheduler_on_tick.                                                      *)

StayOn ==
  /\ g_sched_lock > 0 \/ g_current = NULL
  /\ UNCHANGED <<g_current, saved_esp, state, cpu>>

\* The bootstrap task has no saved frame yet: jump to the head of the queue.
FirstTick ==
  /\ g_sched_lock = 0 /\ g_current # NULL /\ saved_esp[g_current] = NULL
  /\ saved_esp' = [saved_esp EXCEPT ![g_current] = cpu]
  /\ IF runqueue_head = NULL
       THEN UNCHANGED <<g_current, state, cpu>>
       ELSE /\ g_current' = runqueue_head
            /\ state' = [state EXCEPT ![runqueue_head] = "RUNNING"]
            /\ cpu' = saved_esp'[runqueue_head]

\* Mutants: the lock is not looked at; the frame is saved after g_current moved.
LaterTickUnlocked ==
  /\ g_current # NULL /\ saved_esp[g_current] # NULL
  /\ saved_esp' = [saved_esp EXCEPT ![g_current] = cpu]
  /\ LET n == PickNext(g_current)
     IN  /\ g_current' = n
         /\ state' = [state EXCEPT ![g_current] = "READY", ![n] = "RUNNING"]
         /\ cpu' = saved_esp'[n]

LaterTickSavesLate ==
  /\ g_sched_lock = 0 /\ g_current # NULL /\ saved_esp[g_current] # NULL
  /\ LET n == PickNext(g_current)
     IN  /\ g_current' = n
         /\ saved_esp' = [saved_esp EXCEPT ![n] = cpu]
         /\ cpu' = saved_esp[n]
  /\ UNCHANGED state

LaterTick ==
  /\ g_sched_lock = 0 /\ g_current # NULL /\ saved_esp[g_current] # NULL
  /\ saved_esp' = [saved_esp EXCEPT ![g_current] = cpu]
  /\ LET n == PickNext(g_current)
     IN  IF n = g_current
           THEN UNCHANGED <<g_current, state, cpu>>
           ELSE /\ g_current' = n
                /\ state' = [state EXCEPT
                     ![g_current] = IF @ = "RUNNING" THEN "READY" ELSE @,
                     ![n] = "RUNNING"]
                /\ cpu' = saved_esp'[n]

scheduler_on_tick ==
  /\ StayOn \/ FirstTick \/ LaterTick
  /\ UNCHANGED <<g_runqueue, g_sched_lock, used, next>>

\* IRQ0 between two steps of the running context.
Tick == scheduler_on_tick /\ UNCHANGED locals

-----------------------------------------------------------------------------
(* The steps of the running context.                                       *)

At(c, step) == cpu = c /\ pc[c] = step
Goto(c, step) == pc' = [pc EXCEPT ![c] = step]

\* tasking_init, up to the assignment of g_current.
InitAlloc ==
  /\ At(BootStack, "init") /\ Goto(BootStack, "init_fields")
  /\ used' = [s \in Slots |-> s = BootSlot]
  /\ g_current' = BootSlot
  /\ saved_esp' = [saved_esp EXCEPT ![BootSlot] = NULL]
  /\ next'      = [next EXCEPT ![BootSlot] = NULL]
  /\ state'     = [state EXCEPT ![BootSlot] = "READY"]
  /\ UNCHANGED <<g_runqueue, g_sched_lock, cpu, slot, stack_mem, reg>>

\* Mutant: the bootstrap task is queued like any other.
InitFieldsQueued ==
  /\ At(BootStack, "init_fields") /\ Goto(BootStack, "run")
  /\ state'     = [state EXCEPT ![g_current] = "RUNNING"]
  /\ saved_esp' = [saved_esp EXCEPT ![g_current] = NULL]
  /\ next'      = [next EXCEPT ![g_current] = g_current]
  /\ g_runqueue' = g_current
  /\ UNCHANGED <<g_current, g_sched_lock, used, cpu, slot, stack_mem, reg>>

\* The rest of tasking_init.
InitFields ==
  /\ At(BootStack, "init_fields") /\ Goto(BootStack, "run")
  /\ state'     = [state EXCEPT ![g_current] = "RUNNING"]
  /\ saved_esp' = [saved_esp EXCEPT ![g_current] = NULL]
  /\ g_runqueue' = NULL
  /\ UNCHANGED <<g_current, g_sched_lock, used, next, cpu, slot, stack_mem, reg>>

FreeSlots == {i \in Slots : ~used[i]}

\* A call of task_create finds the first free slot.  (A flag, once set, stays
\* set, so the scan is as good as one step at its last test.  With the table
\* full the call returns NULL and changes nothing.)
TaskCreate(c, s) ==
  /\ c \in Creators /\ At(c, "run")
  /\ pc[s] = "free"
  /\ \E i \in FreeSlots :
       (\A j \in FreeSlots : i <= j) /\ slot' = [slot EXCEPT ![c] = i]
  /\ stack_mem' = [stack_mem EXCEPT ![c] = s]
  /\ pc' = [pc EXCEPT ![c] = "claim", ![s] = "given"]
  /\ UNCHANGED <<globals, fields, cpu, reg>>

ClaimSlot(c) ==
  /\ At(c, "claim") /\ Goto(c, "zero")
  /\ used' = [used EXCEPT ![slot[c]] = TRUE]
  /\ UNCHANGED <<g_current, g_runqueue, g_sched_lock, fields, cpu, slot, stack_mem, reg>>

ZeroTask(c) ==
  /\ At(c, "zero") /\ Goto(c, "frame")
  /\ saved_esp' = [saved_esp EXCEPT ![slot[c]] = NULL]
  /\ next'      = [next EXCEPT ![slot[c]] = NULL]
  /\ state'     = [state EXCEPT ![slot[c]] = "READY"]
  /\ UNCHANGED <<globals, cpu, slot, stack_mem, reg>>

\* The new context starts in the trampoline when its frame is first loaded.
BuildFrame(c) ==
  /\ At(c, "frame")
  /\ state'     = [state EXCEPT ![slot[c]] = "READY"]
  /\ saved_esp' = [saved_esp EXCEPT ![slot[c]] = stack_mem[c]]
  /\ pc' = [pc EXCEPT ![c] = "push", ![stack_mem[c]] = "run"]
  /\ UNCHANGED <<globals, next, cpu, slot, stack_mem, reg>>

PushTest(c) ==
  /\ At(c, "push")
  /\ Goto(c, IF g_runqueue = NULL THEN "push_first" ELSE "push_link")
  /\ UNCHANGED <<globals, fields, cpu, slot, stack_mem, reg>>

\* Empty queue: g_runqueue is set one store before t->next.
PushFirst(c) ==
  /\ At(c, "push_first") /\ Goto(c, "push_self")
  /\ g_runqueue' = slot[c]
  /\ UNCHANGED <<g_current, g_sched_lock, used, fields, cpu, slot, stack_mem, reg>>

PushSelf(c) ==
  /\ At(c, "push_self") /\ Goto(c, "run")
  /\ next' = [next EXCEPT ![slot[c]] = slot[c]]
  /\ UNCHANGED <<globals, saved_esp, state, cpu, slot, stack_mem, reg>>

\* Mutant: t->next = tail.
PushLinkToTail(c) ==
  /\ At(c, "push_link") /\ Goto(c, "push_chain")
  /\ next' = [next EXCEPT ![slot[c]] = g_runqueue]
  /\ UNCHANGED <<globals, saved_esp, state, cpu, slot, stack_mem, reg>>

\* Non-empty queue: t->next = head, tail->next = t, tail = t.
PushLink(c) ==
  /\ At(c, "push_link") /\ Goto(c, "push_chain")
  /\ next' = [next EXCEPT ![slot[c]] = next[g_runqueue]]
  /\ UNCHANGED <<globals, saved_esp, state, cpu, slot, stack_mem, reg>>

PushChain(c) ==
  /\ At(c, "push_chain") /\ Goto(c, "push_tail")
  /\ next' = [next EXCEPT ![g_runqueue] = slot[c]]
  /\ UNCHANGED <<globals, saved_esp, state, cpu, slot, stack_mem, reg>>

PushTail(c) ==
  /\ At(c, "push_tail") /\ Goto(c, "run")
  /\ g_runqueue' = slot[c]
  /\ UNCHANGED <<g_current, g_sched_lock, used, fields, cpu, slot, stack_mem, reg>>

\* task_exit, called by the trampoline when the entry function returns.
\* sched_lock's increment is a load and a store.
ExitLockLoad(c) ==
  /\ c \in Stacks /\ At(c, "run") /\ Goto(c, "lock")
  /\ reg' = [reg EXCEPT ![c] = g_sched_lock]
  /\ UNCHANGED <<globals, fields, cpu, slot, stack_mem>>

ExitLockStore(c) ==
  /\ At(c, "lock") /\ Goto(c, "mark")
  /\ g_sched_lock' = reg[c] + 1
  /\ UNCHANGED <<g_current, g_runqueue, used, fields, cpu, slot, stack_mem, reg>>

ExitMark(c) ==
  /\ At(c, "mark") /\ Goto(c, "unlock")
  /\ state' = IF g_current = NULL THEN state
              ELSE [state EXCEPT ![g_current] = "DEAD"]
  /\ UNCHANGED <<globals, saved_esp, next, cpu, slot, stack_mem, reg>>

\* Mutant: sched_unlock is forgotten.
ExitStaysLocked(c) ==
  At(c, "unlock") /\ Goto(c, "yield") /\ UNCHANGED <<globals, fields, cpu, slot, stack_mem, reg>>

ExitUnlock(c) ==
  /\ At(c, "unlock") /\ Goto(c, "yield")
  /\ g_sched_lock' = IF g_sched_lock > 0 THEN g_sched_lock - 1 ELSE 0
  /\ UNCHANGED <<g_current, g_runqueue, used, fields, cpu, slot, stack_mem, reg>>

\* int $0x20; if it returns, the hlt loop.
ExitYield(c) ==
  /\ At(c, "yield") /\ Goto(c, "idle")
  /\ scheduler_on_tick
  /\ UNCHANGED <<slot, stack_mem, reg>>

-----------------------------------------------------------------------------

task_create(c) ==
  \/ \E s \in Stacks : TaskCreate(c, s)
  \/ ClaimSlot(c) \/ ZeroTask(c) \/ BuildFrame(c)
  \/ PushTest(c) \/ PushFirst(c) \/ PushSelf(c)
  \/ PushLink(c) \/ PushChain(c) \/ PushTail(c)

\* What follows the decision to exit.
Exiting(c) == ExitLockStore(c) \/ ExitMark(c) \/ ExitUnlock(c) \/ ExitYield(c)

Next ==
  \/ Tick
  \/ InitAlloc \/ InitFields
  \/ \E c \in Contexts : task_create(c) \/ ExitLockLoad(c) \/ Exiting(c)

Spec == Init /\ [][Next]_vars

\* The PIT keeps firing, and the CPU executes task_exit once entered; a task
\* is free never to exit, and kernel_main never to create another one.
Fairness ==
  /\ WF_vars(Tick)
  /\ \A c \in Contexts : WF_vars(Exiting(c))

LiveSpec == Spec /\ Fairness

-----------------------------------------------------------------------------
(* Properties.                                                             *)

\* Every variable holds a value of its C type.
TypeOK ==
  /\ g_current \in Slots \cup {NULL}
  /\ g_runqueue \in Slots \cup {NULL}
  /\ g_sched_lock \in Nat
  /\ used \in [Slots -> BOOLEAN]
  /\ saved_esp \in [Slots -> Contexts \cup {NULL}]
  /\ next \in [Slots -> Slots \cup {NULL}]
  /\ state \in [Slots -> TaskStates]
  /\ cpu \in Contexts
  /\ pc \in [Contexts -> Steps]
  /\ slot \in [Contexts -> Slots \cup {NULL}]
  /\ stack_mem \in [Contexts -> Stacks \cup {NULL}]
  /\ reg \in [Contexts -> Nat]

\* What can be reached from x along next.
Reach(x) ==
  {t \in Slots :
     \A S \in SUBSET Slots :
       (x \in S /\ \A y \in S : next[y] # NULL => next[y] \in S) => t \in S}

\* Slot s belongs to a task whose creation (or the runqueue_push that ends it)
\* is still under way in some context.
BeingCreated(s) ==
  \E c \in Contexts : slot[c] = s /\ pc[c] \in CreateSteps \cup PushSteps

\* The run queue is one circle through its tail that holds every task created
\* and never the bootstrap task, whatever the stores of runqueue_push a tick or
\* another push falls between: runqueue_push loses nobody, and pick_next's loop,
\* which runs with interrupts off, comes round and ends.
RunqueueCircle ==
  g_runqueue # NULL =>
    LET ring == Reach(g_runqueue)
    IN  /\ \A s \in ring : g_runqueue \in Reach(s)
        /\ BootSlot \notin ring
        /\ {s \in Slots \ {BootSlot} : used[s] /\ ~BeingCreated(s)} \subseteq ring

\* The scheduler lock is held by the context that executes, between the
\* increment and the decrement of task_exit: although sched_lock's increment is
\* not atomic, no tick can switch away from a holder or lose its count.
LockHeldByRunning ==
  /\ g_sched_lock = IF pc[cpu] \in {"mark", "unlock"} THEN 1 ELSE 0
  /\ \A c \in Contexts \ {cpu} : pc[c] \notin {"mark", "unlock"}

\* A saved frame has one owner: no two tasks resume on one stack, and nobody
\* but the current task is recorded on the stack the CPU is using.
FramesNotShared ==
  /\ \A s, t \in Slots : s # t /\ saved_esp[s] # NULL => saved_esp[s] # saved_esp[t]
  /\ g_current # NULL => \A s \in Slots \ {g_current} : saved_esp[s] # cpu

\* kernel_main is abandoned: the bootstrap task is never queued, so once a tick
\* has switched away from it the CPU never returns, be it in the middle of
\* creating a task.
KernelMainAbandoned == [][cpu # BootStack => cpu' # BootStack]_vars

\* A task that exits hands the CPU over if anybody else can run.
ExitYields ==
  \A s \in Slots \ {BootSlot} :
    (/\ state[s] = "DEAD" /\ g_current = s
     /\ \E t \in Reach(g_runqueue) : state[t] = "READY") ~> (g_current # s)

-----------------------------------------------------------------------------
(* The inductive invariant behind TypeOK, LockHeldByRunning,               *)
(* FramesNotShared and KernelMainAbandoned.  It holds when kernel_main and *)
(* at most one task call task_create: kernel_main's unfinished call stays  *)
(* unfinished once another context runs.                                   *)

OneSpawner == \A c, d \in Creators \ {BootStack} : c = d

\* A task's frame is built; only such a slot is ever pointed to.
Built(s) == s \in Slots \ {BootSlot} /\ used[s] /\ saved_esp[s] # NULL

PointersToBuilt ==
  /\ \A x \in Slots : next[x] # NULL => Built(next[x])
  /\ g_runqueue # NULL => Built(g_runqueue)

\* While kernel_main runs no task has run; once it does not, it is past init.
BootPhases ==
  /\ cpu = BootStack =>
       /\ g_current \in {BootSlot, NULL}
       /\ \A c \in Stacks : pc[c] \in {"free", "given", "run"}
  /\ cpu # BootStack => g_current # NULL /\ pc[BootStack] \notin {"init", "init_fields"}
  /\ pc[BootStack] \in {"init", "init_fields"} => g_runqueue = NULL
  /\ pc[BootStack] = "init" =>
       g_current = NULL /\ \A s \in Slots : ~used[s] /\ next[s] = NULL
  /\ pc[BootStack] # "init" => g_current # NULL /\ used[BootSlot]
  /\ \A s \in Slots \ {BootSlot} : saved_esp[s] # BootStack

\* What a creation that can still go on relies on.
CreationPrivate(c) ==
  /\ pc[c] \in CreateSteps \cup PushSteps =>
       c \in Creators /\ slot[c] \in Slots \ {BootSlot}
  /\ pc[c] \in CreateSteps => stack_mem[c] \in Stacks /\ pc[stack_mem[c]] = "given"
  /\ pc[c] = "claim" => ~used[slot[c]]
  /\ pc[c] \in {"zero", "frame"} => used[slot[c]]
  /\ pc[c] \in CreateSteps =>
       g_runqueue # slot[c] /\ \A x \in Slots : next[x] # slot[c]
  /\ pc[c] \in PushSteps => Built(slot[c])
  /\ pc[c] \in {"push_link", "push_chain"} => g_runqueue # NULL

CreationsPrivate ==
  \A c \in Contexts : c = cpu \/ c # BootStack => CreationPrivate(c)

\* A stack not yet in use is in no frame and on no CPU.
FreshStacks ==
  \A c \in Contexts : pc[c] \in {"free", "given"} =>
    c # cpu /\ \A s \in Slots : saved_esp[s] # c

SchedulerInv ==
  /\ TypeOK
  /\ PointersToBuilt
  /\ BootPhases
  /\ CreationsPrivate
  /\ FreshStacks
  /\ FramesNotShared
  /\ LockHeldByRunning
  /\ \A c \in Contexts : pc[c] = "lock" => reg[c] = 0
=============================================================================
