-------------------------------- MODULE Heap --------------------------------
(***************************************************************************)
(* The kernel heap of std/stdlib.cpp: one pool, a free list threaded       *)
(* through the headers of its free blocks, first fit, no coalescing.       *)
(*                                                                         *)
(* kernel_main ("main") calls malloc, free and realloc with interrupts     *)
(* on; an interrupt handler ("irq", such as RTL8139_RECEIVE_PACKET, which  *)
(* copies each packet to a block of its own) may call malloc and free      *)
(* between any two of main's steps, and runs until it returns.  Each step  *)
(* is one load or store of the free list or of a header.  No code in the   *)
(* tree calls realloc; calloc is malloc for this model.                    *)
(*                                                                         *)
(* Addresses count from the start of the pool; HDR is sizeof(block_t).     *)
(***************************************************************************)
EXTENDS Naturals, FiniteSets

CONSTANTS
  POOL_SIZE,  \* bytes in memory_pool
  HDR,        \* sizeof(block_t)
  Requests,   \* the sizes clients ask for
  NULL

Addresses == 0 .. POOL_SIZE - 1
Actors    == {"main", "irq"}

ASSUME HeapAssumption ==
  /\ HDR \in Nat \ {0} /\ POOL_SIZE \in Nat /\ POOL_SIZE > HDR
  /\ Requests \subseteq Nat
  /\ NULL \notin Addresses

VARIABLES
  free_list,          \* head of the free list
  size, next,         \* the headers: fields of the block_t at each address
  pc,                 \* where each actor is in malloc, free or realloc
  req,                \* the size argument
  prev_block, block,  \* malloc's locals; free's and realloc's block
  reg,                \* block->next on its way into the list
  after,              \* the block realloc replaces by a larger one, or NULL
  held                \* the blocks clients hold: [at, len, by]

heap   == <<free_list, size, next>>
locals == <<pc, req, prev_block, block, reg, after>>
vars   == <<heap, locals, held>>

MallocSteps == {"scan", "advance", "fit", "split_size", "split_next", "split_cut",
                "split_link", "unlink", "relink", "none"}
FreeSteps   == {"free_link", "free_head"}
Steps       == {"idle", "holding", "shrink", "fault"} \cup MallocSteps \cup FreeSteps

\* After initialize_memory_pool.
Init ==
  /\ free_list = 0
  /\ size  = [a \in Addresses |-> IF a = 0 THEN POOL_SIZE - HDR ELSE 0]
  /\ next  = [a \in Addresses |-> NULL]
  /\ pc    = [p \in Actors |-> "idle"]
  /\ req   = [p \in Actors |-> 0]
  /\ prev_block = [p \in Actors |-> NULL]
  /\ block = [p \in Actors |-> NULL]
  /\ reg   = [p \in Actors |-> NULL]
  /\ after = [p \in Actors |-> NULL]
  /\ held  = {}

\* An interrupt handler runs to its end before main goes on.
Runs(p) == p = "irq" \/ pc["irq"] = "idle"
At(p, step) == Runs(p) /\ pc[p] = step
Goto(p, step) == pc' = [pc EXCEPT ![p] = step]

-----------------------------------------------------------------------------
(* malloc                                                                  *)

Malloc(p, n) ==
  /\ Goto(p, "scan")
  /\ req' = [req EXCEPT ![p] = n]
  /\ prev_block' = [prev_block EXCEPT ![p] = NULL]
  /\ block' = [block EXCEPT ![p] = free_list]
  /\ UNCHANGED <<heap, reg, held>>

MallocCall(p, n) ==
  /\ At(p, "idle") /\ Malloc(p, n) /\ after' = [after EXCEPT ![p] = NULL]

\* Mutant: a block of the exact size is passed over.
MallocScanStrict(p) ==
  /\ At(p, "scan")
  /\ Goto(p, IF block[p] = NULL THEN "none"
             ELSE IF size[block[p]] <= req[p] THEN "advance" ELSE "fit")
  /\ UNCHANGED <<heap, req, prev_block, block, reg, after, held>>

\* while (block != NULL && block->size < size)
MallocScan(p) ==
  /\ At(p, "scan")
  /\ Goto(p, IF block[p] = NULL THEN "none"
             ELSE IF size[block[p]] < req[p] THEN "advance" ELSE "fit")
  /\ UNCHANGED <<heap, req, prev_block, block, reg, after, held>>

MallocAdvance(p) ==
  /\ At(p, "advance") /\ Goto(p, "scan")
  /\ prev_block' = [prev_block EXCEPT ![p] = block[p]]
  /\ block' = [block EXCEPT ![p] = next[block[p]]]
  /\ UNCHANGED <<heap, req, reg, after, held>>

\* What a NULL result leads to: realloc returns it, main's callers give up or
\* go on without the block, the interrupt handler copies to address 0 and then
\* frees NULL, which faults.
MallocNull(p) ==
  /\ At(p, "none") /\ Goto(p, IF p = "irq" THEN "fault" ELSE "idle")
  /\ UNCHANGED <<heap, req, prev_block, block, reg, after, held>>

\* The test whether to split.
MallocFit(p) ==
  /\ At(p, "fit")
  /\ Goto(p, IF size[block[p]] > req[p] + HDR THEN "split_size" ELSE "unlink")
  /\ UNCHANGED <<heap, req, prev_block, block, reg, after, held>>

\* split_block, called by malloc and, on a block in use, by realloc.
Rest(p) == block[p] + HDR + req[p]

SplitSize(p) ==
  /\ At(p, "split_size") /\ Goto(p, "split_next")
  /\ size' = [size EXCEPT ![Rest(p)] = size[block[p]] - HDR - req[p]]
  /\ UNCHANGED <<free_list, next, req, prev_block, block, reg, after, held>>

SplitNext(p) ==
  /\ At(p, "split_next") /\ Goto(p, "split_cut")
  /\ next' = [next EXCEPT ![Rest(p)] = next[block[p]]]
  /\ UNCHANGED <<free_list, size, req, prev_block, block, reg, after, held>>

SplitCut(p) ==
  /\ At(p, "split_cut") /\ Goto(p, "split_link")
  /\ size' = [size EXCEPT ![block[p]] = req[p]]
  /\ UNCHANGED <<free_list, next, req, prev_block, block, reg, after, held>>

\* Mutant: split_block links the new block nowhere.
SplitUnlinked(p) ==
  /\ At(p, "split_link") /\ Goto(p, "unlink")
  /\ UNCHANGED <<heap, req, prev_block, block, reg, after, held>>

\* In realloc (after # NULL) the block returned is the one it was given.
SplitLink(p) ==
  /\ At(p, "split_link")
  /\ Goto(p, IF after[p] = block[p] THEN "idle" ELSE "unlink")
  /\ next' = [next EXCEPT ![block[p]] = Rest(p)]
  /\ UNCHANGED <<free_list, size, req, prev_block, block, reg, after, held>>

\* Take block->next ...
Unlink(p) ==
  /\ At(p, "unlink") /\ Goto(p, "relink")
  /\ reg' = [reg EXCEPT ![p] = next[block[p]]]
  /\ UNCHANGED <<heap, req, prev_block, block, after, held>>

\* ... store it in the predecessor or the head, and return the block; realloc
\* goes on to free the one it replaces.
Relink(p) ==
  /\ At(p, "relink")
  /\ IF prev_block[p] = NULL
       THEN free_list' = reg[p] /\ UNCHANGED next
       ELSE next' = [next EXCEPT ![prev_block[p]] = reg[p]] /\ UNCHANGED free_list
  /\ held' = {h \in held : h.at # after[p]}
               \cup {[at |-> block[p], len |-> req[p], by |-> p]}
  /\ IF after[p] = NULL
       THEN Goto(p, IF p = "irq" THEN "holding" ELSE "idle") /\ UNCHANGED block
       ELSE Goto(p, "free_link") /\ block' = [block EXCEPT ![p] = after[p]]
  /\ UNCHANGED <<size, req, prev_block, reg, after>>

-----------------------------------------------------------------------------
(* free                                                                    *)

Free(p, h) ==
  /\ Goto(p, "free_link")
  /\ held' = held \ {h}
  /\ block' = [block EXCEPT ![p] = h.at]
  /\ UNCHANGED <<heap, req, prev_block, reg, after>>

FreeCall(h) == At("main", "idle") /\ h.by = "main" /\ Free("main", h)

FreeLink(p) ==
  /\ At(p, "free_link") /\ Goto(p, "free_head")
  /\ next' = [next EXCEPT ![block[p]] = free_list]
  /\ UNCHANGED <<free_list, size, req, prev_block, block, reg, after, held>>

FreeHead(p) ==
  /\ At(p, "free_head") /\ Goto(p, "idle")
  /\ free_list' = block[p]
  /\ UNCHANGED <<size, next, req, prev_block, block, reg, after, held>>

-----------------------------------------------------------------------------
(* realloc of a block that main holds.                                     *)

\* It fits: the tail is split off, if a header fits in it, and forgotten.
ReallocShrink(h, n) ==
  /\ At("main", "idle") /\ h.by = "main"
  /\ n <= size[h.at]
  /\ held' = (held \ {h}) \cup {[h EXCEPT !.len = n]}
  /\ req'   = [req EXCEPT !["main"] = n]
  /\ block' = [block EXCEPT !["main"] = h.at]
  /\ after' = [after EXCEPT !["main"] = h.at]
  /\ Goto("main", IF size[h.at] - n >= HDR THEN "split_size" ELSE "idle")
  /\ UNCHANGED <<heap, prev_block, reg>>

\* It does not: a new block, a copy, and the old one is freed.
ReallocGrow(h, n) ==
  /\ At("main", "idle") /\ h.by = "main"
  /\ n > size[h.at]
  /\ Malloc("main", n)
  /\ after' = [after EXCEPT !["main"] = h.at]

-----------------------------------------------------------------------------

Step(p) ==
  \/ MallocScan(p) \/ MallocAdvance(p) \/ MallocNull(p) \/ MallocFit(p)
  \/ SplitSize(p) \/ SplitNext(p) \/ SplitCut(p) \/ SplitLink(p)
  \/ Unlink(p) \/ Relink(p) \/ FreeLink(p) \/ FreeHead(p)

Calls ==
  \/ \E n \in Requests : MallocCall("main", n)
  \/ \E h \in held : FreeCall(h)

Grows    == \E h \in held, n \in Requests : ReallocGrow(h, n)
Reallocs == Grows \/ \E h \in held, n \in Requests : ReallocShrink(h, n)

\* The handler's call of malloc, and of free on what it got.
Interrupt ==
  \/ \E n \in Requests : MallocCall("irq", n)
  \/ At("irq", "holding") /\ \E h \in held : h.by = "irq" /\ Free("irq", h)

\* Nothing interrupts main, and no block is shrunk (no code in the tree calls
\* realloc).
Next == Calls \/ Grows \/ Step("main")
Spec == Init /\ [][Next]_vars

\* With realloc in full.
ReallocSpec == Init /\ [][Calls \/ Reallocs \/ Step("main")]_vars

\* With interrupts.
IrqSpec == Init /\ [][Calls \/ Step("main") \/ Interrupt \/ Step("irq")]_vars

-----------------------------------------------------------------------------
(* Properties.                                                             *)

TypeOK ==
  /\ free_list \in Addresses \cup {NULL}
  /\ size \in [Addresses -> 0 .. POOL_SIZE] /\ next \in [Addresses -> Addresses \cup {NULL}]
  /\ pc \in [Actors -> Steps] /\ req \in [Actors -> Requests \cup {0}]
  /\ \A v \in {prev_block, block, reg, after} : v \in [Actors -> Addresses \cup {NULL}]
  /\ \A h \in held : h.at \in Addresses /\ h.len \in Requests /\ h.by \in Actors

\* The blocks on the free list: the least set that holds the head and is closed
\* under next.
FreeWalk ==
  LET walk[k \in 0 .. POOL_SIZE] ==
        IF k = 0 THEN {free_list} \ {NULL}
        ELSE {next[a] : a \in walk[k - 1]} \ {NULL}
  IN  walk
FreeBlocks == UNION {FreeWalk[k] : k \in 0 .. POOL_SIZE}

\* The bytes of the block at a with its header, if it holds n bytes.
Extent(a, n) == a .. a + HDR + n - 1

Quiescent == \A p \in Actors : pc[p] \in {"idle", "holding"}

\* Two blocks in use never share a byte, headers included: what malloc returns
\* is nobody else's (the block was taken off the free list).
HeldDisjoint ==
  \A h, k \in held :
    h # k => Extent(h.at, h.len) \cap Extent(k.at, k.len) = {}

\* Between calls every byte of the pool belongs to one block, in use or free:
\* a split or a free loses nothing, nothing is on the list twice, and the list
\* never becomes a cycle that the scan of malloc would follow for ever.
PoolTiled ==
  Quiescent =>
    LET blocks == FreeBlocks \cup {h.at : h \in held}
    IN  /\ FreeWalk[POOL_SIZE] = {}
        /\ \A h \in held : h.at \notin FreeBlocks /\ h.len <= size[h.at]
        /\ \A a, b \in blocks : a # b => Extent(a, size[a]) \cap Extent(b, size[b]) = {}
        /\ UNION {Extent(a, size[a]) : a \in blocks} = Addresses

\* malloc returns NULL only when no free block is large enough.
NullOnlyWhenNoneFits ==
  \A p \in Actors : pc[p] = "none" => \A a \in FreeBlocks : size[a] < req[p]
=============================================================================
