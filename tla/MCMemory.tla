------------------------------ MODULE MCMemory ------------------------------
(***************************************************************************)
(* The kernel's memory: the heap and the frames, which share nothing.  One *)
(* of them moves while the other is still as it was at boot.               *)
(***************************************************************************)
EXTENDS Heap, PhysMemory

MCInit == Init /\ PhysInit
MCNext ==
  \/ dma_next_virt = 0 /\ op = "idle" /\ ~lfb /\ Next /\ UNCHANGED physvars
  \/ size[0] = POOL_SIZE - HDR /\ pc["main"] = "idle" /\ held = {} /\ PhysNext /\ UNCHANGED vars
MCSpec == MCInit /\ [][MCNext]_<<vars, physvars>>
=============================================================================
