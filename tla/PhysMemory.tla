----------------------------- MODULE PhysMemory -----------------------------
(***************************************************************************)
(* Physical frames and their mappings: the frame bitmap and dma_alloc of   *)
(* dev/memory/allocator.cpp, the page tables of dev/paging/paging.cpp, and *)
(* the frame buffer mapping of dev/vbe/vbe.cpp.                            *)
(*                                                                         *)
(* A step is one pass of a loop: a frame allocated, a table created, a     *)
(* page mapped.  Interrupt handlers never come here, so calls do not       *)
(* interleave.  Memory is counted in pages; virtual pages are counted from *)
(* DMA_REGION_BASE.  Below that base PagingInstall maps every frame of the *)
(* bitmap at its own address (513 tables of 4 MiB), so the identity        *)
(* mapping of a new table changes nothing.                                 *)
(***************************************************************************)
EXTENDS Integers, FiniteSets

CONSTANTS
  MAX_PAGES,              \* frames the bitmap covers
  RegionBase, RegionEnd,  \* the usable region the BIOS reports
  KernelEnd,              \* the first frame past the kernel image
  ENTRIES,                \* entries of a page table
  Sizes, Alignments,      \* what drivers ask of dma_alloc
  LFB_VIRT, LFB_PHYS, LFB_PAGES,  \* the linear frame buffer
  NotPresent              \* an entry without its present bit

ASSUME PhysMemoryAssumption ==
  /\ {MAX_PAGES, RegionBase, RegionEnd, KernelEnd, ENTRIES,
      LFB_VIRT, LFB_PHYS, LFB_PAGES} \subseteq Nat
  /\ 0 < KernelEnd /\ RegionEnd <= MAX_PAGES
  /\ ENTRIES > 0 /\ LFB_PAGES > 0
  /\ Sizes \subseteq Nat \ {0} /\ Alignments \subseteq Nat \ {0}
  /\ MAX_PAGES <= LFB_PHYS
  /\ NotPresent \notin Nat

Frames     == 0 .. MAX_PAGES - 1
Virtual    == 0 .. LFB_VIRT + LFB_PAGES - 1
Directory  == {v \div ENTRIES : v \in Virtual}
EntryIndex == 0 .. ENTRIES - 1
NONE       == 0  \* alloc_phys_page's "out of memory" is the address of frame 0

VARIABLES
  bitmap,          \* TRUE: the frame is in use
  page_directory,  \* the table of each 4 MiB
  table,           \* each frame's contents, read as a page table
  dma_next_virt,   \* first virtual page no buffer has
  buffers,         \* what dma_alloc returned
  lfb,             \* the frame buffer is mapped
  pages,           \* frames got by alloc_phys_page from outside dma_alloc
  op, count, alignment, i, phys, virt  \* of the running call

store    == <<bitmap, page_directory, table>>
running  == <<op, count, alignment, i, phys, virt>>
physvars == <<store, dma_next_virt, buffers, lfb, pages, running>>

\* Frames that init_phys_allocator clears in the bitmap.
Usable == {f \in RegionBase .. RegionEnd - 1 : f >= KernelEnd}

PhysInit ==
  /\ bitmap = [f \in Frames |-> f \notin Usable]
  /\ page_directory = [d \in Directory |-> NotPresent]
  /\ table = [f \in Frames |-> [e \in EntryIndex |-> NotPresent]]
  /\ dma_next_virt = 0
  /\ buffers = {} /\ lfb = FALSE /\ pages = {}
  /\ op = "idle" /\ count = 0 /\ alignment = 1 /\ i = 0 /\ phys = NONE /\ virt = 0

\* f is the frame alloc_phys_page finds.
LowestFree(f) == ~bitmap[f] /\ \A g \in Frames : g < f => bitmap[g]
OutOfMemory   == \A f \in Frames : bitmap[f]

\* The bitmap after free_phys_page of each frame in F.
Freed(F) == [f \in Frames |-> bitmap[f] /\ f \notin F]

-----------------------------------------------------------------------------
(* dma_alloc, and alloc_phys_pages in it                                   *)

\* The guard is a bound, not the code's: dma_next_virt stays below the frame
\* buffer.  The drivers of the tree take less than 1 of the 256 MiB between.
DmaAlloc(n, a) ==
  /\ op = "idle"
  /\ dma_next_virt + a + n <= LFB_VIRT
  /\ op' = "alloc" /\ count' = n /\ alignment' = a /\ i' = 0 /\ phys' = NONE
  /\ UNCHANGED <<store, dma_next_virt, buffers, lfb, pages, virt>>

AllocNext ==
  /\ op = "alloc" /\ i < count
  /\ \E f \in Frames :
       /\ LowestFree(f)
       /\ i = 0 \/ f = phys + i
       /\ bitmap' = [bitmap EXCEPT ![f] = TRUE]
       /\ phys' = IF i = 0 THEN f ELSE phys
  /\ i' = i + 1
  /\ UNCHANGED <<page_directory, table, dma_next_virt, buffers, lfb, pages,
                 op, count, alignment, virt>>

\* Mutants: one page too many is rolled back; only the first one is.
RollBackTooMany ==
  /\ op = "alloc" /\ i < count /\ OutOfMemory
  /\ bitmap' = Freed(phys .. phys + i)
  /\ op' = "idle"
  /\ UNCHANGED <<page_directory, table, dma_next_virt, buffers, lfb, pages,
                 count, alignment, i, phys, virt>>

RollBackFirst ==
  /\ op = "alloc" /\ i < count /\ OutOfMemory
  /\ bitmap' = IF i = 0 THEN bitmap ELSE Freed({phys})
  /\ op' = "idle"
  /\ UNCHANGED <<page_directory, table, dma_next_virt, buffers, lfb, pages,
                 count, alignment, i, phys, virt>>

\* No frame is left: the pages already taken are rolled back.
RollBack ==
  /\ op = "alloc" /\ i < count /\ OutOfMemory
  /\ bitmap' = Freed(phys .. phys + i - 1)
  /\ op' = "idle"
  /\ UNCHANGED <<page_directory, table, dma_next_virt, buffers, lfb, pages,
                 count, alignment, i, phys, virt>>

\* The frame found does not continue the run.  The code frees i + 1 pages
\* counted from the first, so not the one just found, but the one after the run.
NotContiguous ==
  /\ op = "alloc" /\ 0 < i /\ i < count
  /\ \E f \in Frames :
       /\ LowestFree(f) /\ f # phys + i
       /\ bitmap' = [Freed(phys .. phys + i) EXCEPT ![f] = TRUE]
  /\ op' = "idle"
  /\ UNCHANGED <<page_directory, table, dma_next_virt, buffers, lfb, pages,
                 count, alignment, i, phys, virt>>

\* dma_next_virt rounded up to the alignment, a power of two.
Aligned == ((dma_next_virt + alignment - 1) \div alignment) * alignment

\* Mutant: the next buffer begins at the last page of this one.
PlaceShort ==
  /\ op = "alloc" /\ i = count
  /\ virt' = Aligned /\ dma_next_virt' = Aligned + count - 1
  /\ op' = "map" /\ i' = 0
  /\ UNCHANGED <<store, buffers, lfb, pages, count, alignment, phys>>

Place ==
  /\ op = "alloc" /\ i = count
  /\ virt' = Aligned /\ dma_next_virt' = Aligned + count
  /\ op' = "map" /\ i' = 0
  /\ UNCHANGED <<store, buffers, lfb, pages, count, alignment, phys>>

-----------------------------------------------------------------------------
(* map_physical_memory                                                     *)

\* vbe.cpp init maps the frame buffer, once.
MapLfb ==
  /\ op = "idle" /\ ~lfb
  /\ op' = "map" /\ count' = LFB_PAGES /\ i' = 0 /\ phys' = LFB_PHYS /\ virt' = LFB_VIRT
  /\ UNCHANGED <<store, dma_next_virt, buffers, lfb, pages, alignment>>

DirIndex(v) == v \div ENTRIES

EmptyTable == [e \in EntryIndex |-> NotPresent]

\* get_or_create_page_table.  Nothing checks for NULL: with no frame left, the
\* table is at address 0.
CreateTable ==
  /\ op = "map" /\ i < count /\ page_directory[DirIndex(virt + i)] = NotPresent
  /\ \E f \in Frames :
       /\ LowestFree(f) \/ (OutOfMemory /\ f = NONE)
       /\ bitmap' = [bitmap EXCEPT ![f] = TRUE]
       /\ table' = [table EXCEPT ![f] = EmptyTable]
       /\ page_directory' = [page_directory EXCEPT ![DirIndex(virt + i)] = f]
  /\ UNCHANGED <<dma_next_virt, buffers, lfb, pages, running>>

MapPage ==
  /\ op = "map" /\ i < count /\ page_directory[DirIndex(virt + i)] # NotPresent
  /\ table' = [table EXCEPT
                 ![page_directory[DirIndex(virt + i)]][(virt + i) % ENTRIES] = phys + i]
  /\ i' = i + 1
  /\ UNCHANGED <<bitmap, page_directory, dma_next_virt, buffers, lfb, pages,
                 op, count, alignment, phys, virt>>

\* A frame buffer is at LFB_VIRT, anything lower is a DMA buffer.
MapDone ==
  /\ op = "map" /\ i = count
  /\ IF virt = LFB_VIRT
       THEN lfb' = TRUE /\ UNCHANGED buffers
       ELSE /\ buffers' = buffers \cup {[phys |-> phys, virt |-> virt, pages |-> count]}
            /\ UNCHANGED lfb
  /\ op' = "idle"
  /\ UNCHANGED <<store, dma_next_virt, pages, count, alignment, i, phys, virt>>

-----------------------------------------------------------------------------
(* The single-page calls of allocator.h, which no code in the tree makes.  *)

AllocPhysPage ==
  /\ op = "idle"
  /\ \E f \in Frames :
       /\ LowestFree(f)
       /\ bitmap' = [bitmap EXCEPT ![f] = TRUE] /\ pages' = pages \cup {f}
  /\ UNCHANGED <<page_directory, table, dma_next_virt, buffers, lfb, running>>

FreePhysPage(f) ==
  /\ op = "idle"
  /\ bitmap' = Freed({f}) /\ pages' = pages \ {f}
  /\ UNCHANGED <<page_directory, table, dma_next_virt, buffers, lfb, running>>

-----------------------------------------------------------------------------

PhysNext ==
  \/ \E n \in Sizes, a \in Alignments : DmaAlloc(n, a)
  \/ AllocNext \/ RollBack \/ Place \/ MapLfb
  \/ CreateTable \/ MapPage \/ MapDone

\* The drivers' calls.  NotContiguous is left out because it is never enabled:
\* see FreeAbove.
PhysSpec == PhysInit /\ [][PhysNext]_physvars

\* With clients of the single-page calls, and all of alloc_phys_pages.
ApiSpec ==
  PhysInit /\ [][PhysNext \/ NotContiguous \/ AllocPhysPage
             \/ \E f \in pages : FreePhysPage(f)]_physvars

-----------------------------------------------------------------------------
(* Properties.                                                             *)

Entries == Nat \cup {NotPresent}

PhysTypeOK ==
  /\ bitmap \in [Frames -> BOOLEAN]
  /\ page_directory \in [Directory -> Frames \cup {NotPresent}]
  /\ table \in [Frames -> [EntryIndex -> Entries]]
  /\ dma_next_virt \in 0 .. LFB_VIRT
  /\ buffers \subseteq [phys : Frames, virt : Virtual, pages : Sizes]
  /\ lfb \in BOOLEAN /\ pages \subseteq Frames
  /\ op \in {"idle", "alloc", "map"} /\ alignment \in Alignments \cup {1}
  /\ count \in Sizes \cup {0, LFB_PAGES} /\ i \in 0 .. count /\ phys \in Nat
  /\ virt \in Virtual

Tables      == {page_directory[d] : d \in Directory} \ {NotPresent}
FramesOf(b) == b.phys .. b.phys + b.pages - 1

\* The frames of the running dma_alloc.
InFlight == CASE op = "alloc" -> phys .. phys + i - 1
              [] op = "map" /\ virt # LFB_VIRT -> phys .. phys + count - 1
              [] OTHER -> {}

\* A table had to be created when no frame was left.
TableAtNull == NONE \in Tables

\* No frame has two owners: the kernel and the memory nobody may use, each page
\* table, each DMA buffer, the call in progress, each single-page client.  And no
\* two directory entries share a table.
FramesHaveOneOwner ==
  LET reserved == Frames \ Usable
      owners   == {FramesOf(b) : b \in buffers} \cup {Tables, InFlight, pages}
  IN  ~TableAtNull =>
        /\ \A A \in owners : A \cap reserved = {}
        /\ \A A, B \in owners : A # B => A \cap B = {}
        /\ \A b, c \in buffers : b # c => FramesOf(b) # FramesOf(c)
        /\ \A d, e \in Directory :
             d # e /\ page_directory[d] # NotPresent => page_directory[d] # page_directory[e]

\* Between calls the bitmap holds exactly the frames that have an owner: a failed
\* dma_alloc rolls back all it took and nothing else, a successful one marks all
\* it returns.
BitmapIsOwnership ==
  op = "idle" =>
    {f \in Frames : bitmap[f]} =
      (Frames \ Usable) \cup (Tables \ {NONE}) \cup (UNION {FramesOf(b) : b \in buffers}) \cup pages

\* The free frames are the upper end of the usable region, so first fit finds
\* contiguous frames and the NotContiguous branch is never taken.
FreeAbove == \A f, g \in Frames : ~bitmap[f] /\ f < g /\ g \in Usable => ~bitmap[g]

\* Every frame is accounted for, and the driver's first fit keeps them in order:
\* both survive a dma_alloc that fails in the middle (allocator.cpp:74-92).
FramesAccountedFor == BitmapIsOwnership /\ FreeAbove

\* What virtual page v reads, as the processor translates it.
Translation(v) ==
  LET d == page_directory[DirIndex(v)]
  IN  IF d = NotPresent THEN NotPresent ELSE table[d][v % ENTRIES]

\* Every buffer stays mapped, page by page, to the frames it was given, and the
\* frame buffer to the device: no later call redirects or unmaps a page.
BuffersStayMapped ==
  ~TableAtNull =>
    /\ \A b \in buffers : \A j \in 0 .. b.pages - 1 : Translation(b.virt + j) = b.phys + j
    /\ lfb => \A j \in 0 .. LFB_PAGES - 1 : Translation(LFB_VIRT + j) = LFB_PHYS + j

-----------------------------------------------------------------------------
(* An inductive invariant, which implies FramesHaveOneOwner and            *)
(* BuffersStayMapped of the drivers' calls.                                *)

\* f may become nobody else's: it is in use, and no page table.
Taken(f) == f \in Usable /\ bitmap[f] /\ \A d \in Directory : page_directory[d] # f

TablesApart ==
  \A d \in Directory : page_directory[d] # NotPresent =>
    /\ page_directory[d] \in Usable /\ bitmap[page_directory[d]]
    /\ \A e \in Directory : page_directory[e] = page_directory[d] => e = d

BuffersApart ==
  \A b \in buffers :
    /\ \A f \in FramesOf(b) : Taken(f)
    /\ \A c \in buffers : b # c => FramesOf(b) \cap FramesOf(c) = {}

InFlightApart ==
  \A f \in InFlight : Taken(f) /\ \A b \in buffers : f \notin FramesOf(b)

\* The pages mapped by finished calls, and by the running one so far.
Mapped ==
  /\ \A b \in buffers : \A j \in 0 .. b.pages - 1 : Translation(b.virt + j) = b.phys + j
  /\ lfb => \A j \in 0 .. LFB_PAGES - 1 : Translation(LFB_VIRT + j) = LFB_PHYS + j
  /\ op = "map" => \A j \in 0 .. i - 1 : Translation(virt + j) = phys + j

\* Where calls place their pages.
Placed ==
  /\ pages = {}
  /\ \A b \in buffers : b.virt + b.pages <= dma_next_virt
  /\ op = "alloc" => /\ count \in Sizes /\ dma_next_virt + alignment + count <= LFB_VIRT
                     /\ i > 0 => phys \in Frames
  /\ op = "map" =>
       \/ virt = LFB_VIRT /\ phys = LFB_PHYS /\ count = LFB_PAGES /\ ~lfb
       \/ /\ virt + count <= dma_next_virt /\ count \in Sizes /\ phys \in Frames
          /\ \A b \in buffers : b.virt + b.pages <= virt

OwnershipInv ==
  /\ Placed
  /\ ~TableAtNull => /\ \A f \in Frames \ Usable : bitmap[f]
                     /\ TablesApart /\ BuffersApart /\ InFlightApart /\ Mapped

-----------------------------------------------------------------------------
(* The strengthening of FramesAccountedFor: it holds between the steps of  *)
(* a call too, and with a table at address 0.                              *)

\* The frames that have an owner, whatever the running call holds.
Owned ==
  (Frames \ Usable) \cup (Tables \ {NONE}) \cup (UNION {FramesOf(b) : b \in buffers}) \cup pages

\* What alloc_phys_pages has taken nobody else has; giving it back leaves the
\* free frames at the upper end, for nothing above the run is in use.
RunOnTop ==
  op = "alloc" =>
    /\ InFlight \cap Owned = {}
    /\ \A f \in InFlight, g \in Usable : f < g => g \in InFlight \/ ~bitmap[g]

AccountInv ==
  /\ {f \in Frames : bitmap[f]} = Owned \cup InFlight
  /\ FreeAbove
  /\ RunOnTop
=============================================================================
