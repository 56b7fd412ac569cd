-------------------------- MODULE PhysMemoryProofs --------------------------
(***************************************************************************)
(* Proofs about PhysMemory, for every size of memory, region, buffer and   *)
(* page table.                                                             *)
(***************************************************************************)
EXTENDS PhysMemory, TLAPS

\* A virtual page is determined by its directory index and its table entry.
LEMMA Addressing ==
  ASSUME NEW v \in Nat
  PROVE  /\ v \div ENTRIES \in Nat /\ v % ENTRIES \in EntryIndex
         /\ v = ENTRIES * (v \div ENTRIES) + (v % ENTRIES)
<1>1. ENTRIES \in Nat /\ ENTRIES > 0
  BY PhysMemoryAssumption
<1> QED
  BY <1>1, SMTT(30) DEF EntryIndex

LEMMA SplitUnique ==
  ASSUME NEW v \in Nat, NEW w \in Nat, v # w
  PROVE  v \div ENTRIES # w \div ENTRIES \/ v % ENTRIES # w % ENTRIES
BY Addressing

\* Rounding up to a multiple of the alignment moves by less than it.
LEMMA Rounding ==
  ASSUME NEW n \in Nat, NEW a \in Nat \ {0}
  PROVE  /\ ((n + a - 1) \div a) * a \in Nat
         /\ n <= ((n + a - 1) \div a) * a /\ ((n + a - 1) \div a) * a < n + a
<1> DEFINE m == n + a - 1
           q == m \div a
<1>1. m \in Nat /\ q \in Nat /\ m % a \in 0 .. a - 1 /\ m = a * q + (m % a)
  BY SMTT(30)
<1>2. q * a = a * q /\ a * q \in Nat
  BY <1>1
<1> HIDE DEF q
<1> QED
  BY <1>1, <1>2

LEMMA TypeInit == PhysInit => PhysTypeOK
<1> SUFFICES ASSUME PhysInit PROVE PhysTypeOK
  OBVIOUS
<1> USE PhysMemoryAssumption DEF PhysInit
<1>1. bitmap \in [Frames -> BOOLEAN]
  OBVIOUS
<1>2. page_directory \in [Directory -> Frames \cup {NotPresent}]
  OBVIOUS
<1>3. table \in [Frames -> [EntryIndex -> Entries]]
  BY DEF Entries
<1>4. 0 \in Virtual
  BY DEF Virtual
<1>5. /\ dma_next_virt \in 0 .. LFB_VIRT
      /\ buffers \subseteq [phys : Frames, virt : Virtual, pages : Sizes]
      /\ pages \subseteq Frames
  OBVIOUS
<1>6. /\ op \in {"idle", "alloc", "map"} /\ alignment \in Alignments \cup {1}
      /\ count \in Sizes \cup {0, LFB_PAGES} /\ i \in 0 .. count /\ phys \in Nat
  BY DEF NONE
<1>7. virt \in Virtual
  BY <1>4
<1>8. lfb \in BOOLEAN
  BY Zenon
<1> QED
  BY <1>1, <1>2, <1>3, <1>5, <1>6, <1>7, <1>8, Zenon DEF PhysTypeOK

\* Storing one entry in one table leaves tables, whatever the indexes.
LEMMA StoreEntry ==
  ASSUME NEW t \in [Frames -> [EntryIndex -> Entries]], NEW x, NEW y, NEW z \in Entries
  PROVE  [t EXCEPT ![x][y] = z] \in [Frames -> [EntryIndex -> Entries]]
<1>1. [t[x] EXCEPT ![y] = z] \in [EntryIndex -> Entries] \/ x \notin Frames
  OBVIOUS
<1> QED
  BY <1>1

LEMMA TypeStep == PhysTypeOK /\ Placed /\ [PhysNext]_physvars => PhysTypeOK'
<1> SUFFICES ASSUME PhysTypeOK, Placed, [PhysNext]_physvars
             PROVE  PhysTypeOK'
  OBVIOUS
<1> USE PhysMemoryAssumption
<1>1. ASSUME NEW n \in Sizes, NEW a \in Alignments, DmaAlloc(n, a)
      PROVE  PhysTypeOK'
  BY <1>1 DEF DmaAlloc, PhysTypeOK, store, NONE
<1>2. CASE AllocNext
  BY <1>2 DEF AllocNext, PhysTypeOK, Frames
<1>3. CASE RollBack
  BY <1>3 DEF RollBack, PhysTypeOK, Freed
<1>4. CASE Place
  <2>1. dma_next_virt \in Nat /\ alignment \in Nat \ {0}
    BY DEF PhysTypeOK
  <2>2. Aligned \in Nat /\ dma_next_virt <= Aligned /\ Aligned < dma_next_virt + alignment
    BY <2>1, Rounding DEF Aligned
  <2>3. count \in Nat /\ count > 0 /\ Aligned + count <= LFB_VIRT
    BY <2>1, <2>2, <1>4 DEF Place, Placed, PhysTypeOK
  <2> HIDE DEF Aligned
  <2> QED
    BY <1>4, <2>2, <2>3 DEF Place, PhysTypeOK, Virtual, store
<1>5. CASE MapLfb
  BY <1>5 DEF MapLfb, PhysTypeOK, Virtual, store
<1>6. CASE CreateTable
  <2>1. EmptyTable \in [EntryIndex -> Entries]
    BY DEF EmptyTable, Entries
  <2> DEFINE d == DirIndex(virt + i)
  <2>2. PICK f \in Frames :
          /\ bitmap' = [bitmap EXCEPT ![f] = TRUE]
          /\ table' = [table EXCEPT ![f] = EmptyTable]
          /\ page_directory' = [page_directory EXCEPT ![d] = f]
    BY <1>6 DEF CreateTable
  <2> HIDE DEF d
  <2>3. /\ bitmap' \in [Frames -> BOOLEAN]
        /\ table' \in [Frames -> [EntryIndex -> Entries]]
        /\ page_directory' \in [Directory -> Frames \cup {NotPresent}]
    BY <2>1, <2>2 DEF PhysTypeOK
  <2> QED
    BY <1>6, <2>3 DEF CreateTable, PhysTypeOK, running
<1>7. CASE MapPage
  <2>1. phys + i \in Entries /\ i' \in 0 .. count'
    BY <1>7 DEF MapPage, PhysTypeOK, Entries
  <2>2. table' \in [Frames -> [EntryIndex -> Entries]]
    BY <1>7, <2>1, StoreEntry DEF MapPage, PhysTypeOK
  <2> QED
    BY <1>7, <2>1, <2>2 DEF MapPage, PhysTypeOK
<1>8. CASE MapDone
  <2>1. CASE virt = LFB_VIRT
    BY <1>8, <2>1 DEF MapDone, PhysTypeOK, store
  <2>2. CASE virt # LFB_VIRT
    <3>1. [phys |-> phys, virt |-> virt, pages |-> count]
             \in [phys : Frames, virt : Virtual, pages : Sizes]
      BY <1>8, <2>2 DEF MapDone, Placed, PhysTypeOK
    <3> QED
      BY <1>8, <2>2, <3>1 DEF MapDone, PhysTypeOK, store
  <2> QED
    BY <2>1, <2>2
<1>9. CASE UNCHANGED physvars
  BY <1>9 DEF physvars, store, running, PhysTypeOK
<1> QED
  BY <1>1, <1>2, <1>3, <1>4, <1>5, <1>6, <1>7, <1>8, <1>9 DEF PhysNext

-----------------------------------------------------------------------------

LEMMA BufferType ==
  ASSUME PhysTypeOK, NEW b \in buffers
  PROVE  /\ b.phys \in Frames /\ b.virt \in Virtual /\ b.pages \in Sizes
         /\ b.phys \in Nat /\ b.virt \in Nat /\ b.pages \in Nat
<1>1. b.phys \in Frames /\ b.virt \in Virtual /\ b.pages \in Sizes
  BY DEF PhysTypeOK
<1>2. Frames \subseteq Nat /\ Virtual \subseteq Nat /\ Sizes \subseteq Nat
  BY PhysMemoryAssumption DEF Frames, Virtual
<1> QED
  BY <1>1, <1>2

LEMMA CallType ==
  ASSUME PhysTypeOK
  PROVE  virt \in Nat /\ count \in Nat /\ i \in Nat /\ i <= count
<1>1. Virtual \subseteq Nat /\ Sizes \subseteq Nat /\ LFB_PAGES \in Nat
  <2>1. Virtual \subseteq Nat
    BY PhysMemoryAssumption DEF Virtual
  <2>2. Sizes \subseteq Nat
    BY PhysMemoryAssumption
  <2> QED
    BY <2>1, <2>2, PhysMemoryAssumption
<1>2. virt \in Nat /\ count \in Nat
  BY <1>1 DEF PhysTypeOK
<1>3. i \in 0 .. count
  BY DEF PhysTypeOK
<1> QED
  BY <1>2, <1>3

LEMMA PlacedInit == PhysInit => Placed
BY DEF PhysInit, Placed

\* Buffers are laid out one after the other, and a call maps either past all of
\* them or in the frame buffer.
LEMMA PlacedStep == PhysTypeOK /\ Placed /\ [PhysNext]_physvars => Placed'
<1> SUFFICES ASSUME PhysTypeOK, Placed, [PhysNext]_physvars
             PROVE  Placed'
  OBVIOUS
<1> USE PhysMemoryAssumption
<1>1. ASSUME NEW n \in Sizes, NEW a \in Alignments, DmaAlloc(n, a)
      PROVE  Placed'
  BY <1>1 DEF DmaAlloc, Placed, PhysTypeOK
<1>2. CASE AllocNext
  BY <1>2 DEF AllocNext, Placed, PhysTypeOK, Frames
<1>3. CASE RollBack
  BY <1>3 DEF RollBack, Placed
<1>4. CASE Place
  <2>1. dma_next_virt \in Nat /\ alignment \in Nat \ {0} /\ count \in Sizes /\ i > 0
    BY <1>4 DEF PhysTypeOK, Place, Placed
  <2>2. Aligned \in Nat /\ dma_next_virt <= Aligned /\ Aligned < dma_next_virt + alignment
    BY <2>1, Rounding DEF Aligned
  <2>3. phys \in Frames
    BY <1>4, <2>1 DEF Place, Placed
  <2> HIDE DEF Aligned
  <2>4. \A b \in buffers' : b.virt + b.pages <= virt' /\ b.virt + b.pages <= dma_next_virt'
    <3> SUFFICES ASSUME NEW b \in buffers
                 PROVE  b.virt + b.pages <= Aligned /\ b.virt + b.pages <= Aligned + count
      BY <1>4 DEF Place
    <3>1. b.virt \in Nat /\ b.pages \in Nat
      BY BufferType
    <3>2. b.virt + b.pages <= dma_next_virt
      BY DEF Placed
    <3> QED
      BY <2>1, <2>2, <3>1, <3>2
  <2> QED
    BY <1>4, <2>1, <2>2, <2>3, <2>4 DEF Place, Placed
<1>5. CASE MapLfb
  BY <1>5 DEF MapLfb, Placed
<1>6. CASE CreateTable
  BY <1>6 DEF CreateTable, Placed, running
<1>7. CASE MapPage
  BY <1>7 DEF MapPage, Placed
<1>8. CASE MapDone
  BY <1>8 DEF MapDone, Placed
<1>9. CASE UNCHANGED physvars
  BY <1>9 DEF physvars, store, running, Placed
<1> QED
  BY <1>1, <1>2, <1>3, <1>4, <1>5, <1>6, <1>7, <1>8, <1>9 DEF PhysNext

\* Directory entries are only ever added.
LEMMA NullStays == PhysTypeOK /\ [PhysNext]_physvars /\ TableAtNull => TableAtNull'
<1> SUFFICES ASSUME PhysTypeOK, [PhysNext]_physvars, TableAtNull
             PROVE  TableAtNull'
  OBVIOUS
<1>1. PICK e \in Directory : page_directory[e] = NONE
  BY DEF TableAtNull, Tables
<1>2. NONE # NotPresent
  BY PhysMemoryAssumption DEF NONE
<1>3. page_directory'[e] = NONE
  <2>1. CASE CreateTable
    <3> DEFINE d == DirIndex(virt + i)
    <3>1. PICK f \in Frames : page_directory' = [page_directory EXCEPT ![d] = f]
      BY <2>1 DEF CreateTable
    <3>2. page_directory[d] = NotPresent
      BY <2>1 DEF CreateTable
    <3> QED
      BY <3>1, <3>2, <1>1, <1>2 DEF PhysTypeOK
  <2>2. CASE ~CreateTable
    BY <1>1, <2>2 DEF PhysNext, DmaAlloc, AllocNext, RollBack, Place, MapLfb, MapPage, MapDone,
                      store, physvars
  <2> QED
    BY <2>1, <2>2
<1> QED
  BY <1>1, <1>2, <1>3 DEF TableAtNull, Tables

-----------------------------------------------------------------------------

\* The part of OwnershipInv that holds while no table is at address 0.
Apart == /\ \A f \in Frames \ Usable : bitmap[f]
         /\ TablesApart /\ BuffersApart /\ InFlightApart /\ Mapped

LEMMA ApartInit == PhysInit => Apart
<1> SUFFICES ASSUME PhysInit PROVE Apart
  OBVIOUS
<1>1. \A f \in Frames \ Usable : bitmap[f]
  BY DEF PhysInit
<1>2. TablesApart
  BY DEF PhysInit, TablesApart
<1>3. BuffersApart /\ InFlightApart /\ Mapped
  BY DEF PhysInit, BuffersApart, InFlightApart, InFlight, Mapped
<1> QED
  BY <1>1, <1>2, <1>3 DEF Apart

\* A frame that is free belongs to nobody.
LEMMA FreeFrame ==
  ASSUME PhysTypeOK, Apart, NEW f \in Frames, ~bitmap[f]
  PROVE  /\ f \in Usable
         /\ \A d \in Directory : page_directory[d] # f
         /\ \A b \in buffers : f \notin FramesOf(b)
         /\ f \notin InFlight
<1>1. f \in Usable
  BY DEF Apart
<1>2. f \notin {NotPresent}
  BY PhysMemoryAssumption DEF Frames
<1>3. \A d \in Directory : page_directory[d] # f
  BY <1>2 DEF Apart, TablesApart
<1>4. \A b \in buffers : f \notin FramesOf(b)
  BY DEF Apart, BuffersApart, Taken
<1>5. f \notin InFlight
  BY DEF Apart, InFlightApart, Taken
<1> QED
  BY <1>1, <1>3, <1>4, <1>5

\* A step that touches neither the tables nor the buffers, and whose bitmap
\* keeps every frame of the tables, the buffers and the call, keeps Apart.
LEMMA BitmapStep ==
  ASSUME Apart,
         UNCHANGED <<page_directory, table, buffers, lfb>>,
         \A f \in Frames \ Usable : bitmap'[f],
         \A d \in Directory : page_directory[d] # NotPresent => bitmap'[page_directory[d]],
         \A b \in buffers : \A f \in FramesOf(b) : bitmap'[f],
         \A f \in InFlight' : /\ f \in Usable /\ bitmap'[f]
                              /\ \A d \in Directory : page_directory[d] # f
                              /\ \A b \in buffers : f \notin FramesOf(b),
         op' = "map" => \A j \in 0 .. i' - 1 : Translation(virt' + j) = phys' + j
  PROVE  Apart'
<1>1. TablesApart'
  BY DEF Apart, TablesApart
<1>2. \A f : Taken(f) /\ bitmap'[f] => Taken(f)'
  BY DEF Taken
<1>3. BuffersApart'
  BY <1>2 DEF Apart, BuffersApart, FramesOf
<1>4. InFlightApart'
  BY DEF InFlightApart, Taken, FramesOf
<1>5. \A v : Translation(v)' = Translation(v)
  BY DEF Translation
<1>6. \A j : Translation(virt + j)' = Translation(virt' + j)
  BY DEF Translation
<1>7. Mapped'
  BY <1>5, <1>6 DEF Apart, Mapped
<1> QED
  BY <1>1, <1>3, <1>4, <1>7 DEF Apart

LEMMA ApartStep == PhysTypeOK /\ Placed /\ Apart /\ [PhysNext]_physvars /\ ~TableAtNull' => Apart'
<1> SUFFICES ASSUME PhysTypeOK, Placed, Apart, [PhysNext]_physvars, ~TableAtNull'
             PROVE  Apart'
  OBVIOUS
<1> USE PhysMemoryAssumption
<1>0. /\ \A f \in Frames \ Usable : bitmap[f]
      /\ \A d \in Directory : page_directory[d] # NotPresent => bitmap[page_directory[d]]
      /\ \A b \in buffers : \A f \in FramesOf(b) : bitmap[f]
      /\ \A f \in InFlight : /\ f \in Usable /\ bitmap[f]
                             /\ \A d \in Directory : page_directory[d] # f
                             /\ \A b \in buffers : f \notin FramesOf(b)
      /\ \A d \in Directory : page_directory[d] # NotPresent => page_directory[d] \in Usable
      /\ \A b \in buffers : FramesOf(b) \subseteq Usable
  BY DEF Apart, TablesApart, BuffersApart, InFlightApart, Taken
<1>00. Usable \subseteq Frames
  BY DEF Usable, Frames
<1>1. ASSUME NEW n \in Sizes, NEW a \in Alignments, DmaAlloc(n, a)
      PROVE  Apart'
  <2>1. InFlight' = {} /\ op' # "map"
    BY <1>1 DEF DmaAlloc, InFlight, NONE
  <2> QED
    BY <1>0, <1>1, <2>1, BitmapStep DEF DmaAlloc, store
<1>2. CASE AllocNext
  <2>1. PICK f \in Frames : /\ ~bitmap[f]
                            /\ i = 0 \/ f = phys + i
                            /\ bitmap' = [bitmap EXCEPT ![f] = TRUE]
                            /\ phys' = IF i = 0 THEN f ELSE phys
    BY <1>2 DEF AllocNext, LowestFree
  <2>2. \A g \in Frames : bitmap[g] => bitmap'[g]
    BY <2>1 DEF PhysTypeOK
  <2>3. InFlight' = InFlight \cup {f}
    <3>1. InFlight' = phys' .. phys' + i /\ InFlight = phys .. phys + i - 1
      BY <1>2 DEF AllocNext, InFlight, PhysTypeOK
    <3>2. phys \in Nat /\ i \in Nat /\ f \in Nat
      BY DEF PhysTypeOK, Frames
    <3>3. CASE i = 0
      BY <2>1, <3>1, <3>2, <3>3
    <3>4. CASE i > 0
      BY <2>1, <3>1, <3>2, <3>4
    <3> QED
      BY <3>2, <3>3, <3>4
  <2>4. op' # "map" /\ UNCHANGED <<page_directory, table, buffers, lfb>>
    BY <1>2 DEF AllocNext
  <2>5. \A g \in InFlight' : /\ g \in Usable /\ bitmap'[g]
                             /\ \A d \in Directory : page_directory[d] # g
                             /\ \A b \in buffers : g \notin FramesOf(b)
    <3>1. bitmap'[f]
      BY <2>1 DEF PhysTypeOK
    <3>2. f \in Usable /\ \A d \in Directory : page_directory[d] # f
      BY <2>1, FreeFrame
    <3>3. \A b \in buffers : f \notin FramesOf(b)
      BY <2>1, FreeFrame
    <3> QED
      BY <1>0, <1>00, <2>2, <2>3, <3>1, <3>2, <3>3
  <2>6. \A d \in Directory : page_directory[d] # NotPresent => bitmap'[page_directory[d]]
    BY <1>0, <1>00, <2>2
  <2>7. \A b \in buffers : \A g \in FramesOf(b) : bitmap'[g]
    BY <1>0, <1>00, <2>2
  <2>8. \A g \in Frames \ Usable : bitmap'[g]
    BY <1>0, <2>2
  <2>9. op' = "map" => \A j \in 0 .. i' - 1 : Translation(virt' + j) = phys' + j
    BY <2>4
  <2>10. UNCHANGED <<page_directory, table, buffers, lfb>>
    BY <2>4
  <2> QED
    BY <2>5, <2>6, <2>7, <2>8, <2>9, <2>10, BitmapStep
<1>3. CASE RollBack
  <2>1. InFlight = phys .. phys + i - 1
    BY <1>3 DEF RollBack, InFlight
  <2>2. \A f \in Frames : bitmap[f] /\ f \notin InFlight => bitmap'[f]
    BY <1>3, <2>1 DEF RollBack, Freed
  <2>3. InFlight' = {} /\ op' # "map" /\ UNCHANGED <<page_directory, table, buffers, lfb>>
    BY <1>3 DEF RollBack, InFlight
  <2>4. \A f \in Frames \ Usable : bitmap'[f]
    BY <1>0, <2>2
  <2>5. \A d \in Directory : page_directory[d] # NotPresent => bitmap'[page_directory[d]]
    BY <1>0, <1>00, <2>2
  <2>6. \A b \in buffers : \A f \in FramesOf(b) : bitmap'[f]
    BY <1>0, <1>00, <2>2
  <2> QED
    BY <2>3, <2>4, <2>5, <2>6, BitmapStep
<1>4. CASE Place
  <2>1. count \in Nat /\ count > 0 /\ dma_next_virt \in Nat /\ alignment \in Nat \ {0}
    BY <1>4 DEF Place, Placed, PhysTypeOK
  <2>2. virt' + count <= LFB_VIRT
    <3>1. Aligned \in Nat /\ Aligned < dma_next_virt + alignment
      BY <2>1, Rounding DEF Aligned
    <3> HIDE DEF Aligned
    <3> QED
      BY <1>4, <2>1, <3>1 DEF Place, Placed
  <2>3. virt' # LFB_VIRT
    <3>1. virt' \in Nat
      BY TypeStep, <1>4 DEF PhysNext, PhysTypeOK, Virtual
    <3> QED
      BY <2>1, <2>2, <3>1
  <2>4. InFlight' = InFlight
    BY <1>4, <2>3 DEF Place, InFlight
  <2>5. \A j \in 0 .. i' - 1 : FALSE
    BY <1>4 DEF Place
  <2> QED
    BY <1>0, <1>4, <2>4, <2>5, BitmapStep DEF Place, store
<1>5. CASE MapLfb
  <2>1. InFlight' = {}
    BY <1>5 DEF MapLfb, InFlight
  <2>2. \A j \in 0 .. i' - 1 : FALSE
    BY <1>5 DEF MapLfb
  <2> QED
    BY <1>0, <1>5, <2>1, <2>2, BitmapStep DEF MapLfb, store
<1>6. CASE CreateTable
  <2> DEFINE d == DirIndex(virt + i)
  <2>1. PICK f \in Frames :
          /\ LowestFree(f) \/ (OutOfMemory /\ f = NONE)
          /\ bitmap' = [bitmap EXCEPT ![f] = TRUE]
          /\ table' = [table EXCEPT ![f] = EmptyTable]
          /\ page_directory' = [page_directory EXCEPT ![d] = f]
    BY <1>6 DEF CreateTable
  <2>2. d \in Directory /\ page_directory[d] = NotPresent
    <3>1. i \in Nat /\ i < count /\ virt \in Nat
      BY <1>6 DEF CreateTable, PhysTypeOK, Virtual
    <3>2. virt + i \in Virtual
      BY <1>6, <3>1 DEF CreateTable, Placed, PhysTypeOK, Virtual
    <3> QED
      BY <1>6, <3>2 DEF CreateTable, Directory, DirIndex
  <2> HIDE DEF d
  <2>3. f # NONE
    <3>1. page_directory'[d] = f
      BY <2>1, <2>2 DEF PhysTypeOK
    <3>2. NONE # NotPresent
      BY DEF NONE
    <3> QED
      BY <2>2, <3>1, <3>2 DEF TableAtNull, Tables
  <2>4. ~bitmap[f]
    BY <2>1, <2>3 DEF LowestFree
  <2>5. /\ f \in Usable /\ f # NotPresent
        /\ \A e \in Directory : page_directory[e] # f
        /\ \A b \in buffers : f \notin FramesOf(b)
        /\ f \notin InFlight
    BY <2>4, FreeFrame DEF Frames
  <2>6. \A g \in Frames : bitmap'[g] = (bitmap[g] \/ g = f)
    BY <2>1 DEF PhysTypeOK
  <2>7. \A e \in Directory : page_directory'[e] = IF e = d THEN f ELSE page_directory[e]
    BY <2>1, <2>2 DEF PhysTypeOK
  <2>8. TablesApart'
    <3> SUFFICES ASSUME NEW a \in Directory, page_directory'[a] # NotPresent
                 PROVE  /\ page_directory'[a] \in Usable /\ bitmap'[page_directory'[a]]
                        /\ \A e \in Directory : page_directory'[e] = page_directory'[a] => e = a
      BY DEF TablesApart
    <3>1. CASE a = d
      BY <1>00, <2>5, <2>6, <2>7, <3>1
    <3>2. CASE a # d
      <4>1. page_directory'[a] = page_directory[a] /\ page_directory[a] \in Usable
        BY <1>0, <2>7, <3>2
      <4>2. bitmap'[page_directory[a]]
        BY <1>0, <1>00, <2>6, <4>1
      <4>3. \A e \in Directory : page_directory'[e] = page_directory'[a] => e = a
        BY <2>5, <2>7, <4>1 DEF Apart, TablesApart
      <4> QED
        BY <4>1, <4>2, <4>3
    <3> QED
      BY <3>1, <3>2
  <2>9. \A g : Taken(g) /\ g # f => Taken(g)'
    <3> SUFFICES ASSUME NEW g, Taken(g), g # f
                 PROVE  g \in Usable /\ bitmap'[g] /\ \A e \in Directory : page_directory'[e] # g
      BY DEF Taken
    <3> QED
      BY <1>00, <2>6, <2>7 DEF Taken
  <2>10. BuffersApart'
    BY <1>6, <2>5, <2>9 DEF Apart, BuffersApart, CreateTable, FramesOf
  <2>11. InFlight' = InFlight
    BY <1>6 DEF CreateTable, InFlight, running
  <2>12. InFlightApart'
    BY <1>6, <2>5, <2>9, <2>11 DEF Apart, InFlightApart, CreateTable, FramesOf
  <2>13. \A v \in Virtual : Translation(v) # NotPresent => Translation(v)' = Translation(v)
    <3> SUFFICES ASSUME NEW v \in Virtual, Translation(v) # NotPresent
                 PROVE  Translation(v)' = Translation(v)
      OBVIOUS
    <3>1. DirIndex(v) \in Directory /\ page_directory[DirIndex(v)] # NotPresent
      BY DEF Translation, DirIndex, Directory
    <3>2. page_directory'[DirIndex(v)] = page_directory[DirIndex(v)]
      BY <2>2, <2>7, <3>1
    <3>3. table'[page_directory[DirIndex(v)]] = table[page_directory[DirIndex(v)]]
      BY <2>1, <2>5, <3>1 DEF PhysTypeOK
    <3> QED
      BY <3>1, <3>2, <3>3 DEF Translation
  <2>14. \A v : v \in Nat /\ v < dma_next_virt => v \in Virtual
    BY DEF PhysTypeOK, Virtual
  <2>15. \A b \in buffers : \A j \in 0 .. b.pages - 1 :
           Translation(b.virt + j)' = b.phys + j
    <3> SUFFICES ASSUME NEW b \in buffers, NEW j \in 0 .. b.pages - 1
                 PROVE  Translation(b.virt + j)' = b.phys + j
      OBVIOUS
    <3>1. b.virt + j \in Virtual
      BY <2>14, BufferType DEF Placed, PhysTypeOK
    <3>2. Translation(b.virt + j) = b.phys + j /\ b.phys + j # NotPresent
      BY BufferType DEF Apart, Mapped
    <3> QED
      BY <2>13, <3>1, <3>2
  <2>16. lfb => \A j \in 0 .. LFB_PAGES - 1 : Translation(LFB_VIRT + j)' = LFB_PHYS + j
    <3> SUFFICES ASSUME lfb, NEW j \in 0 .. LFB_PAGES - 1
                 PROVE  Translation(LFB_VIRT + j)' = LFB_PHYS + j
      OBVIOUS
    <3>1. LFB_VIRT + j \in Virtual
      BY DEF Virtual
    <3>2. Translation(LFB_VIRT + j) = LFB_PHYS + j /\ LFB_PHYS + j # NotPresent
      BY DEF Apart, Mapped
    <3> QED
      BY <2>13, <3>1, <3>2
  <2>17. \A j \in 0 .. i - 1 : Translation(virt + j)' = phys + j
    <3> SUFFICES ASSUME NEW j \in 0 .. i - 1
                 PROVE  Translation(virt + j)' = phys + j
      OBVIOUS
    <3>1. virt + j \in Virtual
      <4>1. virt \in Nat /\ count \in Nat /\ i \in Nat /\ i <= count /\ op = "map"
        BY <1>6, CallType DEF CreateTable
      <4>2. virt + count <= LFB_VIRT + LFB_PAGES
        <5>1. dma_next_virt \in Nat /\ dma_next_virt <= LFB_VIRT
          BY DEF PhysTypeOK
        <5>2. LFB_VIRT \in Nat /\ LFB_PAGES \in Nat
          OBVIOUS
        <5> QED
          BY <4>1, <5>1, <5>2 DEF Placed
      <4> QED
        BY <4>1, <4>2 DEF Virtual
    <3>2. Translation(virt + j) = phys + j /\ phys + j # NotPresent
      BY <1>6 DEF CreateTable, Apart, Mapped, PhysTypeOK
    <3> QED
      BY <1>6, <2>13, <3>1, <3>2 DEF CreateTable, running, Translation
  <2>18. Mapped'
    BY <1>6, <2>15, <2>16, <2>17 DEF CreateTable, Mapped, running
  <2> QED
    BY <1>0, <2>6, <2>8, <2>10, <2>12, <2>18 DEF Apart, Usable
<1>7. CASE MapPage
  <2> DEFINE d == DirIndex(virt + i)
             e == (virt + i) % ENTRIES
  <2>1. virt + i \in Virtual /\ virt + i \in Nat /\ virt \in Nat /\ i \in Nat
    BY <1>7 DEF MapPage, Placed, PhysTypeOK, Virtual
  <2>2. d \in Directory /\ page_directory[d] \in Frames /\ e \in EntryIndex
    BY <1>7, <2>1, Addressing DEF MapPage, Directory, DirIndex, PhysTypeOK
  <2>3. table' = [table EXCEPT ![page_directory[d]][e] = phys + i]
    BY <1>7 DEF MapPage
  <2>4. \A v : v = virt + i => Translation(v)' = phys + i
    <3>1. table'[page_directory[d]][e] = phys + i
      BY <2>2, <2>3 DEF PhysTypeOK
    <3>2. page_directory' = page_directory /\ page_directory[d] # NotPresent
      BY <1>7 DEF MapPage
    <3> QED
      BY <3>1, <3>2 DEF Translation
  <2>5. \A v \in Virtual : v # virt + i => Translation(v)' = Translation(v)
    <3> SUFFICES ASSUME NEW v \in Virtual, v # virt + i
                 PROVE  Translation(v)' = Translation(v)
      OBVIOUS
    <3>1. v \in Nat /\ DirIndex(v) \in Directory
      BY DEF Virtual, Directory, DirIndex
    <3>2. DirIndex(v) # d \/ v % ENTRIES # e
      BY <2>1, <3>1, SplitUnique DEF DirIndex
    <3>3. page_directory[DirIndex(v)] = page_directory[d] => DirIndex(v) = d
      BY <1>7, <2>2, <3>1 DEF MapPage, Apart, TablesApart
    <3>4. v % ENTRIES \in EntryIndex
      BY <3>1, Addressing
    <3> HIDE DEF d, e
    <3>5. CASE page_directory[DirIndex(v)] = NotPresent
      BY <1>7, <3>5 DEF MapPage, Translation
    <3>6. CASE page_directory[DirIndex(v)] # NotPresent
      <4>1. page_directory[DirIndex(v)] \in Frames
        BY <3>1, <3>6 DEF PhysTypeOK
      <4>2. table'[page_directory[DirIndex(v)]][v % ENTRIES]
              = table[page_directory[DirIndex(v)]][v % ENTRIES]
        <5>1. CASE page_directory[DirIndex(v)] # page_directory[d]
          BY <2>2, <2>3, <4>1, <5>1 DEF PhysTypeOK
        <5>2. CASE page_directory[DirIndex(v)] = page_directory[d]
          BY <2>2, <2>3, <3>2, <3>3, <3>4, <5>2 DEF PhysTypeOK
        <5> QED
          BY <5>1, <5>2
      <4> QED
        BY <1>7, <4>2 DEF MapPage, Translation
    <3> QED
      BY <3>5, <3>6
  <2> HIDE DEF d, e
  <2>6. \A b \in buffers : \A j \in 0 .. b.pages - 1 : Translation(b.virt + j)' = b.phys + j
    <3> SUFFICES ASSUME NEW b \in buffers, NEW j \in 0 .. b.pages - 1
                 PROVE  Translation(b.virt + j)' = b.phys + j
      OBVIOUS
    <3>1. b.virt + b.pages <= virt /\ b.virt + b.pages <= LFB_VIRT
      BY <1>7, BufferType DEF MapPage, Placed, PhysTypeOK
    <3>2. b.virt + j \in Virtual /\ b.virt + j # virt + i
      BY <2>1, <3>1, BufferType DEF Virtual
    <3>3. Translation(b.virt + j) = b.phys + j
      BY DEF Apart, Mapped
    <3> QED
      BY <2>5, <3>2, <3>3
  <2>7. lfb => \A j \in 0 .. LFB_PAGES - 1 : Translation(LFB_VIRT + j)' = LFB_PHYS + j
    <3> SUFFICES ASSUME lfb, NEW j \in 0 .. LFB_PAGES - 1
                 PROVE  Translation(LFB_VIRT + j)' = LFB_PHYS + j
      OBVIOUS
    <3>1. virt + i < LFB_VIRT
      BY <1>7, <2>1 DEF MapPage, Placed, PhysTypeOK
    <3>2. LFB_VIRT + j \in Virtual /\ LFB_VIRT + j # virt + i
      BY <2>1, <3>1 DEF Virtual
    <3> QED
      BY <2>5, <3>2 DEF Apart, Mapped
  <2>8. \A j \in 0 .. i' - 1 : Translation(virt + j)' = phys + j
    <3> SUFFICES ASSUME NEW j \in 0 .. i, j # i
                 PROVE  Translation(virt + j)' = phys + j
      <4>1. i' - 1 = i /\ virt' = virt
        BY <1>7, <2>1 DEF MapPage
      <4> QED
        BY <2>4, <4>1
    <3>1. virt + j \in Virtual /\ virt + j # virt + i
      BY <2>1 DEF Virtual
    <3> QED
      BY <1>7, <2>1, <2>5, <3>1 DEF MapPage, Apart, Mapped
  <2>9. Mapped'
    BY <1>7, <2>6, <2>7, <2>8 DEF MapPage, Mapped, Translation
  <2>10. InFlight' = InFlight
    BY <1>7 DEF MapPage, InFlight
  <2>11. (TablesApart /\ BuffersApart /\ InFlightApart)'
    BY <1>7, <2>10 DEF MapPage, Apart, TablesApart, BuffersApart, InFlightApart, Taken, FramesOf
  <2> QED
    BY <1>0, <1>7, <2>9, <2>11 DEF MapPage, Apart
<1>8. CASE MapDone
  <2>1. InFlight' = {} /\ op' # "map"
    BY <1>8 DEF MapDone, InFlight
  <2>2. \A v : Translation(v)' = Translation(v)
    BY <1>8 DEF MapDone, store, Translation
  <2>3. \A f : Taken(f)' = Taken(f)
    BY <1>8 DEF MapDone, store, Taken
  <2>4. TablesApart'
    BY <1>8 DEF MapDone, store, Apart, TablesApart
  <2>5. CASE virt = LFB_VIRT
    <3>1. lfb' => \A j \in 0 .. LFB_PAGES - 1 : Translation(LFB_VIRT + j)' = LFB_PHYS + j
      BY <1>8, <2>2, <2>5 DEF MapDone, Placed, Apart, Mapped, PhysTypeOK
    <3>2. buffers' = buffers
      BY <1>8, <2>5 DEF MapDone
    <3>3. Mapped'
      BY <2>1, <2>2, <3>1, <3>2 DEF Mapped, Apart
    <3>4. BuffersApart' /\ InFlightApart'
      BY <2>1, <2>3, <3>2 DEF Apart, BuffersApart, InFlightApart, FramesOf
    <3> QED
      BY <1>0, <1>8, <2>4, <3>3, <3>4 DEF MapDone, store, Apart
  <2>6. CASE virt # LFB_VIRT
    <3> DEFINE new == [phys |-> phys, virt |-> virt, pages |-> count]
    <3>1. buffers' = buffers \cup {new} /\ lfb' = lfb
      BY <1>8, <2>6 DEF MapDone
    <3>2. FramesOf(new) = InFlight /\ new.phys = phys /\ new.virt = virt /\ new.pages = count
      BY <1>8, <2>6 DEF MapDone, FramesOf, InFlight
    <3>3. \A j \in 0 .. count - 1 : Translation(virt + j) = phys + j
      BY <1>8 DEF MapDone, Apart, Mapped
    <3> HIDE DEF new
    <3>4. Mapped'
      BY <2>1, <2>2, <3>1, <3>2, <3>3 DEF Mapped, Apart
    <3>5. BuffersApart'
      <4>1. \A b \in buffers' : \A f \in FramesOf(b) : Taken(f)
        BY <3>1, <3>2 DEF Apart, BuffersApart, InFlightApart
      <4>2. \A b \in buffers : FramesOf(b) \cap FramesOf(new) = {}
        BY <3>2 DEF Apart, InFlightApart
      <4>3. \A b, c \in buffers' : b # c => FramesOf(b) \cap FramesOf(c) = {}
        BY <3>1, <4>2 DEF Apart, BuffersApart
      <4> QED
        BY <2>3, <4>1, <4>3 DEF BuffersApart, FramesOf
    <3>6. InFlightApart'
      BY <2>1 DEF InFlightApart
    <3> QED
      BY <1>0, <1>8, <2>4, <3>4, <3>5, <3>6 DEF MapDone, store, Apart
  <2> QED
    BY <2>5, <2>6
<1>9. CASE UNCHANGED physvars
  <2>1. InFlight' = InFlight
    BY <1>9 DEF physvars, running, InFlight
  <2>2. op' = "map" => \A j \in 0 .. i' - 1 : Translation(virt' + j) = phys' + j
    BY <1>9 DEF physvars, running, Apart, Mapped
  <2> QED
    BY <1>0, <1>9, <2>1, <2>2, BitmapStep DEF physvars, store
<1> QED
  BY <1>1, <1>2, <1>3, <1>4, <1>5, <1>6, <1>7, <1>8, <1>9 DEF PhysNext

-----------------------------------------------------------------------------

\* Type correctness and the inductive invariant of the drivers' calls.
THEOREM OwnershipInvariant == PhysSpec => [](PhysTypeOK /\ OwnershipInv)
<1>1. PhysInit => PhysTypeOK /\ OwnershipInv
  BY TypeInit, PlacedInit, ApartInit DEF OwnershipInv, Apart
<1>2. PhysTypeOK /\ OwnershipInv /\ [PhysNext]_physvars => (PhysTypeOK /\ OwnershipInv)'
  BY TypeStep, PlacedStep, ApartStep, NullStays DEF OwnershipInv, Apart
<1> QED
  BY <1>1, <1>2, PTL DEF PhysSpec

\* As long as every page table could be allocated, no frame has two owners
\* (alloc_phys_pages, get_or_create_page_table).
THEOREM OneOwner == PhysSpec => []FramesHaveOneOwner
<1>1. PhysTypeOK /\ OwnershipInv => FramesHaveOneOwner
  <2> SUFFICES ASSUME PhysTypeOK, Placed, Apart, ~TableAtNull
               PROVE  FramesHaveOneOwner
    BY DEF OwnershipInv, Apart, FramesHaveOneOwner
  <2> DEFINE reserved == Frames \ Usable
             owners == {FramesOf(b) : b \in buffers} \cup {Tables, InFlight, pages}
  <2>1. pages = {}
    BY DEF Placed
  <2>2. \A f \in Tables : f \in Usable /\ \A b \in buffers : f \notin FramesOf(b)
    BY DEF Apart, TablesApart, BuffersApart, Taken, Tables
  <2>3. \A f \in InFlight : f \in Usable /\ f \notin Tables /\ \A b \in buffers : f \notin FramesOf(b)
    BY DEF Apart, InFlightApart, Taken, Tables
  <2>4. \A b \in buffers : \A f \in FramesOf(b) : f \in Usable
    BY DEF Apart, BuffersApart, Taken
  <2>5. \A b, c \in buffers : b # c => FramesOf(b) \cap FramesOf(c) = {}
    BY DEF Apart, BuffersApart
  <2>6. \A b \in buffers : FramesOf(b) # {}
    <3> SUFFICES ASSUME NEW b \in buffers PROVE b.phys \in FramesOf(b)
      OBVIOUS
    <3> QED
      BY PhysMemoryAssumption, BufferType DEF FramesOf
  <2>7. \A A \in owners : A \cap reserved = {}
    BY <2>1, <2>2, <2>3, <2>4
  <2>8. \A A, B \in owners : A # B => A \cap B = {}
    BY <2>1, <2>2, <2>3, <2>5
  <2>9. \A d, e \in Directory :
          d # e /\ page_directory[d] # NotPresent => page_directory[d] # page_directory[e]
    BY DEF Apart, TablesApart
  <2> QED
    BY <2>5, <2>6, <2>7, <2>8, <2>9 DEF FramesHaveOneOwner
<1> QED
  BY <1>1, OwnershipInvariant, PTL

\* As long as every page table could be allocated, every DMA buffer and the frame
\* buffer stay mapped to their memory (map_physical_memory).
THEOREM BuffersKeepMapping == PhysSpec => []BuffersStayMapped
<1>1. OwnershipInv => BuffersStayMapped
  BY DEF OwnershipInv, Mapped, BuffersStayMapped
<1> QED
  BY <1>1, OwnershipInvariant, PTL

-----------------------------------------------------------------------------
(* The frame bitmap accounts for every frame, for every size of memory,    *)
(* region and buffer, running out of it included.                          *)

\* Between calls, and before the first page of one, a call holds no frame.
LEMMA NothingInFlight ==
  ASSUME PhysTypeOK, op = "idle" \/ (op = "alloc" /\ i = 0) \/ (op = "map" /\ virt = LFB_VIRT)
  PROVE  InFlight = {}
<1>1. phys \in Nat
  BY DEF PhysTypeOK
<1>2. phys .. phys + 0 - 1 = {}
  BY <1>1
<1> QED
  BY <1>2 DEF InFlight

LEMMA AccountInit == PhysInit => AccountInv
<1> SUFFICES ASSUME PhysInit PROVE AccountInv
  OBVIOUS
<1>1. InFlight = {}
  BY TypeInit, NothingInFlight DEF PhysInit
<1>2. Tables = {} /\ buffers = {} /\ pages = {}
  BY DEF PhysInit, Tables
<1>3. {f \in Frames : bitmap[f]} = Frames \ Usable
  BY DEF PhysInit
<1>4. Usable \subseteq Frames
  BY PhysMemoryAssumption DEF Usable, Frames
<1>5. FreeAbove
  BY <1>4 DEF PhysInit, FreeAbove
<1> QED
  BY <1>1, <1>2, <1>3, <1>5 DEF AccountInv, RunOnTop, Owned, PhysInit

\* The frame that first fit finds is usable, nobody's, and not frame 0; marking
\* it leaves the free frames at the upper end.
LEMMA MarkLowest ==
  ASSUME PhysTypeOK, AccountInv, NEW f \in Frames, LowestFree(f),
         bitmap' = [bitmap EXCEPT ![f] = TRUE]
  PROVE  /\ f \in Usable /\ f \notin Owned /\ f \notin InFlight /\ f # NONE
         /\ {g \in Frames : bitmap'[g]} = {g \in Frames : bitmap[g]} \cup {f}
         /\ FreeAbove'
         /\ \A g \in Usable : f < g => ~bitmap'[g]
<1>1. Frames \subseteq Nat /\ Usable \subseteq Frames
  BY PhysMemoryAssumption DEF Frames, Usable
<1>2. f \notin Owned /\ f \notin InFlight
  BY DEF AccountInv, LowestFree
<1>3. f \in Usable
  BY <1>2 DEF Owned
<1>4. f # NONE
  BY <1>3, PhysMemoryAssumption DEF Usable, NONE
<1>5. bitmap \in [Frames -> BOOLEAN]
  BY DEF PhysTypeOK
<1>6. \A g \in Frames : bitmap'[g] = (bitmap[g] \/ g = f)
  BY <1>5
<1>7. {g \in Frames : bitmap'[g]} = {g \in Frames : bitmap[g]} \cup {f}
  BY <1>6
<1>8. \A g \in Usable : f < g => ~bitmap'[g]
  <2> SUFFICES ASSUME NEW g \in Usable, f < g PROVE ~bitmap'[g]
    OBVIOUS
  <2>1. ~bitmap[g]
    BY <1>1 DEF AccountInv, FreeAbove, LowestFree
  <2> QED
    BY <1>1, <1>6, <2>1
<1>9. FreeAbove'
  <2> SUFFICES ASSUME NEW g \in Frames, NEW h \in Frames, ~bitmap'[g], g < h, h \in Usable
               PROVE  ~bitmap'[h]
    BY DEF FreeAbove, Frames, Usable
  <2>1. ~bitmap[g] /\ f <= g
    BY <1>1, <1>6 DEF LowestFree
  <2> QED
    BY <1>1, <1>8, <2>1
<1> QED
  BY <1>2, <1>3, <1>4, <1>7, <1>8, <1>9

\* Steps that leave the bitmap, the tables and the buffers.
LEMMA NothingMoves ==
  ASSUME AccountInv, UNCHANGED <<bitmap, page_directory, buffers, pages>>,
         InFlight' = InFlight, op' # "alloc" \/ op = "alloc"
  PROVE  AccountInv'
<1>1. Owned' = Owned
  BY DEF Owned, Tables, FramesOf
<1>2. FreeAbove'
  BY DEF AccountInv, FreeAbove
<1>3. RunOnTop'
  BY <1>1 DEF AccountInv, RunOnTop
<1> QED
  BY <1>1, <1>2, <1>3 DEF AccountInv

LEMMA AllocNextAccounts ==
  ASSUME PhysTypeOK, AccountInv, AllocNext
  PROVE  AccountInv'
<1>1. PICK f \in Frames :
        /\ LowestFree(f) /\ (i = 0 \/ f = phys + i)
        /\ bitmap' = [bitmap EXCEPT ![f] = TRUE]
        /\ phys' = IF i = 0 THEN f ELSE phys
  BY DEF AllocNext
<1>2. op = "alloc" /\ op' = "alloc" /\ i' = i + 1
      /\ UNCHANGED <<page_directory, buffers, pages>>
  BY DEF AllocNext
<1>3. /\ f \in Usable /\ f \notin Owned
      /\ {g \in Frames : bitmap'[g]} = {g \in Frames : bitmap[g]} \cup {f}
      /\ FreeAbove' /\ \A g \in Usable : f < g => ~bitmap'[g]
  BY <1>1, MarkLowest
<1>4. Owned' = Owned
  BY <1>2 DEF Owned, Tables, FramesOf
<1>5. InFlight' = InFlight \cup {f}
  <2>1. phys \in Nat /\ i \in Nat /\ f \in Nat
    BY CallType DEF PhysTypeOK, Frames
  <2>2. CASE i = 0
    <3>1. InFlight = {}
      BY <1>2, <2>2, NothingInFlight
    <3>2. InFlight' = f .. f
      BY <1>1, <1>2, <2>1, <2>2 DEF InFlight
    <3> QED
      BY <2>1, <3>1, <3>2
  <2>3. CASE i # 0
    <3>1. InFlight = phys .. phys + i - 1 /\ InFlight' = phys .. phys + i
      BY <1>1, <1>2, <2>1, <2>3 DEF InFlight
    <3> QED
      BY <1>1, <2>1, <2>3, <3>1
  <2> QED
    BY <2>2, <2>3
<1>6. {g \in Frames : bitmap'[g]} = Owned' \cup InFlight'
  BY <1>3, <1>4, <1>5 DEF AccountInv
<1>7. InFlight' \cap Owned' = {}
  BY <1>2, <1>3, <1>4, <1>5 DEF AccountInv, RunOnTop
<1>8. ASSUME NEW r \in InFlight', NEW g \in Usable, r < g
      PROVE  g \in InFlight' \/ ~bitmap'[g]
  <2>1. CASE r = f
    BY <1>3, <1>8, <2>1
  <2>2. CASE r \in InFlight
    <3>1. g \in InFlight \/ ~bitmap[g]
      BY <1>2, <1>8, <2>2 DEF AccountInv, RunOnTop
    <3>2. bitmap \in [Frames -> BOOLEAN] /\ g \in Frames
      BY PhysMemoryAssumption DEF PhysTypeOK, Usable, Frames
    <3> QED
      BY <1>1, <1>5, <3>1, <3>2
  <2> QED
    BY <1>5, <1>8, <2>1, <2>2
<1> QED
  BY <1>3, <1>6, <1>7, <1>8 DEF AccountInv, RunOnTop

\* What a failed dma_alloc gives back is what it took, and the upper end.
LEMMA RollBackAccounts ==
  ASSUME PhysTypeOK, AccountInv, RollBack
  PROVE  AccountInv'
<1>1. /\ op = "alloc" /\ op' = "idle" /\ OutOfMemory
      /\ bitmap' = Freed(phys .. phys + i - 1)
      /\ UNCHANGED <<page_directory, buffers, pages>>
  BY DEF RollBack
<1>2. InFlight = phys .. phys + i - 1 /\ InFlight' = {}
  BY <1>1 DEF InFlight
<1>3. \A g \in Frames : bitmap'[g] = (g \notin InFlight)
  <2>1. bitmap \in [Frames -> BOOLEAN]
    BY DEF PhysTypeOK
  <2> QED
    BY <1>1, <1>2, <2>1 DEF Freed, OutOfMemory
<1>4. Owned' = Owned
  BY <1>1 DEF Owned, Tables, FramesOf
<1>5. {g \in Frames : bitmap'[g]} = Owned'
  <2>1. Frames = Owned \cup InFlight
    BY <1>1 DEF AccountInv, OutOfMemory
  <2>2. InFlight \cap Owned = {}
    BY <1>1 DEF AccountInv, RunOnTop
  <2> QED
    BY <1>3, <1>4, <2>1, <2>2
<1>6. FreeAbove'
  <2> SUFFICES ASSUME NEW g \in Frames, NEW h \in Frames, ~bitmap'[g], g < h, h \in Usable
               PROVE  ~bitmap'[h]
    BY DEF FreeAbove
  <2>1. h \in InFlight \/ ~bitmap[h]
    BY <1>1, <1>3 DEF AccountInv, RunOnTop
  <2> QED
    BY <1>1, <1>3, <2>1 DEF OutOfMemory
<1> QED
  BY <1>1, <1>2, <1>5, <1>6 DEF AccountInv, RunOnTop

LEMMA CreateTableAccounts ==
  ASSUME PhysTypeOK, Placed, AccountInv, CreateTable
  PROVE  AccountInv'
<1> DEFINE d == DirIndex(virt + i)
<1>1. PICK f \in Frames :
        /\ LowestFree(f) \/ (OutOfMemory /\ f = NONE)
        /\ bitmap' = [bitmap EXCEPT ![f] = TRUE]
        /\ page_directory' = [page_directory EXCEPT ![d] = f]
  BY DEF CreateTable
<1>2. /\ op = "map" /\ op' = "map" /\ page_directory[d] = NotPresent
      /\ InFlight' = InFlight /\ UNCHANGED <<buffers, pages>>
  BY DEF CreateTable, running, InFlight
<1>3. d \in Directory
  <2>1. virt \in Nat /\ count \in Nat /\ i \in Nat /\ i < count
    BY CallType DEF CreateTable
  <2>2. virt + count <= LFB_VIRT + LFB_PAGES
    BY <1>2, <2>1, PhysMemoryAssumption DEF Placed, PhysTypeOK
  <2>3. virt + i \in Virtual
    BY <2>1, <2>2, PhysMemoryAssumption DEF Virtual
  <2> QED
    BY <2>3 DEF Directory, DirIndex
<1>4. Tables' = Tables \cup {f}
  <2>1. page_directory \in [Directory -> Frames \cup {NotPresent}] /\ NotPresent \notin Frames
    BY PhysMemoryAssumption DEF PhysTypeOK, Frames
  <2> HIDE DEF d
  <2> QED
    BY <1>1, <1>2, <1>3, <2>1 DEF Tables
<1>5. CASE LowestFree(f)
  <2>1. /\ f # NONE /\ FreeAbove'
        /\ {g \in Frames : bitmap'[g]} = {g \in Frames : bitmap[g]} \cup {f}
    BY <1>1, <1>5, MarkLowest
  <2>2. Owned' = Owned \cup {f}
    BY <1>2, <1>4, <2>1 DEF Owned, FramesOf
  <2> QED
    BY <1>2, <2>1, <2>2 DEF AccountInv, RunOnTop
<1>6. CASE OutOfMemory /\ f = NONE
  <2>1. bitmap' = bitmap
    <3>1. bitmap \in [Frames -> BOOLEAN] /\ bitmap[f] = TRUE
      BY <1>6 DEF OutOfMemory, PhysTypeOK
    <3> QED
      BY <1>1, <3>1
  <2>2. Owned' = Owned
    BY <1>2, <1>4, <1>6 DEF Owned, FramesOf
  <2> QED
    BY <1>2, <2>1, <2>2 DEF AccountInv, RunOnTop, FreeAbove
<1> QED
  BY <1>1, <1>5, <1>6

LEMMA MapDoneAccounts ==
  ASSUME PhysTypeOK, AccountInv, MapDone
  PROVE  AccountInv'
<1>1. op = "map" /\ op' = "idle" /\ InFlight' = {}
      /\ UNCHANGED <<bitmap, page_directory, pages>>
  BY DEF MapDone, store, InFlight
<1>2. Owned' = Owned \cup InFlight
  <2>1. CASE virt = LFB_VIRT
    <3>1. InFlight = {} /\ buffers' = buffers
      BY <1>1, <2>1, NothingInFlight DEF MapDone
    <3> QED
      BY <1>1, <3>1 DEF Owned, Tables, FramesOf
  <2>2. CASE virt # LFB_VIRT
    <3> DEFINE new == [phys |-> phys, virt |-> virt, pages |-> count]
    <3>1. buffers' = buffers \cup {new}
      BY <2>2 DEF MapDone
    <3>2. FramesOf(new) = InFlight
      BY <1>1, <2>2 DEF FramesOf, InFlight
    <3>3. UNION {FramesOf(b) : b \in buffers'} = (UNION {FramesOf(b) : b \in buffers}) \cup FramesOf(new)
      BY <3>1
    <3>4. Tables' = Tables
      BY <1>1 DEF Tables
    <3>5. Owned' = (Frames \ Usable) \cup (Tables' \ {NONE})
                     \cup (UNION {FramesOf(b) : b \in buffers'}) \cup pages'
      BY DEF Owned, FramesOf, Frames, Usable, NONE
    <3> QED
      BY <1>1, <3>2, <3>3, <3>4, <3>5 DEF Owned
  <2> QED
    BY <2>1, <2>2
<1> QED
  BY <1>1, <1>2 DEF AccountInv, RunOnTop, FreeAbove

LEMMA AccountStep == PhysTypeOK /\ Placed /\ AccountInv /\ [PhysNext]_physvars => AccountInv'
<1> SUFFICES ASSUME PhysTypeOK, Placed, AccountInv, [PhysNext]_physvars
             PROVE  AccountInv'
  OBVIOUS
<1>0. PhysTypeOK'
  BY TypeStep
<1>1. ASSUME NEW n \in Sizes, NEW a \in Alignments, DmaAlloc(n, a)
      PROVE  AccountInv'
  <2>1. InFlight = {}
    BY <1>1, NothingInFlight DEF DmaAlloc
  <2>2. InFlight' = {}
    BY <1>1 DEF DmaAlloc, InFlight, NONE
  <2>3. Owned' = Owned /\ UNCHANGED bitmap
    BY <1>1 DEF DmaAlloc, store, Owned, Tables, FramesOf
  <2> QED
    BY <2>1, <2>2, <2>3 DEF AccountInv, RunOnTop, FreeAbove
<1>2. CASE AllocNext
  BY <1>2, AllocNextAccounts
<1>3. CASE RollBack
  BY <1>3, RollBackAccounts
<1>4. CASE Place
  <2>1. virt' # LFB_VIRT
    <3>1. dma_next_virt \in Nat /\ alignment \in Nat \ {0} /\ count \in Nat /\ count > 0
      BY <1>4, PhysMemoryAssumption DEF PhysTypeOK, Place, Placed
    <3>2. Aligned < dma_next_virt + alignment /\ Aligned \in Nat
      BY <3>1, Rounding DEF Aligned
    <3>3. dma_next_virt + alignment + count <= LFB_VIRT
      BY <1>4 DEF Place, Placed
    <3>4. virt' = Aligned
      BY <1>4 DEF Place
    <3> HIDE DEF Aligned
    <3> QED
      BY <3>1, <3>2, <3>3, <3>4, PhysMemoryAssumption
  <2>2. InFlight' = InFlight
    BY <1>4, <2>1 DEF Place, InFlight
  <2> QED
    BY <1>4, <2>2, NothingMoves DEF Place, store
<1>5. CASE MapLfb
  <2>1. InFlight = {}
    BY <1>5, NothingInFlight DEF MapLfb
  <2>2. InFlight' = {}
    BY <1>5 DEF MapLfb, InFlight
  <2> QED
    BY <1>5, <2>1, <2>2, NothingMoves DEF MapLfb, store
<1>6. CASE CreateTable
  BY <1>6, CreateTableAccounts
<1>7. CASE MapPage
  <2>1. InFlight' = InFlight
    BY <1>7 DEF MapPage, InFlight
  <2> QED
    BY <1>7, <2>1, NothingMoves DEF MapPage
<1>8. CASE MapDone
  BY <1>8, MapDoneAccounts
<1>9. CASE UNCHANGED physvars
  <2>1. InFlight' = InFlight
    BY <1>9 DEF physvars, running, InFlight
  <2> QED
    BY <1>9, <2>1, NothingMoves DEF physvars, store, running
<1> QED
  BY <1>1, <1>2, <1>3, <1>4, <1>5, <1>6, <1>7, <1>8, <1>9 DEF PhysNext

-----------------------------------------------------------------------------

\* At every step of a call, not only between calls, the frames in use are those
\* with an owner and those the call has taken (dma_alloc, alloc_phys_pages).
THEOREM AccountInvariant == PhysSpec => []AccountInv
<1>1. PhysInit => AccountInv
  BY AccountInit
<1>2. OwnershipInv => Placed
  BY DEF OwnershipInv
<1>3. PhysTypeOK /\ Placed /\ AccountInv /\ [PhysNext]_physvars => AccountInv'
  BY AccountStep
<1> QED
  BY <1>1, <1>2, <1>3, OwnershipInvariant, PTL DEF PhysSpec

\* No frame is lost and none is in use without an owner, and the free frames stay
\* the upper end of the region, whichever dma_alloc failed and wherever
\* (allocator.cpp:74-92).
THEOREM FramesStayAccounted == PhysSpec => []FramesAccountedFor
<1>1. PhysTypeOK /\ AccountInv => FramesAccountedFor
  <2> SUFFICES ASSUME PhysTypeOK, AccountInv, op = "idle"
               PROVE  {f \in Frames : bitmap[f]} = Owned
    BY DEF FramesAccountedFor, BitmapIsOwnership, Owned, AccountInv
  <2>1. InFlight = {}
    BY NothingInFlight
  <2> QED
    BY <2>1 DEF AccountInv
<1> QED
  BY <1>1, AccountInvariant, OwnershipInvariant, PTL
=============================================================================
