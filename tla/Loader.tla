------------------------------- MODULE Loader -------------------------------
(***************************************************************************)
(* The boot loader (boot/loader/main.cpp, entry.asm): it reads KERNEL.BIN  *)
(* from the root directory of a FAT12 floppy, leaves a pointer to its      *)
(* read_file for the kernel and jumps; the kernel (p-kernel.cpp) then      *)
(* reads further files through that pointer.                               *)
(*                                                                         *)
(* Memory is cells that hold bytes <<"disk", lba, index>> of the disk.     *)
(* The buffers lie below the kernel as in main.cpp:5-14; the pointer's     *)
(* cell is the last one of the FAT buffer.  Two destinations of the        *)
(* kernel, at 0x90000 and 0x100000, lie below all of them.                 *)
(*                                                                         *)
(* An image is a FAT12 disk: fats copies of a FAT of fatsize sectors, the  *)
(* chains next, the root directory and spc sectors per cluster.  An entry  *)
(* of the directory fills ENTRY bytes; names are compared whole.           *)
(***************************************************************************)
EXTENDS Floppy

CONSTANTS
  MAX_FAT_SECTORS,
  ENTRY,    \* sizeof(fat_dir_t)
  ROOM,     \* bytes kept for each destination
  Images,   \* the floppies
  CALLS     \* the files the kernel reads: [name, dest]

RESERVED == 1   \* reserved_sector_count

LOW  == 0
HIGH == ROOM
FAT_BUFFER_ADDRESS    == 2 * ROOM
NAME_BUFFER_ADDRESS   == FAT_BUFFER_ADDRESS + SECTOR * MAX_FAT_SECTORS
READ_FUNCTION_ADDRESS == NAME_BUFFER_ADDRESS - 1
BOOT_SECTOR_LOCATION  == NAME_BUFFER_ADDRESS + SECTOR
KERNEL_LOCATION       == BOOT_SECTOR_LOCATION + SECTOR
POINTER_OF_ENTRY      == KERNEL_LOCATION - 2 * SECTOR - 1   \* the literal 0x3FFBF8
MemoryEnd             == KERNEL_LOCATION + ROOM

ASSUME LoaderAssumption ==
  /\ MAX_FAT_SECTORS \in Nat \ {0} /\ ENTRY \in 1 .. SECTOR /\ ROOM \in Nat
  /\ Address = 0 .. MemoryEnd - 1
  /\ \A d \in Images : d.fatsize \in Nat /\ \A i \in DOMAIN d.root : d.root[i].size \in Nat
  /\ CALLS \in Seq([name : STRING, dest : Nat])

VARIABLES
  pc, disk,                  \* where the loader is; the floppy
  call, name, dest,          \* which file is read, to where
  s, found, size,            \* loop index of the sectors; the entry found
  out, remaining, cluster, sec,
  ret,                       \* what read_file returned
  pushed                     \* what entry.asm pushed

found_entry == <<found, size>>
chain_vars  == <<out, remaining, cluster, sec>>
call_vars   == <<call, name, dest>>
loader_vars == <<pc, disk, call_vars, s, found_entry, chain_vars, ret, pushed>>
vars        == <<script, fdc, mem, loader_vars>>

-----------------------------------------------------------------------------
(* The disk.                                                               *)

root_start   == RESERVED + disk.fats * disk.fatsize
root_sectors == (Len(disk.root) * ENTRY + SECTOR - 1) \div SECTOR
data_start   == root_start + root_sectors

Next12(c) == IF c \in DOMAIN disk.next THEN disk.next[c] ELSE 0

\* Byte k of a FAT: two entries of 12 bits in every three bytes.
FatByte(k) ==
  LET even == Next12(2 * (k \div 3))
      odd  == Next12(2 * (k \div 3) + 1)
  IN CASE k % 3 = 0 -> even % 256
       [] k % 3 = 1 -> (even \div 256) + 16 * (odd % 16)
       [] k % 3 = 2 -> odd \div 16

\* What the byte in cell a says, where a holds a byte of the first FAT.
ByteAt(a) ==
  LET b == mem[a] IN
  IF b[1] = "disk" /\ b[2] \in RESERVED .. RESERVED + disk.fatsize - 1
  THEN FatByte((b[2] - RESERVED) * SECTOR + b[3]) ELSE 0

End == [kind |-> "end", name |-> "", cluster |-> 0, size |-> 0]

\* Entry i of the directory sector in the name buffer.
EntryInBuffer(i) ==
  LET b == mem[NAME_BUFFER_ADDRESS + i * ENTRY]
      n == (b[2] - root_start) * (SECTOR \div ENTRY) + (b[3] \div ENTRY) + 1
  IN IF b[1] = "disk" /\ n \in DOMAIN disk.root THEN disk.root[n] ELSE End

Entries == 0 .. (SECTOR \div ENTRY) - 1

-----------------------------------------------------------------------------
Init ==
  /\ FloppyInit
  /\ pc = "start" /\ disk \in Images
  /\ call = 0 /\ name = "KERNEL.BIN" /\ dest = KERNEL_LOCATION
  /\ s = 0 /\ found = FALSE /\ size = 0
  /\ out = 0 /\ remaining = 0 /\ cluster = 0 /\ sec = 0
  /\ ret = 0 /\ pushed = <<"old", 0, 0>>

\* A statement of the loader at p, which runs no earlier than the call before
\* it has returned.
At(p) == pc = p /\ script = <<>> /\ UNCHANGED <<fdc, disk>>

Calls(t) == script' = t /\ UNCHANGED mem
Quiet    == UNCHANGED <<script, mem>>

\* load_floppy: init_floppy().
Start ==
  /\ At("start") /\ Calls(init_floppy) /\ pc' = "boot"
  /\ UNCHANGED <<call_vars, s, found_entry, chain_vars, ret, pushed>>

BootSector ==
  /\ At("boot") /\ Calls(ReadSector(0, BOOT_SECTOR_LOCATION))
  /\ pc' = "list" /\ s' = 0
  /\ UNCHANGED <<call_vars, found_entry, chain_vars, ret, pushed>>

\* list_directories, its printing left out.
ListDirectory ==
  /\ At("list")
  /\ IF s < root_sectors
     THEN Calls(ReadSector(root_start + s, NAME_BUFFER_ADDRESS)) /\ pc' = "listed"
     ELSE Quiet /\ pc' = "open"
  /\ UNCHANGED <<call_vars, s, found_entry, chain_vars, ret, pushed>>

Listed ==
  /\ At("listed") /\ Quiet
  /\ IF \E i \in Entries : EntryInBuffer(i).kind = "end"
     THEN pc' = "open" /\ UNCHANGED s
     ELSE pc' = "list" /\ s' = s + 1
  /\ UNCHANGED <<call_vars, found_entry, chain_vars, ret, pushed>>

\* read_file is called.
Open ==
  /\ At("open") /\ Quiet
  /\ pc' = "root" /\ s' = 0 /\ found' = FALSE /\ size' = 0
  /\ UNCHANGED <<call_vars, chain_vars, ret, pushed>>

Return(n) == pc' = "returned" /\ ret' = n

RootSector ==
  /\ At("root")
  /\ IF s < root_sectors
     THEN /\ Calls(ReadSector(root_start + s, NAME_BUFFER_ADDRESS))
          /\ pc' = "scan" /\ UNCHANGED ret
     ELSE Quiet /\ Return(0)   \* "File not found"
  /\ UNCHANGED <<call_vars, s, found_entry, chain_vars, pushed>>

Matches(e) == e.kind = "file" /\ e.name = name

\* The first entry that ends the scan of this sector.
StopsAt(i) == EntryInBuffer(i).kind = "end" \/ Matches(EntryInBuffer(i))
First(i)   == StopsAt(i) /\ \A j \in Entries : StopsAt(j) => i <= j

Scan ==
  /\ At("scan") /\ Quiet
  /\ \/ /\ \A i \in Entries : ~StopsAt(i)
        /\ pc' = "root" /\ s' = s + 1
        /\ UNCHANGED <<found_entry, chain_vars, ret>>
     \/ \E i \in Entries : LET e == EntryInBuffer(i) IN
          /\ First(i) /\ e.kind = "end" /\ Return(0)
          /\ UNCHANGED <<s, found_entry, chain_vars>>
     \/ \E i \in Entries : LET e == EntryInBuffer(i) IN
          /\ First(i) /\ e.kind # "end"
          /\ found' = TRUE /\ size' = e.size
          /\ s' = 0
          /\ out' = dest /\ remaining' = e.size /\ cluster' = e.cluster /\ sec' = 0
          /\ IF e.size = 0 \/ disk.fatsize > MAX_FAT_SECTORS THEN Return(0)
             ELSE pc' = "fat" /\ UNCHANGED ret
  /\ UNCHANGED <<call_vars, pushed>>

FatSector ==
  /\ At("fat")
  /\ IF s < disk.fatsize
     THEN /\ Calls(ReadSector(RESERVED + s, FAT_BUFFER_ADDRESS + s * SECTOR))
          /\ s' = s + 1 /\ UNCHANGED pc
     ELSE Quiet /\ pc' = "chain" /\ UNCHANGED s
  /\ UNCHANGED <<call_vars, found_entry, chain_vars, ret, pushed>>

\* while (cluster >= 2 && cluster < 0xFF8 && remaining > 0)
Chain ==
  /\ At("chain") /\ Quiet
  /\ IF cluster \in 2 .. 4087 /\ remaining > 0
     THEN pc' = "sector" /\ sec' = 0 /\ UNCHANGED ret
     ELSE Return(size - remaining) /\ UNCHANGED sec
  /\ UNCHANGED <<call_vars, s, found_entry, out, remaining, cluster, pushed>>

\* Mutant: all entries taken for even ones.
fat12_next_even(c) ==
  LET at    == FAT_BUFFER_ADDRESS + c + (c \div 2)
      value == ByteAt(at) + 256 * ByteAt(at + 1)
  IN value % 4096

fat12_next_cluster(c) ==
  LET at    == FAT_BUFFER_ADDRESS + c + (c \div 2)
      value == ByteAt(at) + 256 * ByteAt(at + 1)
  IN IF c % 2 = 1 THEN value \div 16 ELSE value % 4096

Lba == data_start + (cluster - 2) * disk.spc + sec

\* Mutant: reads the last, partial sector to its destination as well.
WholeSectorAlways ==
  /\ At("sector") /\ sec < disk.spc /\ remaining > 0
  /\ Calls(ReadSector(Lba, out))
  /\ out' = out + SECTOR
  /\ remaining' = IF remaining >= SECTOR THEN remaining - SECTOR ELSE 0
  /\ sec' = sec + 1
  /\ UNCHANGED <<pc, call_vars, s, found_entry, cluster, ret, pushed>>

WholeSector ==
  /\ At("sector") /\ sec < disk.spc /\ remaining >= SECTOR
  /\ Calls(ReadSector(Lba, out))
  /\ out' = out + SECTOR /\ remaining' = remaining - SECTOR /\ sec' = sec + 1
  /\ UNCHANGED <<pc, call_vars, s, found_entry, cluster, ret, pushed>>

PartialSector ==
  /\ At("sector") /\ sec < disk.spc /\ remaining \in 1 .. SECTOR - 1
  /\ Calls(ReadSector(Lba, NAME_BUFFER_ADDRESS))
  /\ pc' = "partial"
  /\ UNCHANGED <<call_vars, s, found_entry, chain_vars, ret, pushed>>

CopyPartial ==
  /\ At("partial") /\ UNCHANGED script
  /\ mem' = [a \in Address |-> IF a \in out .. out + remaining - 1
                               THEN mem[NAME_BUFFER_ADDRESS + (a - out)] ELSE mem[a]]
  /\ out' = out + remaining /\ remaining' = 0 /\ sec' = sec + 1
  /\ pc' = "sector"
  /\ UNCHANGED <<call_vars, s, found_entry, cluster, ret, pushed>>

\* The cluster is read: break, or on along the chain.
NextCluster ==
  /\ At("sector") /\ Quiet
  /\ sec = disk.spc \/ remaining = 0
  /\ IF remaining = 0 THEN Return(size) /\ UNCHANGED cluster
     ELSE pc' = "chain" /\ cluster' = fat12_next_cluster(cluster) /\ UNCHANGED ret
  /\ UNCHANGED <<call_vars, s, found_entry, out, remaining, sec, pushed>>

-----------------------------------------------------------------------------
(* Into the kernel.                                                        *)

Pointer == <<"read_file", 0, 0>>

\* Mutant: stores it in another place than entry.asm reads.
HandOverMoved ==
  /\ At("returned") /\ call = 0 /\ UNCHANGED script
  /\ mem' = [mem EXCEPT ![READ_FUNCTION_ADDRESS - 1] = Pointer]
  /\ pc' = "jump"
  /\ UNCHANGED <<call_vars, s, found_entry, chain_vars, ret, pushed>>

\* Whatever read_file returned, the pointer is stored.
HandOver ==
  /\ At("returned") /\ call = 0 /\ UNCHANGED script
  /\ mem' = [mem EXCEPT ![READ_FUNCTION_ADDRESS] = Pointer]
  /\ pc' = "jump"
  /\ UNCHANGED <<call_vars, s, found_entry, chain_vars, ret, pushed>>

\* The bytes of the file read, in the image: its chain followed without a FAT.
FileEntry(n) ==
  LET at == {i \in DOMAIN disk.root :
               /\ disk.root[i].kind = "file" /\ disk.root[i].name = n
               /\ \A j \in 1 .. i - 1 : disk.root[j].kind # "end"}
  IN IF at = {} THEN End ELSE disk.root[CHOOSE i \in at : \A j \in at : i <= j]

\* The k-th cluster of the chain that begins at c, 0 behind its end.
Link(c, k) ==
  LET link[i \in 0 .. k] ==
        IF i = 0 THEN c
        ELSE IF link[i - 1] \in DOMAIN disk.next THEN disk.next[link[i - 1]] ELSE 0
  IN IF link[k] \in DOMAIN disk.next THEN link[k] ELSE 0

FileByte(e, i) ==
  LET sector == i \div SECTOR
  IN <<"disk", data_start + (Link(e.cluster, sector \div disk.spc) - 2) * disk.spc
                 + (sector % disk.spc), i % SECTOR>>

\* How much of the file its chain holds.
Readable(e) ==
  IF disk.fatsize > MAX_FAT_SECTORS THEN {}
  ELSE {i \in 0 .. e.size - 1 : Link(e.cluster, i \div (SECTOR * disk.spc)) # 0}

Loaded(e, to, n) ==
  /\ Readable(e) = 0 .. n - 1
  /\ \A i \in 0 .. n - 1 : mem[to + i] = FileByte(e, i)

\* push dword [0x3FFBF8]; jmp KERNEL_LOCATION.  What is not the kernel does
\* not run as one.
Jump ==
  /\ At("jump") /\ Quiet
  /\ pushed' = mem[POINTER_OF_ENTRY]
  /\ pc' = IF ret > 0 /\ ret = FileEntry(name).size THEN "kernel" ELSE "lost"
  /\ UNCHANGED <<call_vars, s, found_entry, chain_vars, ret>>

\* The kernel's next load_floppy.
LoadFloppy ==
  /\ At("kernel") /\ Quiet
  /\ IF call < Len(CALLS)
     THEN /\ call' = call + 1 /\ name' = CALLS[call + 1].name
          /\ dest' = CALLS[call + 1].dest /\ pc' = "open"
     ELSE pc' = "done" /\ UNCHANGED call_vars
  /\ UNCHANGED <<s, found_entry, chain_vars, ret, pushed>>

KernelGoesOn ==
  /\ At("returned") /\ call > 0 /\ Quiet /\ pc' = "kernel"
  /\ UNCHANGED <<call_vars, s, found_entry, chain_vars, ret, pushed>>

Next ==
  \/ Transfer /\ UNCHANGED loader_vars
  \/ Start \/ BootSector \/ ListDirectory \/ Listed
  \/ Open \/ RootSector \/ Scan \/ FatSector \/ Chain
  \/ WholeSector \/ PartialSector \/ CopyPartial \/ NextCluster
  \/ HandOver \/ Jump \/ LoadFloppy \/ KernelGoesOn

Spec == Init /\ [][Next]_vars /\ WF_vars(Next)

-----------------------------------------------------------------------------
\* read_file returns the number of bytes of the file that its chain holds, and
\* they are all at the destination, in order, through the driver, the packing
\* of the FAT and the chain: a missing file, an empty one and a FAT that is too
\* large give 0, a chain that ends early less than the size, and one that runs
\* in a circle the size (main.cpp:91-243).
LoadsFile == pc = "returned" => Loaded(FileEntry(name), dest, ret)

\* A call writes the loader's own buffers and the bytes of its file, not one byte
\* behind them.
WritesOnlyItsFile ==
  [][\A a \in Address : mem'[a] # mem[a] =>
       \/ a \in FAT_BUFFER_ADDRESS .. BOOT_SECTOR_LOCATION - 1
       \/ a \in BOOT_SECTOR_LOCATION .. KERNEL_LOCATION - 1 /\ call = 0 /\ ~found
       \/ found /\ a \in dest .. dest + size - 1]_vars

\* The kernel is given read_file although the pointer lies in the FAT's buffer
\* (main.cpp:9-14).
KernelGetsPointer == pc = "kernel" => pushed = Pointer

\* Every call returns, along a chain that runs in a circle too.
LoadEnds == <>(pc \in {"done", "lost"})
=============================================================================
