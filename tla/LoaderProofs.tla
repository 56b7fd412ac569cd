---------------------------- MODULE LoaderProofs ----------------------------
(***************************************************************************)
(* Proofs about Loader for every floppy, any geometry and sector size, any *)
(* size of the FAT's buffer and any files that the kernel reads.           *)
(***************************************************************************)
EXTENDS Loader, TLAPS

Start4  == {"start", "boot", "list", "listed"}
Reading == {"fat", "chain", "sector", "partial"}

\* A sequence, whatever it holds.
IsSeq(q) == \E S : q \in Seq(S)

\* What read_file computes with has its type.
Typed ==
  /\ disk \in Images /\ call \in 0 .. Len(CALLS)
  /\ dest \in Nat /\ size \in Nat /\ out \in Nat /\ remaining \in Nat /\ s \in Nat
  /\ mem = [a \in Address |-> mem[a]] /\ IsSeq(script)

\* Where a sector may be read to: into the buffers, while the file is loaded
\* into what is left of it, and the boot sector once.
Aimed(b) ==
  /\ b \in Nat
  /\ \/ FAT_BUFFER_ADDRESS <= b /\ b + SECTOR <= BOOT_SECTOR_LOCATION
     \/ b = BOOT_SECTOR_LOCATION /\ call = 0 /\ ~found
     \/ found /\ dest <= b /\ b + SECTOR <= dest + size

\* The transfers left of the driver's call are.
ScriptAimed == \A i \in 1 .. Len(script) : script[i].op = "data" => Aimed(script[i].v)

\* While a file is read, what is read and what remains make up the file, and
\* its FAT fits the buffer.
InStep ==
  /\ pc \in Start4 => call = 0 /\ ~found
  /\ pc \in Reading => found /\ dest <= out /\ out + remaining = dest + size
  /\ pc = "fat" => disk.fatsize <= MAX_FAT_SECTORS

\* No transfer is left when the pointer is stored, and nothing is read before it
\* is pushed; the kernel's own files come behind that.
PointerKept ==
  /\ pc = "jump" => script = <<>> /\ mem[READ_FUNCTION_ADDRESS] = Pointer
  /\ pc = "kernel" \/ call > 0 => pushed = Pointer

LoaderInv == Typed /\ ScriptAimed /\ InStep /\ PointerKept

\* The cells a call may write.
ItsFile(a) ==
  \/ a \in FAT_BUFFER_ADDRESS .. BOOT_SECTOR_LOCATION - 1
  \/ a \in BOOT_SECTOR_LOCATION .. KERNEL_LOCATION - 1 /\ call = 0 /\ ~found
  \/ found /\ a \in dest .. dest + size - 1

WritesItsFile == \A a \in Address : mem'[a] # mem[a] => ItsFile(a)

-----------------------------------------------------------------------------
(* The layout of the memory.                                               *)

LEMMA Layout ==
  /\ SECTOR \in Nat \ {0} /\ FAT_BUFFER_ADDRESS \in Nat
  /\ NAME_BUFFER_ADDRESS \in Nat /\ FAT_BUFFER_ADDRESS < NAME_BUFFER_ADDRESS
  /\ BOOT_SECTOR_LOCATION = NAME_BUFFER_ADDRESS + SECTOR
  /\ KERNEL_LOCATION = BOOT_SECTOR_LOCATION + SECTOR /\ KERNEL_LOCATION \in Nat
  /\ POINTER_OF_ENTRY = READ_FUNCTION_ADDRESS
  /\ READ_FUNCTION_ADDRESS \in Address
  /\ READ_FUNCTION_ADDRESS = NAME_BUFFER_ADDRESS - 1
<1>1. SECTOR \in Nat \ {0} /\ MAX_FAT_SECTORS \in Nat \ {0} /\ ROOM \in Nat
      /\ Address = 0 .. MemoryEnd - 1
  BY FloppyAssumption, LoaderAssumption
<1> DEFINE fats == SECTOR * MAX_FAT_SECTORS
<1>2. fats \in Nat /\ fats > 0
  BY <1>1
<1>3. NAME_BUFFER_ADDRESS = FAT_BUFFER_ADDRESS + fats
  BY DEF NAME_BUFFER_ADDRESS
<1> HIDE DEF fats
<1>4. QED
  BY <1>1, <1>2, <1>3 DEF FAT_BUFFER_ADDRESS, BOOT_SECTOR_LOCATION, KERNEL_LOCATION,
     POINTER_OF_ENTRY, READ_FUNCTION_ADDRESS, MemoryEnd

\* Sector i of a FAT that fits the buffer is read into the buffer.
LEMMA FatFits ==
  ASSUME NEW i \in Nat, i < MAX_FAT_SECTORS
  PROVE  /\ i * SECTOR \in Nat
         /\ FAT_BUFFER_ADDRESS + i * SECTOR + SECTOR <= NAME_BUFFER_ADDRESS
<1>1. SECTOR \in Nat /\ MAX_FAT_SECTORS \in Nat /\ FAT_BUFFER_ADDRESS \in Nat
  BY FloppyAssumption, LoaderAssumption, Layout
<1>2. \A x, y, z \in Nat : x < y => x * z \in Nat /\ x * z + z <= z * y
  <2>1. TAKE x \in Nat, y \in Nat, z \in Nat
  <2>2. HAVE x < y
  <2>3. PICK w \in Nat : y = x + 1 + w
    <3>1. y = x + 1 + (y - x - 1) /\ y - x - 1 \in Nat
      BY <2>2
    <3>2. QED
      BY <3>1
  <2>4. z * y = x * z + z + z * w /\ z * w \in Nat /\ x * z \in Nat
    BY <2>3
  <2>5. QED
    BY <2>4
<1>3. i * SECTOR \in Nat /\ i * SECTOR + SECTOR <= SECTOR * MAX_FAT_SECTORS
  BY <1>1, <1>2
<1> DEFINE a == i * SECTOR
           b == SECTOR * MAX_FAT_SECTORS
<1>4. b \in Nat
  BY <1>1
<1>5. NAME_BUFFER_ADDRESS = FAT_BUFFER_ADDRESS + b
  BY DEF NAME_BUFFER_ADDRESS
<1> HIDE DEF a, b
<1>6. FAT_BUFFER_ADDRESS + a + SECTOR <= NAME_BUFFER_ADDRESS
  BY <1>1, <1>3, <1>4, <1>5 DEF a, b
<1>7. QED
  BY <1>3, <1>6 DEF a

-----------------------------------------------------------------------------
(* Scripts.                                                                *)

\* The data of the transfers of q goes to b.
OnlyTo(q, b) == IsSeq(q) /\ \A i \in 1 .. Len(q) : q[i].op = "data" => q[i].v = b

LEMMA OnlyToConcat ==
  ASSUME NEW b, NEW q, NEW r, OnlyTo(q, b), OnlyTo(r, b)
  PROVE  OnlyTo(q \o r, b)
<1>1. PICK Q : q \in Seq(Q)
  BY DEF OnlyTo, IsSeq
<1>2. PICK R : r \in Seq(R)
  BY DEF OnlyTo, IsSeq
<1> DEFINE S == Q \cup R
<1>3. q \in Seq(S) /\ r \in Seq(S)
  BY <1>1, <1>2
<1> HIDE DEF S
<1>4. /\ q \o r \in Seq(S)
      /\ \A i \in 1 .. Len(q \o r) : \/ i \in 1 .. Len(q) /\ (q \o r)[i] = q[i]
                                     \/ i - Len(q) \in 1 .. Len(r) /\ (q \o r)[i] = r[i - Len(q)]
  BY <1>3
<1>5. QED
  BY <1>4 DEF OnlyTo, IsSeq

LEMMA Ops ==
  /\ \A v : Out(v).op # "data"
  /\ In.op # "data" /\ Reset.op # "data"
  /\ \A b : Data(b).v = b
BY DEF Out, In, Reset, Data

\* Commands of one to three bytes, and the fetches behind them.
LEMMA Commands ==
  ASSUME NEW b, NEW v1, NEW v2, NEW v3
  PROVE  /\ OnlyTo(<<Out(v1), In>>, b) /\ OnlyTo(<<Out(v1), In, In>>, b)
         /\ OnlyTo(<<Out(v1)>>, b) /\ OnlyTo(<<Out(v1), Out(v2)>>, b)
         /\ OnlyTo(<<Out(v1), Out(v2), Out(v3)>>, b) /\ OnlyTo(<<Reset>>, b)
<1>1. ASSUME NEW t1, NEW t2, NEW t3, t1.op # "data", t2.op # "data", t3.op # "data"
      PROVE  OnlyTo(<<t1>>, b) /\ OnlyTo(<<t1, t2>>, b) /\ OnlyTo(<<t1, t2, t3>>, b)
  <2> DEFINE S == {t1, t2, t3}
  <2>1. <<t1>> \in Seq(S) /\ <<t1, t2>> \in Seq(S) /\ <<t1, t2, t3>> \in Seq(S)
    OBVIOUS
  <2>2. IsSeq(<<t1>>) /\ IsSeq(<<t1, t2>>) /\ IsSeq(<<t1, t2, t3>>)
    BY <2>1 DEF IsSeq
  <2>3. QED
    BY <1>1, <2>2 DEF OnlyTo
<1> DEFINE o1 == Out(v1)
           o2 == Out(v2)
           o3 == Out(v3)
           i  == In
           r  == Reset
<1>2. /\ o1.op # "data" /\ o2.op # "data" /\ o3.op # "data"
      /\ i.op # "data" /\ r.op # "data"
  BY Ops
<1> HIDE DEF o1, o2, o3, i, r
<1>3. OnlyTo(<<o1, i>>, b) /\ OnlyTo(<<o1, i, i>>, b)
  BY <1>1, <1>2
<1>4. OnlyTo(<<o1>>, b) /\ OnlyTo(<<o1, o2>>, b) /\ OnlyTo(<<o1, o2, o3>>, b)
  BY <1>1, <1>2
<1>5. OnlyTo(<<r>>, b)
  BY <1>1, <1>2
<1>6. QED
  BY <1>3, <1>4, <1>5 DEF o1, o2, o3, i, r

LEMMA NoData ==
  ASSUME NEW b
  PROVE  OnlyTo(drive_setup, b) /\ OnlyTo(init_floppy, b) /\ OnlyTo(sense_interrupt, b)
<1>1. OnlyTo(<<Reset>>, b) /\ OnlyTo(specify, b) /\ OnlyTo(sense_interrupt, b)
      /\ OnlyTo(<<Out(RECALIBRATE), Out(0)>>, b)
  BY Commands, Zenon DEF specify, sense_interrupt
<1>2. OnlyTo(version, b) /\ OnlyTo(lock, b)
  BY Commands, Zenon DEF version, lock
<1>3. OnlyTo(recalibrate, b)
  BY <1>1, OnlyToConcat DEF recalibrate
<1>4. OnlyTo(drive_setup, b)
  BY <1>1, <1>3, OnlyToConcat DEF drive_setup
<1>5. OnlyTo(configure, b)
  <2> DEFINE c == <<Out(CONFIGURE), Out(0), Out(64 + 16 + 8)>>
             d == <<Out(0)>>
  <2>1. OnlyTo(c, b) /\ OnlyTo(d, b)
    BY Commands, Zenon
  <2>2. configure = c \o d
    BY DEF configure
  <2> HIDE DEF c, d
  <2>3. QED
    BY <2>1, <2>2, OnlyToConcat
<1>6. OnlyTo(init_floppy, b)
  BY <1>2, <1>4, <1>5, OnlyToConcat DEF init_floppy
<1>7. QED
  BY <1>1, <1>4, <1>6

\* Reading a sector to b stores to b alone.
LEMMA ReadsTo ==
  ASSUME NEW lba, NEW b
  PROVE  OnlyTo(ReadSector(lba, b), b)
<1> DEFINE cyl == (lba \div (HEADS * SPT)) % 256
           hd == ((lba % (HEADS * SPT)) \div SPT) % 256
           sn == ((lba % SPT) + 1) % 256
           cmd == <<Out(READ_MT_MFM), Out(hd * 4), Out(cyl), Out(hd), Out(sn),
                    Out(2), Out(SPT), Out(27), Out(255), Data(b)>>
           status == [i \in 1 .. 7 |-> In]
<1>1. OnlyTo(cmd, b)
  <2> DEFINE t1 == Out(READ_MT_MFM)  t2 == Out(hd * 4)  t3 == Out(cyl)  t4 == Out(hd)  t5 == Out(sn)
             t6 == Out(2)  t7 == Out(SPT)  t8 == Out(27)  t9 == Out(255)  t10 == Data(b)
             S == {t1, t2, t3, t4, t5, t6, t7, t8, t9, t10}
  <2>1. /\ t1.op # "data" /\ t2.op # "data" /\ t3.op # "data" /\ t4.op # "data" /\ t5.op # "data"
        /\ t6.op # "data" /\ t7.op # "data" /\ t8.op # "data" /\ t9.op # "data" /\ t10.v = b
    BY Ops
  <2> HIDE DEF t1, t2, t3, t4, t5, t6, t7, t8, t9, t10
  <2> DEFINE q == <<t1, t2, t3, t4, t5, t6, t7, t8, t9, t10>>
  <2>2. q \in Seq(S)
    OBVIOUS
  <2>3. \A i \in 1 .. Len(q) : q[i].op = "data" => q[i].v = b
    BY <2>1
  <2>4. OnlyTo(q, b)
    BY <2>2, <2>3 DEF OnlyTo, IsSeq
  <2>5. QED
    BY <2>4 DEF t1, t2, t3, t4, t5, t6, t7, t8, t9, t10
<1>2. OnlyTo(status, b)
  <2>1. status \in Seq({In}) /\ Len(status) = 7
    OBVIOUS
  <2>2. \A i \in 1 .. 7 : status[i] = In
    OBVIOUS
  <2> HIDE DEF status
  <2>3. QED
    BY <2>1, <2>2, Ops DEF OnlyTo, IsSeq
<1>3. OnlyTo(seek(cyl, hd), b)
  <2>1. OnlyTo(<<Out(SEEK), Out(hd * 4), Out(cyl)>>, b)
    BY Commands, Zenon
  <2>2. QED
    BY <2>1, NoData, OnlyToConcat DEF seek
<1>4. OnlyTo(read_floppy(cyl, hd, sn, b), b)
  <2>1. read_floppy(cyl, hd, sn, b) = (seek(cyl, hd) \o cmd) \o status
    BY DEF read_floppy
  <2> HIDE DEF cyl, hd, sn, cmd, status
  <2>2. OnlyTo(seek(cyl, hd) \o cmd, b)
    BY <1>1, <1>3, OnlyToConcat
  <2>3. QED
    BY <1>2, <2>1, <2>2, OnlyToConcat
<1>5. read_floppy_lba(lba, b) = read_floppy(cyl, hd, sn, b)
  BY DEF read_floppy_lba
<1> HIDE DEF cyl, hd, sn
<1>6. QED
  BY <1>4, <1>5, NoData, OnlyToConcat DEF ReadSector

-----------------------------------------------------------------------------
(* The steps.                                                              *)

LEMMA LoaderInit == Init => LoaderInv
<1> SUFFICES ASSUME Init PROVE LoaderInv
  OBVIOUS
<1>1. script = <<>> /\ IsSeq(script)
  <2>1. <<>> \in Seq({})
    OBVIOUS
  <2>2. script = <<>>
    BY DEF Init, FloppyInit
  <2>3. QED
    BY <2>1, <2>2 DEF IsSeq
<1>2. mem = [a \in Address |-> mem[a]]
  BY DEF Init, FloppyInit
<1>3. Typed
  BY <1>1, <1>2, Layout, LoaderAssumption DEF Init, Typed
<1>4. QED
  BY <1>1, <1>3 DEF Init, LoaderInv, ScriptAimed, InStep, PointerKept, Start4, Reading

\* A transfer stores a sector where the script says.
LEMMA TransferStep ==
  ASSUME LoaderInv, Transfer, UNCHANGED loader_vars
  PROVE  LoaderInv' /\ WritesItsFile
<1>1. UNCHANGED <<pc, disk, call, name, dest, s, found, size, out, remaining, cluster, sec, ret, pushed>>
  BY DEF loader_vars, call_vars, found_entry, chain_vars
<1> DEFINE t == Head(script)
<1>2. PICK S : script \in Seq(S)
  BY DEF LoaderInv, Typed, IsSeq
<1>3. script # <<>> /\ script' = Tail(script)
  BY DEF Transfer
<1>4. /\ script' \in Seq(S) /\ Len(script') = Len(script) - 1 /\ Len(script) \in Nat \ {0}
      /\ \A i \in 1 .. Len(script') : script'[i] = script[i + 1]
      /\ t = script[1]
  BY <1>2, <1>3
<1>5. mem' = IF t.op # "data" THEN mem
             ELSE [a \in Address |-> IF a \in t.v .. t.v + SECTOR - 1 THEN DiskByte(a - t.v) ELSE mem[a]]
  BY DEF Transfer
<1> HIDE DEF t
<1>6. t.op = "data" => Aimed(t.v)
  BY <1>4 DEF LoaderInv, ScriptAimed
<1>7. mem' = [a \in Address |-> mem'[a]]
  BY <1>5 DEF LoaderInv, Typed
<1>8. Typed'
  BY <1>1, <1>4, <1>7 DEF LoaderInv, Typed, IsSeq
<1>9. ScriptAimed'
  BY <1>1, <1>4 DEF LoaderInv, ScriptAimed, Aimed
<1>10. InStep' /\ PointerKept'
  BY <1>1, <1>3 DEF LoaderInv, InStep, PointerKept
<1>11. WritesItsFile
  <2>1. SUFFICES ASSUME NEW a \in Address, mem'[a] # mem[a] PROVE ItsFile(a)
    BY DEF WritesItsFile
  <2>2. t.op = "data" /\ a \in t.v .. t.v + SECTOR - 1
    BY <1>5, <2>1
  <2> DEFINE b == t.v
  <2> HIDE DEF b
  <2>3. a \in Nat /\ b \in Nat /\ b <= a /\ a < b + SECTOR
    BY <1>6, <2>2, FloppyAssumption DEF Aimed, b
  <2>4. \/ FAT_BUFFER_ADDRESS <= b /\ b + SECTOR <= BOOT_SECTOR_LOCATION
        \/ b = BOOT_SECTOR_LOCATION /\ call = 0 /\ ~found
        \/ found /\ dest <= b /\ b + SECTOR <= dest + size
    BY <1>6, <2>2 DEF Aimed, b
  <2>5. dest \in Nat /\ size \in Nat
    BY DEF LoaderInv, Typed
  <2>6. CASE FAT_BUFFER_ADDRESS <= b /\ b + SECTOR <= BOOT_SECTOR_LOCATION
    BY <2>3, <2>6, Layout DEF ItsFile
  <2>7. CASE b = BOOT_SECTOR_LOCATION /\ call = 0 /\ ~found
    BY <2>3, <2>7, Layout DEF ItsFile
  <2>8. CASE found /\ dest <= b /\ b + SECTOR <= dest + size
    <3>1. a \in dest .. dest + size - 1
      BY <2>3, <2>5, <2>8, Layout
    <3>2. QED
      BY <2>8, <3>1 DEF ItsFile
  <2>9. QED
    BY <2>4, <2>6, <2>7, <2>8
<1>12. QED
  BY <1>8, <1>9, <1>10, <1>11 DEF LoaderInv

\* A call that reads a sector to b, or any that reads none.
LEMMA CallStep ==
  ASSUME LoaderInv, NEW t, NEW b, OnlyTo(t, b), Aimed(b), Calls(t),
         UNCHANGED <<call, found, dest, size>>
  PROVE  /\ IsSeq(script') /\ ScriptAimed' /\ UNCHANGED mem
<1>1. script' = t /\ UNCHANGED mem
  BY DEF Calls
<1>2. \A i \in 1 .. Len(script') : script'[i].op = "data" => script'[i].v = b
  BY <1>1 DEF OnlyTo
<1>3. ScriptAimed'
  BY <1>2 DEF ScriptAimed, Aimed
<1>4. QED
  BY <1>1, <1>3 DEF OnlyTo

\* A statement that calls nothing.
LEMMA QuietStep ==
  ASSUME LoaderInv, NEW p, At(p), Quiet
  PROVE  /\ IsSeq(script') /\ ScriptAimed' /\ UNCHANGED <<mem, script>> /\ script = <<>>
         /\ pc = p /\ UNCHANGED disk
<1>1. UNCHANGED <<mem, script>> /\ script = <<>> /\ pc = p /\ UNCHANGED disk
  BY DEF At, Quiet
<1>2. Len(script') = 0
  BY <1>1
<1>3. QED
  BY <1>1, <1>2 DEF LoaderInv, Typed, IsSeq, ScriptAimed

\* What a statement leaves to show once its script is known.
LEMMA Kept ==
  ASSUME LoaderInv, IsSeq(script'), ScriptAimed', UNCHANGED <<mem, disk>>,
         call' \in 0 .. Len(CALLS), dest' \in Nat, size' \in Nat, out' \in Nat, remaining' \in Nat,
         s' \in Nat, InStep', PointerKept'
  PROVE  LoaderInv' /\ WritesItsFile
<1>1. Typed'
  BY DEF LoaderInv, Typed
<1>2. QED
  BY <1>1 DEF LoaderInv, WritesItsFile

\* load_floppy up to the call of read_file.
LEMMA BeginStep ==
  ASSUME LoaderInv, Start \/ BootSector \/ ListDirectory \/ Listed \/ Open
  PROVE  LoaderInv' /\ WritesItsFile
<1> USE DEF call_vars, found_entry, chain_vars
<1>1. /\ UNCHANGED <<call, dest, out, remaining, disk, pushed>> /\ script = <<>>
      /\ pc \in Start4 \cup {"open"}
  BY DEF Start, BootSector, ListDirectory, Listed, Open, At, Start4
<1>2. /\ call \in 0 .. Len(CALLS) /\ dest \in Nat /\ size \in Nat /\ out \in Nat /\ remaining \in Nat
      /\ s \in Nat
  BY DEF LoaderInv, Typed
<1>3. (pc \in Start4 => call = 0 /\ ~found) /\ (call > 0 => pushed = Pointer)
  BY DEF LoaderInv, InStep, PointerKept
<1>4. CASE Open
  <2>1. pc' = "root" /\ size' = 0 /\ s' = 0
    BY <1>4 DEF Open
  <2>2. IsSeq(script') /\ ScriptAimed' /\ UNCHANGED mem
    BY <1>4, QuietStep DEF Open
  <2>3. InStep' /\ PointerKept'
    BY <1>1, <1>3, <2>1 DEF InStep, PointerKept, Start4, Reading
  <2>4. QED
    BY <1>1, <1>2, <2>1, <2>2, <2>3, Kept
<1>5. CASE Start \/ BootSector \/ ListDirectory \/ Listed
  <2>1. /\ UNCHANGED <<found, size>> /\ s' \in Nat
        /\ pc \in Start4 /\ pc' \in Start4 \cup {"open"}
    BY <1>2, <1>5 DEF Start, BootSector, ListDirectory, Listed, At, Start4
  <2>2. call = 0 /\ ~found
    BY <1>3, <2>1
  <2>3. IsSeq(script') /\ ScriptAimed' /\ UNCHANGED mem
    <3>1. Aimed(BOOT_SECTOR_LOCATION) /\ Aimed(NAME_BUFFER_ADDRESS)
      BY <2>2, Layout DEF Aimed
    <3>2. UNCHANGED <<call, found, dest, size>>
      BY <1>1, <2>1
    <3>3. CASE Start
      <4>1. OnlyTo(init_floppy, BOOT_SECTOR_LOCATION)
        BY NoData
      <4>2. QED
        BY <3>1, <3>2, <3>3, <4>1, CallStep DEF Start
    <3>4. CASE BootSector
      BY <3>1, <3>2, <3>4, ReadsTo, CallStep DEF BootSector
    <3>5. CASE Listed
      BY <3>5, QuietStep DEF Listed
    <3>6. CASE ListDirectory
      <4>1. CASE Calls(ReadSector(root_start + s, NAME_BUFFER_ADDRESS))
        BY <3>1, <3>2, <4>1, ReadsTo, CallStep
      <4>2. CASE Quiet
        BY <3>6, <4>2, QuietStep DEF ListDirectory
      <4>3. QED
        BY <3>6, <4>1, <4>2 DEF ListDirectory
    <3>7. QED
      BY <1>5, <3>3, <3>4, <3>5, <3>6
  <2>4. call' = 0 /\ ~found'
    BY <1>1, <2>1, <2>2
  <2>5. InStep' /\ PointerKept'
    BY <2>1, <2>4 DEF InStep, PointerKept, Start4, Reading
  <2>6. QED
    BY <1>1, <1>2, <2>1, <2>3, <2>5, Kept
<1>6. QED
  BY <1>4, <1>5

\* The entries in the name buffer have sizes.
LEMMA EntrySize ==
  ASSUME LoaderInv, NEW i
  PROVE  EntryInBuffer(i).size \in Nat
<1>1. disk \in Images
  BY DEF LoaderInv, Typed
<1>2. \A n \in DOMAIN disk.root : disk.root[n].size \in Nat
  BY <1>1, LoaderAssumption
<1>3. End.size \in Nat
  BY DEF End
<1>4. EntryInBuffer(i) = End \/ \E n \in DOMAIN disk.root : EntryInBuffer(i) = disk.root[n]
  BY DEF EntryInBuffer
<1>5. QED
  BY <1>2, <1>3, <1>4

\* read_file looks the name up.
LEMMA LookupStep ==
  ASSUME LoaderInv, RootSector \/ Scan
  PROVE  LoaderInv' /\ WritesItsFile
<1> USE DEF call_vars, found_entry, chain_vars
<1>1. /\ UNCHANGED <<call, dest, disk, pushed>> /\ script = <<>>
  BY DEF RootSector, Scan, At
<1>2. /\ call \in 0 .. Len(CALLS) /\ dest \in Nat /\ size \in Nat /\ out \in Nat /\ remaining \in Nat
      /\ s \in Nat
  BY DEF LoaderInv, Typed
<1>3. call > 0 => pushed = Pointer
  BY DEF LoaderInv, PointerKept
<1>4. CASE RootSector
  <2>1. /\ UNCHANGED <<s, found, size, out, remaining>>
        /\ pc' \in {"scan", "returned"}
    BY <1>4 DEF RootSector, Return
  <2>2. IsSeq(script') /\ ScriptAimed' /\ UNCHANGED mem
    <3>1. CASE Calls(ReadSector(root_start + s, NAME_BUFFER_ADDRESS))
      <4>1. Aimed(NAME_BUFFER_ADDRESS)
        BY Layout DEF Aimed
      <4>2. UNCHANGED <<call, found, dest, size>>
        BY <1>1, <2>1
      <4>3. QED
        BY <3>1, <4>1, <4>2, ReadsTo, CallStep
    <3>2. CASE Quiet
      BY <1>4, <3>2, QuietStep DEF RootSector
    <3>3. QED
      BY <1>4, <3>1, <3>2 DEF RootSector
  <2>3. InStep' /\ PointerKept'
    BY <1>1, <1>3, <2>1 DEF InStep, PointerKept, Start4, Reading
  <2>4. QED
    BY <1>1, <1>2, <2>1, <2>2, <2>3, Kept
<1>5. CASE Scan
  <2>1. IsSeq(script') /\ ScriptAimed' /\ UNCHANGED mem
    BY <1>5, QuietStep DEF Scan
  <2>2. \/ /\ pc' \in {"root", "returned"} /\ s' \in {s, s + 1}
           /\ UNCHANGED <<found, size, out, remaining>>
        \/ \E i \in Entries : LET e == EntryInBuffer(i) IN
             /\ found' = TRUE /\ size' = e.size /\ s' = 0 /\ out' = dest /\ remaining' = e.size
             /\ pc' = "returned" \/ (pc' = "fat" /\ disk.fatsize <= MAX_FAT_SECTORS)
    <3>1. disk.fatsize \in Nat /\ MAX_FAT_SECTORS \in Nat
      BY LoaderAssumption DEF LoaderInv, Typed
    <3>2. QED
      BY <1>5, <3>1 DEF Scan, Return
  <2>3. CASE /\ pc' \in {"root", "returned"} /\ s' \in {s, s + 1}
             /\ UNCHANGED <<found, size, out, remaining>>
    <3>1. InStep' /\ PointerKept'
      BY <1>1, <1>3, <2>3 DEF InStep, PointerKept, Start4, Reading
    <3>2. s' \in Nat
      BY <1>2, <2>3
    <3>3. QED
      BY <1>1, <1>2, <2>1, <2>3, <3>1, <3>2, Kept
  <2>4. CASE \E i \in Entries : LET e == EntryInBuffer(i) IN
             /\ found' = TRUE /\ size' = e.size /\ s' = 0 /\ out' = dest /\ remaining' = e.size
             /\ pc' = "returned" \/ (pc' = "fat" /\ disk.fatsize <= MAX_FAT_SECTORS)
    <3>1. PICK n \in Nat :
             /\ found' = TRUE /\ size' = n /\ s' = 0 /\ out' = dest /\ remaining' = n
             /\ pc' = "returned" \/ (pc' = "fat" /\ disk.fatsize <= MAX_FAT_SECTORS)
      BY <2>4, EntrySize
    <3>2. InStep' /\ PointerKept'
      BY <1>1, <1>2, <1>3, <3>1 DEF InStep, PointerKept, Start4, Reading
    <3>3. QED
      BY <1>1, <1>2, <2>1, <3>1, <3>2, Kept
  <2>5. QED
    BY <2>2, <2>3, <2>4
<1>6. QED
  BY <1>4, <1>5

\* The FAT is read and the chain followed: steps that store nothing themselves.
LEMMA ReadStep ==
  ASSUME LoaderInv, FatSector \/ Chain \/ WholeSector \/ PartialSector \/ NextCluster
  PROVE  LoaderInv' /\ WritesItsFile
<1> USE DEF call_vars, found_entry, chain_vars
<1>1. /\ UNCHANGED <<call, dest, found, size, disk, pushed>> /\ script = <<>>
      /\ pc \in {"fat", "chain", "sector"}
  BY DEF FatSector, Chain, WholeSector, PartialSector, NextCluster, At
<1>2. /\ call \in 0 .. Len(CALLS) /\ dest \in Nat /\ size \in Nat /\ out \in Nat /\ remaining \in Nat
      /\ s \in Nat
  BY DEF LoaderInv, Typed
<1>3. call > 0 => pushed = Pointer
  BY DEF LoaderInv, PointerKept
<1>4. found /\ dest <= out /\ out + remaining = dest + size
  BY <1>1 DEF LoaderInv, InStep, Reading
<1>5. UNCHANGED <<call, found, dest, size>>
  BY <1>1
<1>6. CASE FatSector
  <2>1. UNCHANGED <<out, remaining>> /\ s' \in {s, s + 1} /\ pc = "fat" /\ pc' \in {"fat", "chain"}
    BY <1>6 DEF FatSector, At
  <2>2. disk.fatsize <= MAX_FAT_SECTORS /\ disk.fatsize \in Nat /\ MAX_FAT_SECTORS \in Nat
    BY <2>1, LoaderAssumption DEF LoaderInv, InStep, Typed
  <2>3. IsSeq(script') /\ ScriptAimed' /\ UNCHANGED mem
    <3>1. CASE s < disk.fatsize
      <4>1. s < MAX_FAT_SECTORS
        BY <1>2, <2>2, <3>1
      <4> DEFINE b == FAT_BUFFER_ADDRESS + s * SECTOR
      <4>2. Calls(ReadSector(RESERVED + s, b))
        BY <1>6, <3>1 DEF FatSector
      <4>3. Aimed(b)
        <5>1. s * SECTOR \in Nat /\ b + SECTOR <= NAME_BUFFER_ADDRESS
          BY <1>2, <4>1, FatFits
        <5>2. b \in Nat /\ FAT_BUFFER_ADDRESS <= b
          BY <5>1, Layout
        <5> HIDE DEF b
        <5>3. b + SECTOR <= BOOT_SECTOR_LOCATION
          BY <5>1, <5>2, Layout
        <5>4. QED
          BY <5>2, <5>3 DEF Aimed
      <4> HIDE DEF b
      <4>4. QED
        BY <1>5, <4>2, <4>3, ReadsTo, CallStep
    <3>2. CASE ~(s < disk.fatsize)
      BY <1>6, <3>2, QuietStep DEF FatSector
    <3>3. QED
      BY <3>1, <3>2
  <2>4. InStep' /\ PointerKept'
    BY <1>1, <1>3, <1>4, <2>1, <2>2 DEF InStep, PointerKept, Start4, Reading
  <2>5. s' \in Nat
    BY <1>2, <2>1
  <2>6. QED
    BY <1>1, <1>2, <2>1, <2>3, <2>4, <2>5, Kept
<1>7. CASE Chain \/ NextCluster
  <2>1. UNCHANGED <<out, remaining, s>> /\ pc' \in {"sector", "chain", "returned"}
    BY <1>7 DEF Chain, NextCluster, Return
  <2>2. IsSeq(script') /\ ScriptAimed' /\ UNCHANGED mem
    BY <1>7, QuietStep DEF Chain, NextCluster
  <2>3. InStep' /\ PointerKept'
    BY <1>1, <1>3, <1>4, <2>1 DEF InStep, PointerKept, Start4, Reading
  <2>4. QED
    BY <1>1, <1>2, <2>1, <2>2, <2>3, Kept
<1>8. CASE WholeSector
  <2>1. /\ pc = "sector" /\ pc' = "sector" /\ UNCHANGED s /\ remaining >= SECTOR
        /\ out' = out + SECTOR /\ remaining' = remaining - SECTOR
        /\ Calls(ReadSector(Lba, out))
    BY <1>8 DEF WholeSector, At
  <2>2. Aimed(out)
    BY <1>2, <1>4, <2>1, Layout DEF Aimed
  <2>3. IsSeq(script') /\ ScriptAimed' /\ UNCHANGED mem
    BY <1>5, <2>1, <2>2, ReadsTo, CallStep
  <2>4. out' \in Nat /\ remaining' \in Nat /\ dest <= out' /\ out' + remaining' = dest + size
    BY <1>2, <1>4, <2>1, Layout
  <2>5. InStep' /\ PointerKept'
    BY <1>1, <1>3, <1>4, <2>1, <2>4 DEF InStep, PointerKept, Start4, Reading
  <2>6. QED
    BY <1>1, <1>2, <2>1, <2>3, <2>4, <2>5, Kept
<1>9. CASE PartialSector
  <2>1. /\ pc' = "partial" /\ UNCHANGED <<s, out, remaining>>
        /\ Calls(ReadSector(Lba, NAME_BUFFER_ADDRESS))
    BY <1>9 DEF PartialSector
  <2>2. Aimed(NAME_BUFFER_ADDRESS)
    BY Layout DEF Aimed
  <2>3. IsSeq(script') /\ ScriptAimed' /\ UNCHANGED mem
    BY <1>5, <2>1, <2>2, ReadsTo, CallStep
  <2>4. InStep' /\ PointerKept'
    BY <1>1, <1>3, <1>4, <2>1 DEF InStep, PointerKept, Start4, Reading
  <2>5. QED
    BY <1>1, <1>2, <2>1, <2>3, <2>4, Kept
<1>10. QED
  BY <1>6, <1>7, <1>8, <1>9

\* The last, partial sector is copied out of the name buffer.
LEMMA CopyStep ==
  ASSUME LoaderInv, CopyPartial
  PROVE  LoaderInv' /\ WritesItsFile
<1> USE DEF call_vars, found_entry, chain_vars
<1>1. /\ UNCHANGED <<call, dest, found, size, disk, pushed, s, script>> /\ script = <<>>
      /\ pc = "partial" /\ pc' = "sector" /\ out' = out + remaining /\ remaining' = 0
      /\ mem' = [a \in Address |-> IF a \in out .. out + remaining - 1
                                   THEN mem[NAME_BUFFER_ADDRESS + (a - out)] ELSE mem[a]]
  BY DEF CopyPartial, At
<1>2. /\ call \in 0 .. Len(CALLS) /\ dest \in Nat /\ size \in Nat /\ out \in Nat /\ remaining \in Nat
      /\ s \in Nat /\ IsSeq(script)
  BY DEF LoaderInv, Typed
<1>3. found /\ dest <= out /\ out + remaining = dest + size
  BY <1>1 DEF LoaderInv, InStep, Reading
<1>4. call > 0 => pushed = Pointer
  BY DEF LoaderInv, PointerKept
<1>5. mem' = [a \in Address |-> mem'[a]]
  BY <1>1
<1>6. Typed'
  BY <1>1, <1>2, <1>5 DEF LoaderInv, Typed, IsSeq
<1>7. ScriptAimed'
  BY <1>1 DEF ScriptAimed
<1>8. InStep' /\ PointerKept'
  BY <1>1, <1>2, <1>3, <1>4 DEF InStep, PointerKept, Start4, Reading
<1>9. WritesItsFile
  <2>1. SUFFICES ASSUME NEW a \in Address, mem'[a] # mem[a] PROVE ItsFile(a)
    BY DEF WritesItsFile
  <2>2. a \in out .. out + remaining - 1
    BY <1>1, <2>1
  <2>3. a \in dest .. dest + size - 1
    BY <1>2, <1>3, <2>2
  <2>4. QED
    BY <1>3, <2>3 DEF ItsFile
<1>10. QED
  BY <1>6, <1>7, <1>8, <1>9 DEF LoaderInv

\* Into the kernel, and its own calls.
LEMMA KernelStep ==
  ASSUME LoaderInv, HandOver \/ Jump \/ LoadFloppy \/ KernelGoesOn
  PROVE  LoaderInv' /\ WritesItsFile
<1> USE DEF call_vars, found_entry, chain_vars
<1>1. /\ UNCHANGED <<found, size, disk, s, out, remaining, script>> /\ script = <<>>
      /\ pc \in {"returned", "jump", "kernel"}
  BY DEF HandOver, Jump, LoadFloppy, KernelGoesOn, At, Quiet
<1>2. /\ call \in 0 .. Len(CALLS) /\ dest \in Nat /\ size \in Nat /\ out \in Nat /\ remaining \in Nat
      /\ s \in Nat /\ IsSeq(script) /\ IsSeq(script')
  BY <1>1 DEF LoaderInv, Typed, IsSeq
<1>3. ScriptAimed'
  BY <1>1 DEF ScriptAimed
<1>4. call > 0 => pushed = Pointer
  BY DEF LoaderInv, PointerKept
<1>5. CASE HandOver
  <2>1. /\ mem' = [mem EXCEPT ![READ_FUNCTION_ADDRESS] = Pointer] /\ pc' = "jump" /\ call = 0
        /\ UNCHANGED <<call, dest>>
    BY <1>5 DEF HandOver
  <2>2. mem' = [a \in Address |-> IF a = READ_FUNCTION_ADDRESS THEN Pointer ELSE mem[a]]
    BY <2>1 DEF LoaderInv, Typed
  <2>3. mem' = [a \in Address |-> mem'[a]] /\ mem'[READ_FUNCTION_ADDRESS] = Pointer
    BY <2>2, Layout
  <2>4. Typed'
    BY <1>1, <1>2, <2>1, <2>3 DEF LoaderInv, Typed
  <2>5. InStep' /\ PointerKept'
    BY <1>1, <2>1, <2>3 DEF InStep, PointerKept, Start4, Reading
  <2>6. WritesItsFile
    <3>1. READ_FUNCTION_ADDRESS \in FAT_BUFFER_ADDRESS .. BOOT_SECTOR_LOCATION - 1
      BY Layout
    <3>2. QED
      BY <2>2, <3>1 DEF WritesItsFile, ItsFile
  <2>7. QED
    BY <1>3, <2>4, <2>5, <2>6 DEF LoaderInv
<1>6. CASE Jump
  <2>1. /\ pc = "jump" /\ pc' \in {"kernel", "lost"} /\ pushed' = mem[READ_FUNCTION_ADDRESS]
        /\ UNCHANGED <<mem, call, dest>>
    BY <1>6, Layout DEF Jump, At, Quiet
  <2>2. pushed' = Pointer
    BY <2>1 DEF LoaderInv, PointerKept
  <2>3. InStep' /\ PointerKept'
    BY <2>1, <2>2 DEF InStep, PointerKept, Start4, Reading
  <2>4. QED
    BY <1>1, <1>2, <1>3, <2>1, <2>3, Kept
<1>7. CASE LoadFloppy
  <2>1. pc = "kernel" /\ pushed' = pushed /\ UNCHANGED mem /\ pc' \in {"open", "done"}
    BY <1>7 DEF LoadFloppy, At, Quiet
  <2>2. pushed' = Pointer
    BY <2>1 DEF LoaderInv, PointerKept
  <2>3. call' \in 0 .. Len(CALLS) /\ dest' \in Nat
    <3>1. CASE call < Len(CALLS)
      <4>1. call' = call + 1 /\ dest' = CALLS[call + 1].dest
        BY <1>7, <3>1 DEF LoadFloppy
      <4> DEFINE File == [name : STRING, dest : Nat]
      <4>2. CALLS \in Seq(File)
        BY LoaderAssumption
      <4>3. \A f \in File : f.dest \in Nat
        OBVIOUS
      <4> HIDE DEF File
      <4>4. call + 1 \in 1 .. Len(CALLS) /\ call + 1 \in 0 .. Len(CALLS)
        BY <1>2, <3>1, <4>2
      <4>5. CALLS[call + 1] \in File
        BY <4>2, <4>4
      <4>6. QED
        BY <4>1, <4>3, <4>4, <4>5
    <3>2. CASE ~(call < Len(CALLS))
      BY <1>2, <1>7, <3>2 DEF LoadFloppy
    <3>3. QED
      BY <3>1, <3>2
  <2>4. InStep' /\ PointerKept'
    BY <2>1, <2>2 DEF InStep, PointerKept, Start4, Reading
  <2>5. QED
    BY <1>1, <1>2, <1>3, <2>1, <2>3, <2>4, Kept
<1>8. CASE KernelGoesOn
  <2>1. pc' = "kernel" /\ call > 0 /\ UNCHANGED <<pushed, mem, call, dest>>
    BY <1>8 DEF KernelGoesOn, Quiet
  <2>2. InStep' /\ PointerKept'
    BY <1>4, <2>1 DEF InStep, PointerKept, Start4, Reading
  <2>3. QED
    BY <1>1, <1>2, <1>3, <2>1, <2>2, Kept
<1>9. QED
  BY <1>5, <1>6, <1>7, <1>8

LEMMA LoaderStep == LoaderInv /\ [Next]_vars => LoaderInv' /\ [WritesItsFile]_vars
<1> SUFFICES ASSUME LoaderInv, [Next]_vars PROVE LoaderInv' /\ WritesItsFile
  OBVIOUS
<1>1. CASE UNCHANGED vars
  <2>1. /\ UNCHANGED <<pc, disk, call, dest, found, size, s, out, remaining, pushed, mem, script>>
    BY <1>1 DEF vars, loader_vars, call_vars, found_entry, chain_vars
  <2>2. Typed' /\ ScriptAimed' /\ InStep' /\ PointerKept'
    BY <2>1 DEF LoaderInv, Typed, ScriptAimed, Aimed, InStep, PointerKept
  <2>3. QED
    BY <2>1, <2>2 DEF LoaderInv, WritesItsFile
<1>2. QED
  BY <1>1, TransferStep, BeginStep, LookupStep, ReadStep, CopyStep, KernelStep DEF Next

\* The invariant holds whatever the floppy holds and the kernel reads.
THEOREM LoaderInvariant == Spec => []LoaderInv
<1>1. Init => LoaderInv
  BY LoaderInit
<1>2. LoaderInv /\ [Next]_vars => LoaderInv'
  BY LoaderStep
<1>3. QED
  BY <1>1, <1>2, PTL DEF Spec

\* For every floppy, every directory and every chain, one in a circle too: a
\* call of read_file stores into the loader's buffers and the bytes of the file
\* it found, and nowhere else.
THEOREM CallsWriteTheirFile == Spec => WritesOnlyItsFile
<1>1. LoaderInv /\ [Next]_vars => [WritesItsFile]_vars
  BY LoaderStep
<1>2. QED
  BY <1>1, LoaderInvariant, PTL DEF Spec, WritesOnlyItsFile, WritesItsFile, ItsFile

\* The kernel finds the pointer to read_file on its stack, although main.cpp
\* keeps it in the buffer that the FAT was read into.
THEOREM PointerReachesKernel == Spec => []KernelGetsPointer
<1>1. LoaderInv => KernelGetsPointer
  BY DEF LoaderInv, PointerKept, KernelGetsPointer
<1>2. QED
  BY <1>1, LoaderInvariant, PTL
=============================================================================
