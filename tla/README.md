# A verification project for Pumpkin OS

This directory holds TLA+ models of Pumpkin OS, a 32-bit x86 hobby operating
system in C++: the boot loader that reads a FAT12 floppy, and a kernel with a
scheduler, a heap, page tables, a file system in memory, a terminal, drivers for
input, sound and network, a linker, and a small desktop. TLC explores the models
on small instances; TLAPS proves, for every size, the central invariants of
Tasking, Heap, PhysMemory, Vfs, Stdio, KernelLog, Terminal, Console, Input,
Network, Devices, LoadedFiles, Desktop and Loader, that Stdio implements FileStore, and the safety
of Tasking's refinement of RoundRobin.

Paths such as `kernel/p-kernel.cpp` are below `src/src/src/` of the repository,
`dev/...`, `std/...` and `core/...` below `kernel/mods/`.

Contents: 1 the system and its parts, 2 the modules and the code, 3 the runs,
4 bounds, 5 fairness, 6 the proofs, 7 what is assumed and left out, 8 what was
seen in the code, 9 the plan, 10 how to run it.

## 1. The system and its parts

One processor runs everything. There is one thread of control, `kernel_main`,
and there are interrupt handlers. The interrupt gates clear IF, so a handler
runs to its end and is itself not interrupted; `kernel_main` executes `sti`
early (p-kernel.cpp:45) and has IF = 1 from then on; nothing in it ever turns
interrupts off again or takes a lock. Handlers and `kernel_main` share data everywhere: the heap,
the callback tables, the window, the sound ring, the receive ring. That, and devices that go on
by themselves, is where the hard behaviour of this code is.

| part | source | state | operations | hard behaviour | correct when |
|---|---|---|---|---|---|
| boot loader | boot/loader | buffers at fixed addresses, the controller, the chain being followed | driver commands, `read_file`, hand-over | a read that does not end by itself, 12-bit entries across sectors, a pointer inside a buffer | a file's bytes, all of them and nothing else, are where they were asked for |
| scheduler | dev/tasking | `g_tasks`, circular list, `g_current`, `g_sched_lock` | `tasking_init`, `task_create`, tick, `task_exit` | a tick between any two stores | the list stays a circle, a stack has one owner, everyone gets a turn |
| heap | std/stdlib.cpp | pool, free list | `malloc`, `free`, `realloc` | an interrupt handler allocates too | blocks do not overlap and none is lost |
| frames and pages | dev/memory, dev/paging, dev/vbe | frame bitmap, page directory, tables | `alloc_phys_page(s)`, `dma_alloc`, `map_physical_memory` | running out in the middle | a frame has one owner, a mapping stays |
| VFS and ramfs | dev/vfs, dev/ramfs | mount table, two pools of nodes | `vfs_mount`, `vfs_find`, `vfs_create`, `ramfs_delete_node` | two parsers for one path, two records of a mount, four limits | what is created under a path is found under it |
| streams | std/stdio.cpp | `file_table`, FILEs, two sizes per file | `fopen` ... `fwrite` | exhaustion, ends of files | a file is a sequence of bytes |
| kernel log | std/logging.cpp | device list, `/kmsglog` | `capture`, `log`, `flush` | the log is written while it is played back | every device gets every message once |
| input | dev/kb, dev/mouse, dev/idt/irq.cpp | decoder state, the controller's one buffer | set-up, two handlers | set-up with interrupts on, bytes of two devices in one buffer | nothing is stuck, nothing is misread |
| terminal | std/graphics.cpp, kb.cpp | text buffer, cursor, pixels; the table of key callbacks | `write`, `backspace`, the two stages, `terminal_delete`, `kb_add_event`, `kb_remove_event` | wrapping, scrolling and backspace move one cursor; keys between any two stores | the screen shows the end of the text, a key has one listener |
| sound | ac97.cpp, dev/chorus | descriptor ring, stream position, the place in a WAV file | `read_wav_info`, `play_wav`, the handler | a card that plays on, chunks of any length | each frame is played once, in order, to the end |
| ELF loader | dev/elf | section addresses, the words of the image | `elf_load_file`: two stages, relocations | words relocated more than once, sections that move between the stages | the linker's words are in memory, or the file was refused |
| desktop | core/wingman | window list, surface, screen, cursor | start, keys, clicks, moves | callbacks during the first picture, partial redraws | the screen shows the folder of the path |
| network | rtl8139.cpp, arp.cpp | receive ring, four descriptors, the ARP entry, `NICDevice` | `RTL8139_TEST`, the handler, ARP replies | frames that arrive inside the handler and during set-up | frames are taken in order and once, requests answered, no interrupt lost |
| PCI scan, IRQ table | pci.cpp, idt/irq.cpp | where the scan is, the handlers of each line | `checkAllBuses`, `irq_install_handler` | drivers whose interrupts come while the scan goes on | every device's driver is called, each handler is installed once |
| the rest | message box, system calls, PIT/CMOS/time, serial, C library, boot sectors, memory map | | | | *not modelled, see 7* |

How they interact: the loader leaves a pointer to its `read_file`, which the
kernel calls (with paging off) for `TEST.TXT`, `TEST.WAV` and `MAIN.ELF`. The
file system is used by stdio, stdio by the log, the file manager and
`kernel_main`. Drivers take DMA buffers from the allocator and install handlers
in the table of irq.cpp, called by the PCI scan; the keyboard and mouse drivers call back the terminal,
later the window system; the sound handler calls back Chorus for the next
fragment. The scheduler is complete but its start is commented out in
`kernel_main` (p-kernel.cpp:210-222).

## 2. The modules and the code

Every definition that stands for code is listed with its lines in PROJECT.json
under `map`. A definition marked *Mutant* in its comment is a plausible bug next
to the definition it would replace, by which a property shows that it says
something.

**Tasking**, with **RoundRobin** and **TaskingRefinement** (tasking.cpp,
tasking.asm). A context is a stack, `cpu` the stack the processor is on. Each
context has a program counter in `task_create`, `runqueue_push` or `task_exit`;
a step is one access to the scheduler's globals. `scheduler_on_tick` is a whole
handler and may come before any step (`Tick`, `FirstTick`/`LaterTick`), or as
the `int $0x20` of `task_exit` (`ExitYield`). `RoundRobin` is the promise: a
ring of tasks and a turn that moves round it past the dead. The refinement maps
the linked list to the ring, state DEAD to `dead`, `g_current` to `turn`.

**Heap** (stdlib.cpp:1-122). `free_list`, `size`, `next` as in the block
headers, at byte addresses of the pool; one step per load or store, for the two
actors `main` and `irq`. `held` records what clients were given. `Spec` is one
caller nobody interrupts; `IrqSpec` adds the packet handler of rtl8139.cpp:107;
`ReallocSpec` adds a `realloc` that shrinks, which nothing in the tree calls.

**PhysMemory** (allocator.cpp, paging.cpp, memory.cpp, vbe.cpp). The bitmap, the
page directory, every frame's content as a table, and the one call in progress;
a step is one pass of the loop of `dma_alloc` or of `map_physical_memory`, with
the roll-back of a failed call in the step that fails. `Spec` has the calls the
drivers make; `ApiSpec` adds clients of the single-page calls, which nothing in
the tree makes, and the failure of `alloc_phys_pages` that only they can cause.

**VfsPath** (pure operators), **PathReference** (their reference definitions),
**Vfs** (vfs.cpp, ramfs.cpp). A path is a sequence of characters, with the sizes
of the C buffers. `vfs_find` and `vfs_create` take a path apart by different
code, and so they do here (`Components` against `LastSlash`). Nodes are numbers
in two pools; `mounts` is the mount table and `mountpoint` the field of a node,
two records as in the code. Every call is one action, all error returns
included.

**Stdio** implements **FileStore** (stdio.cpp, ramfs_read, ramfs_write). Both
sizes of a file, the file's array of bytes, the descriptor table and the FILEs
are state. `returned` holds the last call, its arguments and its results, so
that the refinement says that every call returns what that very call returns of
a sequence of bytes. Creation in the tree is Vfs's; here it may fail.

**KernelLog** (logging.cpp as kernel_main uses it). A message is two characters,
so that the buffer of `flush` can end inside one. What an uncleared buffer from
`malloc` holds is a choice.

**Terminal** (pure operators on a terminal: its buffer, its cursor and its rows
of pixels, graphics.cpp) and **Console**, which composes KernelLog, Terminal and
the table of key callbacks (kb.cpp) along `kernel_main`: the log is captured,
stage 1 makes the terminal a device of the log, the log is flushed to it, stage 2
registers its callback, the user types, `terminal_delete` and the window system
follow. `kb_run_events` may come before any store. `Lines`, `Shown` and `Picture`
are the reference: what a screen of that size should show of a text.

**Input** (kb.cpp, mouse.cpp, irq.cpp). `kernel_main` as the sequence of port
accesses of `KeyboardInit` and `mouse_install`; the two handlers; the PS/2
controller with one output buffer and edge-triggered interrupts. Bytes are real
bytes: sign bits, overflow bits and bit 3 of a packet matter.

**Audio** (ac97.cpp, chorus.cpp). The card (`civ`, `lvi`, `halted`, `sr`) plays by
itself; the caller and the handler are sequences of steps, each one access that
the card or the handler can see. A fragment is the frames of the clip it holds.
**Wav** (wav.cpp) is the reader in front of it, chunk by chunk, and the file's
buffer, `held` until it is freed. **Elf** (elf.cpp, the file manager's `.elf`
branch) allocates the zeroed sections of a relocatable file (stage 1) and applies
one relocation per step (stage 2) to words that wrap at 2^32 (`WORDS`); `Linked`
is the reference, which computes every word from the file alone. **LoadedFiles**
composes the three: `kernel_main` plays WAV files and waits, then the desktop
opens ELF files.

**Irq** (irq.cpp: the table of handlers), **Network** (rtl8139.cpp, arp.cpp) and
**Devices** (pci.cpp). Network has the card (receiver, status bits, write and read
offsets, descriptors) and the driver's handler, one step per access to the card:
frames arrive between any two. Devices puts `kernel_main`'s scan of the bus
around it, which calls the driver once per row of the driver table. The line is
level triggered, so `kernel_main` stands still while it is asserted; `Stuck` is
the state in which it is asserted and nobody will silence it.

**Floppy** and **Loader** (floppy.cpp, main.cpp, libboot.cpp, entry.asm). Each
driver function is a script of port transfers that `Transfer` performs against a
model of the controller, byte by byte; Loader composes it with the directory
scan, the FAT, the chain and the hand-over. Memory is cells that name the byte
of the disk they hold.

**Desktop** (wingman.cpp, manager.cpp, window.cpp, surface.cpp, cursor.cpp,
explorer.cpp). A picture is a title cell, a cell per row and a cell for the rest
of the desktop; a cell holds the texts drawn over each other since it was last
cleared, which is what makes a redraw without a background visible. The start of
the desktop is one statement per step, its compositing one pixel load or store
per step; callbacks come between any two.

**MC...** modules hold the constants of the instances. Three also put two parts
side by side, of which one moves while the other is as it began: MCMemory the
heap and the frames, which share nothing; MCScreen the console and the desktop
that follows it; MCVfs the tree and the paths of PathReference.
**TaskingProofs**, **HeapProofs**, **PhysMemoryProofs**, **StdioProofs**,
**InputProofs**, **LoadedFilesProofs**, **DesktopProofs** and **LoaderProofs**
hold the proofs. StdioProofs also has what is proved about Console (key
callbacks, log, terminal), InputProofs what is proved about Network and Devices,
DesktopProofs what is proved about the tree of Vfs.

## 3. The runs

| run | question | states | about |
|---|---|---|---|
| tasking | do the pointer stores of `runqueue_push`, a non-atomic lock and three stacks survive ticks anywhere? | 20 k | 4 safety properties, the refinement of RoundRobin, an exiting task gives up the CPU |
| memory | any sequence of malloc, free and growing realloc; buffers until memory is gone, and the frame buffer | 201 k | the pool stays tiled and the list without a cycle, NULL means nothing fits; frames have one owner, all accounted for, all mapped |
| heap_interrupted | a packet during malloc | | **violated**: `HeldDisjoint` (finding) |
| vfs | all paths of up to 8 characters; three directories and two files under every limit, mounts in any order | 78 k | paths, tree and mounts, lookup, refusals |
| vfs_double_mount | a directory mounted twice | | **violated**: `MountedOnce` (finding) |
| stdio_streams | two FILEs on two files | 102 k | descriptors owned, FileStore implemented |
| screen | boot's log and the terminal, with keys at any moment; then keys and clicks while the desktop comes up, and after | 439 k | devices get the log once and in order, the screen shows the text, a key has one listener; the folder shown, one cursor, the screen shows the window |
| files_opened | 15 WAV files played by the card, 12 object files linked at several places | 30 k | order, no write under the card, whole clip, every clip ends; linked as the linker would, or refused for a reason |
| devices | the PCI scan of three machines while frames arrive | 145 k | frames in order and once, ARP answered, drivers called, frames served, the scan ends |
| arp_reply | the target a reply names | | **violated**: `RepliesNameTheAsker` (finding) |
| input_streams | set-up under typing, then keys and packets in every order | 1,776 k | nothing stranded, characters as typed, the pointer follows |
| boot_loader | 432 floppies, three files each | 160 k | bytes right, pointer kept, nothing else written, calls end |

(Distinct states, rounded.)

What the less obvious properties say:

* `RunqueueCircle`: the list is a circle with every created task, between any
  two stores of a push. `pick_next` loops over it inside the handler, so a list
  that is not one hangs the machine.
* `LockHeldByRunning`: the increment of the lock is a load and a store with
  interrupts on. It is sound only because a tick cannot leave a context that
  holds the lock; the invariant states just that.
* `KernelMainAbandoned`: the bootstrap task is never queued, so the first tick
  that finds a task takes the CPU from `kernel_main` for good, in the middle of
  `task_create` too. A task half created then stays so.
* `RoundRobinScheduling` is the refinement of RoundRobin, in which the turn goes
  round a ring and past the dead: a dead task never runs again, and every task
  that was created and stays alive gets the CPU.
* `FramesAccountedFor`: a failed `dma_alloc` gives back what it took, no more; and
  first fit never sees a hole, so the "not contiguous" error (allocator.cpp:88)
  cannot happen to the drivers' calls.
* `TreeSound`: mounts may come in any order, one above another and again at the
  same path. The first one recorded for a path is the one found there (mounts of
  equal length do not replace each other, vfs.cpp:140).
* `CreatedIsFound`: a node that `vfs_create` returned is found at its normal path,
  the name as `vfs_create` cuts it (vfs.cpp:209), by the next call, and under the
  client's own spelling if that repeats no slash, fits the buffer and was not cut.
  A path where a directory is mounted is excepted: a node can be created there
  once another mount covers the first, and is then hidden (see 8).
* `NothingStranded`: the controller interrupts once per byte. A byte whose
  interrupt went to nobody blocks both devices for good.
* `LogComplete`: `flush` logs what it reads while the capture is still on, and its
  buffer may end inside a message; each device is still given every message once
  and in order, and the file keeps all.
* `ScreenShowsText`: stated until a backspace at the start of a line, which moves
  the cursor to the last column (graphics.cpp:165), one that no line reaches.
* `OneListener`: a key is heard by the terminal or by the window system, never by
  both, and none is heard by the terminal after the window system heard one.
* `PlaysWholeClip`: a clip is heard from the first byte of the data chunk to its
  last whole frame, wherever the end falls in a fragment and the ring; and only a
  file with a padded chunk before its data is refused without a reason.
* `NeverWritesPlaying`: no fragment is written while the card plays it.
* `LinksOrRefuses`: each word of the linked image is what relocating the file's
  own words by the final places of its sections gives; a refusal has one of the
  reasons `RefusedForAReason` lists.
* `RingInStep`: each frame is taken as it was received, once and in order. It is
  about the card's first lap, since behind it the two sides wrap at different
  places (rtl8139.cpp:111), and not about frames that come before `copyNIC`.
* `AnswersArp`: of the frames received, as many as the handler had turns for have
  been answered if they were requests, each in its order and to the host that
  asked (the Ethernet address saved at arp.cpp:21). The frames merged into a
  pending interrupt have no turn of their own. Stated, like `RingInStep`, for the
  first lap and for a card set up before its first frame. What the answer says is
  `RepliesNameTheAsker`.
* `InterruptsServed`: a frame that raised an interrupt is taken as it was received
  some time later, though bits are set again while the handler runs: `Served`
  counts frames taken that equal those received, not turns of the handler. Only
  merged frames may stay, one for each. Not so once the two sides are
  `OutOfStep`: behind the first lap, or when a frame was taken with an old record
  of the card.
* `ScanEnds`: traffic cannot hold `kernel_main` for ever, unless a frame arrives
  before `copyNIC` (`Stuck`).
* `LoadEnds`: every call of the loader ends. Driver and controller out of step
  end in a wait for the other direction, so this is what finds it.
* `KernelGetsPointer`: the pointer to `read_file` is stored in the last bytes of
  the FAT buffer, after the FAT was last read.
* `ShowsFolder`: every row of the window names what a click on it takes, always;
  and path, list, selection and picture agree after any input. `readDirectory`
  (explorer.cpp:90) stops at the first name it has no memory for and shows what
  it has, so the list may be a beginning of the folder's (`listed = "short"`).
  Where it returns nothing the path has changed and the list has not (`"not"`);
  then only the rows are asked for, until a folder is listed again.
* `PointerFollows`: every packet that did not overflow is heard, in order and with
  its buttons, and the pointer is where the user moved it. The user's movements
  are the nine-bit numbers a PS/2 mouse sends, with their signs in the first
  byte. mouse.cpp:104-105 take the second and third byte as signed chars, so the
  places are compared up to the first movement beyond -128 .. 127, which turns
  the pointer about (see 8).
* `ScreenShowsWindow`: the first composite can be torn by a callback and may
  leave a stale pixel, and so may a `bufferSize` of 0; after the next redraw by
  a callback nothing of that is left.

The violations:

* `heap_interrupted`: between the scan that finds a block and the store that
  unlinks it the block is still on the list; the packet handler's `malloc` is
  given the same block (stdlib.cpp:61-80, rtl8139.cpp:107).
* `vfs_double_mount`: a comment forbids a second mount on a directory
  (vfs.cpp:99). The lookup before it (96) already goes through the first mount, so
  line 100 tests the mounted root, not the directory: the second mount is
  recorded, takes a slot of the table and is never found.
* `arp_reply`: "Set destination MAC address, IP address" (arp.cpp:37) copies them
  from the source fields that were just overwritten with this machine's, not from
  the sender's saved at 21-22: the reply reaches the asker, but names this machine
  as its target.

## 4. Bounds, and why they are enough

* Tasking: 4 slots, 3 stacks. Two tasks on the ring and a third being pushed is
  the least that distinguishes the head, the tail and a middle; the table is full
  with all three. `MCCreators` lets kernel_main and one task create tasks.
* Heap: 12 bytes, headers of 2, requests of 1 to 3: four blocks at most, a
  remainder smaller than, equal to and larger than a header.
* PhysMemory: 10 frames, 7 of them free, tables of 2 entries: buffers of 3 pages
  straddle two tables, neighbours share one, and memory runs out at every point
  of a call, a page table's included. The frame buffer shares its table with
  nothing or with a buffer. `MAX_PAGES <= LFB_PHYS`.
* Vfs: path buffers of 7, names of 3, paths of up to 8 characters over `a`, `b`,
  `/`: every buffer is exceeded by one or more. Pools of 3 and 2, 2 and 1 slots,
  3 mounts: each limit is met alone. Clients use `/a`, `/a/b`, `b/` and `//abb`,
  whose name is cut to two letters, and mount at `/a` and `/a/b` in any order
  and repeatedly.
* Stdio: 2 descriptors, files of 3 bytes, writes of 1 and 2 bytes: the end of the
  room falls inside a write. FILEs and names are symmetric.
* Console: a screen of 4 columns and 3 lines (10 pixel rows, characters of 2, 1
  between lines, so that a part of a line is left over), a text buffer of 12, 3
  messages of 3 characters with their newline and a log buffer of 7: the screen
  scrolls, the buffer fills, the log buffer ends inside the third message. 2
  callbacks; 3 keys of 5 kinds (a letter, newline, backspace, one that draws
  nothing, one that is dropped) at any moment.
* Input: `MAX_INPUTS` = 6: two whole packets and keys between their bytes, or
  shift, a key and their releases around a packet. A packet is a movement right
  and down with a button, one left and up whose bytes look like first bytes, one
  that overflowed, or a movement of 200.
* LoadedFiles: a ring of 5 fragments of 4 frames where the code has 32; clips of
  nothing, half a fragment, exactly the ring, one frame more, and two rings and a
  bit, at ratios of 1, 2 and 4; nine files to refuse. `LATE` = 3 fragments pass
  during one handler; two clips one after the other. Object files of 8 sections
  with several relocations of one word, three good and nine that each miss one
  thing, opened twice, at 2 places of the buffer and 2 of what is allocated;
  words modulo 64.
* Devices: a ring of 20 bytes where the driver wraps at 40, frames of 4 lengths
  that pad differently, 2 descriptors (the third answer uses the first again), 3
  arrivals, 3 calls of the driver; machines with sound and network in one device
  and on one line, with a host bridge of several functions, and without one.
* Loader: sectors of 4 bytes, tracks of 4 sectors on 2 sides, FATs of up to 3
  buffered sectors: a 12-bit entry straddles two sectors, a file ends at and
  before a cluster's end, a read runs on over the end of a track.
* Desktop: `EARLY` = 2 inputs before the desktop is up (a selection and a folder
  opened, or one in the first composite and one in the first copy), one failing allocation, that of a path, a list or any
  name in it, paths of 3 names, 3 rows; the
  tree is that of kernel_main without two of its five root entries.

## 5. Fairness

* Tasking: `WF(Tick)`, for the timer keeps firing, and `WF` of each context's way
  through `task_exit` once it has begun. No task has to exit, nobody has to
  create one. Without another READY task `ExitYields` promises nothing: then the
  dead task keeps the CPU, as the code does.
* LoadedFiles: `WF` of the card, of the reader and caller inside `play_wav` and of
  the handler's steps; nobody has to open a file.
* Devices: `WF` of `kernel_main` and of the handler, for the CPU executes the one
  or the other; no frame has to arrive.
* Loader: `WF(Next)`: it is one thread over a controller that answers. The
  time-outs of the driver are not needed then, and not modelled.

The other specifications state safety only.

## 6. The proofs

All theorems are proved for every value of the constants that satisfies the
module's assumption.

**TaskingProofs** (`SchedulerInvariant`, and from it `TypeCorrect`,
`LockExclusion`, `StackExclusion`, `KernelMainNeverResumes`; `QueueNeverBreaks`;
`TasksGoRound`). Assumptions:
`TaskingAssumption`, and `OneSpawner`, that at most one task besides kernel_main
creates tasks. It is needed: `task_alloc` tests and sets `g_task_used` in two
steps, and two creators that interleave get one slot. The properties are not
inductive: that no two tasks share a stack depends on what a half-finished
creation may still do to a slot. `SchedulerInv` adds

* `PointersToBuilt`: only slots with a finished frame are pointed to, so a tick
  never switches to a task without a stack;
* `BootPhases`: while kernel_main runs no task has run, and afterwards no
  `saved_esp` but the bootstrap task's is kernel_main's stack;
* `CreationsPrivate`: the slot of a creation that can still go on is in nobody
  else's hands; kernel_main's unfinished creation may be left out of this once
  another context runs, for it never goes on;
* `FreshStacks`: a stack not yet started is in no frame but the one being built.

One lemma per action shows that it is preserved (`TickPreserves`,
`ClaimSlotPreserves`, ..., `TaskExitPreserves`); `TickDoes` first reduces the
handler to what the invariant needs to know of it.

`RunqueueCircle` needs `QueueInv` on top: the circle, which at one store of the
first push has no next yet (`OneCircle`, the last conjuncts of `QueueInv`), and
what a push that can still go on relies on (`QueuePrivate`: its task is outside
the circle until the store that links it in). The lemmas about the least closed
set (`FromFacts`, `StoreOutside`, `LinkedIn`, `TailMoved`) are about any function
`next`; each store of a push is one use of one of them.

`TasksGoRound` is the safety of the refinement: under the mapping of
TaskingRefinement each step of Tasking is a step of RoundRobin or a stutter. So
the turn only ever moves along the ring to the next task that is alive, and a
dead task never gets it. `RingInv` says that the circle of next pointers is the
ring, before the first task included (`RingShape`, `BeforeFirst`), that the
current task and the dead ones are on it, and that nobody but the current task is
RUNNING. A step of a push leaves the ring or puts one task in (`RingOutcome`);
`PickRotates` shows that what `pick_next` returns, whose loop is a closed set of
slots, is the first task alive behind the turn (`Wrapped`). That each task
gets its turn is the fairness part of RoundRobin and stays with TLC.

**HeapProofs** (`HeapInvariant`, and from it `PoolStaysTiled`, `NullMeansNoneFits`
and `HeldNeverOverlap`). Assumption: `HeapAssumption`; the theorems are about
`Spec`, for with interrupts `HeldDisjoint` is false (run `heap_interrupted`).
`HeapInv` says that there is a list of blocks behind `free_list`, and a place in
it, such that

* the headers link the list and it has no cycle (`Listed`);
* the blocks on the list, in use and on their way (`Loose`: being freed, or just
  cut off another) lie one behind the other and fill the pool (`Tiled`), and no
  block is two of these (`Apart`);
* malloc stands at that place, and the blocks before it are too small
  (`Looking`);
* a split has written the tail's header inside the block that it has not cut yet
  (`Split`).

One lemma per load or store; `InsertChain`, `RemoveChain` and `TilesCut` carry
the lists and the arithmetic. The free list of the properties is `FreeWalk`, a
recursive function; `WalkIs` shows that it steps along the list, from the
existence of a solution of its equation (`Unfold`) and the least counterexample
(`Least`).

**PhysMemoryProofs** (`OwnershipInvariant`, and from it `OneOwner` and
`BuffersKeepMapping`; `AccountInvariant`, and from it `FramesStayAccounted`). Assumption: `PhysMemoryAssumption`. `OwnershipInv` says
where calls place their pages (`Placed`) and, as long as no page table had to be
created without a frame (`~TableAtNull`), that tables, buffers and the running
call hold different, marked frames and every finished page is mapped. The proof
needs the arithmetic of directory and table indices (`Addressing`,
`SplitUnique`) and of the alignment (`Rounding`); `NullStays` shows that the
exception, once it happened, lasts, so that the step lemma may assume its
absence after the step. Theorems and run are about `Spec`, the drivers' calls.

That the bitmap equals ownership holds only between calls, so `AccountInv` says it
inside them: the frames in use are those with an owner and those the running call
has taken. For the step that rolls back it adds `RunOnTop`: nobody else has the
call's frames, and nothing in use lies above them. Unlike the other two theorems
of PhysMemory it needs no `~TableAtNull`: frame 0 is in use from the start.

**StdioProofs** (`StreamsTyped`, `DescriptorsStayOwned`, `SizesStayTogether`,
`StreamsAreFiles`). Assumption: `StdioAssumption`. `TypeOK /\ DescriptorsOwned` is
inductive, and each half needs the other: a call finds its descriptor's file only
because the descriptor is owned, and the descriptor stays owned only because the
call's results are in range. One lemma per call; `MovePreserves` serves `fseek`,
`fread` and `fwrite`. This holds for every mode, "w" included.

`StreamsAreFiles` is the refinement of FileStore, under `"w" \notin Modes`: the
kernel opens with "r" and "a" only, and with "w" it is false (see 8). The mapping
(`Contents`, `Handles` in Stdio) takes a file's room up to its size, and an open
FILE to its file and place. One lemma per call (`OpenMaps`, `ReadMaps`, ...) shows
that it maps to the abstract call with the same result or to a stutter. The
mapping needs `FilesInv`: the two records of a file's size agree (`SizesAgree`,
one is the descriptor's, the other ramfs's), and no FILE stands behind its file's
end (`PlacesInFile`).

The same module has what is proved about Console, under `ConsoleAssumption`,
`LogAssumption` and `TerminalAssumption`.

*Callbacks* (`ListenerInvariant`, `KeysHaveOneListener`). `OneListener` is not
inductive: it does not say why the terminal's callback is gone when the window
system's comes. `ListenerInv` says at which steps of `kernel_main` each callback
may be in the table (`TerminalRegistered`, `WindowRegistered`), that the
terminal's is in one slot, under the id that `terminal_delete` removes, and that
what was heard was pressed before (`HeardPressed`).

*The log* (`LogInvariant`, `LogIsComplete`). `LogInv` says what `kernel_main` has
done (`LogPhases`); that before the flush the file spells exactly what was logged
and no device heard of it (`Captured`); and that afterwards the devices have the
messages, in order and all if the buffer holds them, and the file keeps them,
whatever `flush` appends to it by logging what it reads (`Kept`). The places of
whole messages in the file stay where they are (`SpelledAt`) though `flush` may
cut a message; the lemmas before it are about texts that are put together and cut.

*The terminal* (`ScreenInvariant`, `ScreenShowsItsText`). As long as no backspace
has come at the start of a line, `ScreenInv` says that the pixels are the picture
of the last lines of the text buffer that fit, and that the cursor stands behind
the last. `Lines` is a recursive function of the text; the proof follows it one
character at a time (`LinesMore`) and, for a backspace, back again
(`EndingTaken`). The rest is the arithmetic of rows: a row of pixels is a line
and a part of it (`RowSplit`), writing a character paints the rows of one line
(`PictureOfMore`), scrolling moves all of them up by a line's height
(`PictureScrolled`).

**InputProofs** (`InputInvariant`, and from it `InputNeverStranded`,
`CharactersAsTyped`, `PointerFollowsMouse`). Hypothesis `UserWaits`: what the run
assumes of the user during set-up, as upper bounds of `Typing` and `Moving`;
outside it the properties are false, see 8. The number of inputs, keys and moves
are arbitrary, and so are a packet's bytes but for bit 3 of the first. That what
`SignedChar` makes of a byte is the movement of nine bits, sign included, is
shown where the movement fits. `InputInv` is

* `ControllerInv`: what set-up has made of the controller (`Configured`), that a
  byte in the output buffer has its interrupt still to come or `kernel_main` is
  about to read it (`BytesAnnounced`), and that what `kernel_main` waits for is an
  answer on its way (`Answers`, `ConfigAnswered`);
* `KeysOnTheWay` and `MovesOnTheWay`: the bytes in the buffer and in the queues,
  fed to the decoders, lead them to all keys and moves of the user. `Leads` says
  it by the states passed on the way, so that a byte taken from one end of a
  queue, or an input appended at the other, is one step of it.

*The network card and the scan* are in the same module, as three invariants of
`ScanSpec`, each for every set of frames, number of descriptors and size of ring.

* `NetworkInvariant` is `NetTypes /\ AnswerInv`. `Counted` says that a frame
  received is handled, merged into an interrupt already pending, or the one whose
  interrupt is still to come. `Sending` says that no answer waits in a descriptor
  and the driver's next descriptor is the card's, so that one answer leaves for
  each request; `Learning` follows the ARP entry through the three stores of
  `initalize`. With `FramesTakenInOrder` below, by which what was handled is what
  was received, `RequestsAreAnswered`.
* `RingInvariant` is `RingInv`: `Buffers`, which of the buffers allocated the card
  and the driver use at each step of RTL8139_TEST, and `Places`, where the frames of the
  first lap begin and that the card's write pointer, its read pointer and the
  driver's pointer stand behind the last frame received and the last handled. The
  arithmetic of the card's free space is in `RoomInRing`: a frame that is let in
  never reaches one not handled yet. From it `FramesTakenInOrder`. It needs what
  `NetworkAssumption` says of the sizes: a frame is shorter than the ring (1.5 KiB
  against 8), and the driver does not wrap before the card does (16 KiB).
* `ScanInvariant` is `ScanInv`: a function the scan has left was called once per
  row (`ScanPlaces`), a driver called has its handler in a slot or is about to
  (`CalledInstalled`), and no driver is twice on a line (`TableTypes`). From it
  `ScanFindsThemAll`. Hypothesis `LinesConnected`: the cards' lines exist and have
  a slot for each of the two drivers; else irq_install_handler drops the handler
  without a word. TLC evaluates the hypothesis for the run's machines.

**LoadedFilesProofs** (`SoundInvariant`, and from it `CardKeepsItsFragment` and
`ClipPlaysInOrder`). Hypothesis `KernelWaits`: the caller is kernel_main, which
frees the file only after the clip (with the file manager both are false, see 8),
and `LATE + 2 =< RING`. The second is the exact deadline for the order: with one fragment
more TLC finds a clip out of order. `SoundInv`
measures places of the ring from the fragment behind the last valid one (`Rear`,
`Pos`), where the card comes last: `HandlerBehind` bounds how far the card is
ahead of what the handler has seen by how late the handler is, `QueueInOrder` says
that the fragments the card has still to play follow each other in the clip, and
that the refill goes on behind them. The file's chunks are arbitrary; `ClipRead`
is what is left of them once a clip is found.

**DesktopProofs** (`DesktopInvariant`, and from it `ListShowsFolder`,
`CursorIsOne`, `RedrawnWindowShows`). Assumption: `DesktopAssumption`, which asks
that every folder of the tree fits the window and has an entry. `DesktopInv` adds
to the properties where the start of the desktop is (`BootOrder`: which callback
is registered at which statement) and that every list fits and is drawn row by
row (`ListDrawn`), which carries a failed listing and a short one. `ReadFits` and
`EnterSound` are about the list `readDirectory` returns, whichever name it had no
memory for; only at the root can it be empty, for elsewhere it begins with "..".

*The tree* of Vfs is in the same module (`TreeInvariant`, `TreeStaysSound`).
`TreeInv` says that a node's parent is a directory that lists it (`Parents`),
that the names of a directory differ (`NamesDiffer`), that no directory has more
entries than slots (`SlotsKept`), that no node used is lost (`NoneLost`), and that
the mount table and the nodes' field agree (`MountTable`); two mounts may have one
path, and the proof shows that the first is found. `NoneLost` is said of closed sets: each
set that has the root and, with a directory, its entries has every node; that the
property's recursive walk comes to the same set is shown by counting directories. Depth and limits are arbitrary.

*Lookups* (`FindInvariant`, `RefusalsHaveReasons`, `CreatedUnlessMounted`,
`KernelFindsCreated`). `vfs_create` and `vfs_find` take a path apart by different
code. The proof shows that they agree: to look up a path is to look up its
directory and go one step more (`NameFound`), and a lookup that passes none of
the changed slots stays as it was (`FindStays`). `CreateOutcome` carries what the
last call found. There is no hypothesis about clients: spellings, names that are
cut (`Made`; `vfs_find` refuses what `vfs_create` cuts) and mounts are arbitrary,
and the exceptions are in the property itself. `KernelFindsCreated` is about a
kernel that mounts "/" only, as kernel_main does: there the exception for mounted
paths is gone.

**LoaderProofs** (`LoaderInvariant`, and from it `CallsWriteTheirFile` and
`PointerReachesKernel`). Assumptions: `FloppyAssumption`, `LoaderAssumption`; the
directory, the FAT and the chains are arbitrary, chains in a circle included.
`LoaderInv` says where each port transfer still to come may store (`Aimed`,
`ScriptAimed`), that what is read and what remains make up the file (`InStep`),
and that no transfer is left when the pointer is stored (`PointerKept`): the FAT
buffer ends in the cell of the pointer, so the proof needs that a FAT which fits
the buffer is the only one read.

Every inductive invariant was checked by TLC on the run of its module before it
was proved.

Only model-checked: all liveness, for it needs fairness and ENABLED, RoundRobin's
included; the two parsers against their reference definitions (`WalksItsNames`),
the linker (`LinksOrRefuses`) and the bytes of a loaded file (`LoadsFile`), whose
references are folds over data. Of Devices that is `InterruptsServed` and
`ScanEnds`.

## 7. Assumptions, and what is not modelled

*The machine.* The build is g++ without optimisation (the loader -Os), 32 bit,
run under QEMU. One processor; loads and stores of words are atomic.

*Tasking.* `pid` and the register contents of a frame are left out. Tasks do
nothing but create, exit and be preempted.

*PhysMemory.* `queryMemoryMap` finds its region; it lies in the bitmap. Handlers
do not allocate frames. What a device does with address 0 after a failed
`dma_alloc` (rtl8139.cpp:177) is outside.

*Vfs.* No mounted directory is deleted, nor one mounted over; kernel_main mounts
"/" only. `readdir`'s order and permissions are left out.

*Stdio.* The kernel opens with "r" and "a" and the run does the same; for "w" see
8. Elements are one byte long, and `malloc` gives `fopen` its FILE.

*Input.* Users do not type while `mouse_install` waits for the configuration
byte and do not move the mouse between command F4 and the installation of the
handler, see 8; the table of key callbacks is in Console, here it is one
callback that is registered; right shift and the fake shifts of extended keys
are left out; `mouse_read` does not time out on an answer that comes.

*Console.* Colours and the shapes of characters are left out; a colour escape is
one character that draws nothing. The terminal of a freed pointer is used as
`free` leaves it. What one step of the log gives the terminal is written in that
step, so keys fall between messages and not inside one.

*Audio and Wav.* At most `RING - 2` fragments are played during one handler. Not
modelled: AC97_INIT beyond its handler's installation, volume and rate registers,
the conversion of a sample's value, the clamps of the fragment size. What
`play_wav` reads through the 1 that stands for an error is not followed: that
state is reached (`play_error`, in the run too) and nothing is promised of it. What is heard after `kernel_main` has gone on to the desktop is not
composed with the desktop.

*Elf.* Sizes and places are in words; sections lie inside the file; names of
symbols are looked up in an empty table, as in the code.

*Network and Devices.* A frame's contents are the fields that decide what is done
with it; each is shorter than the ring. One bus.
Sending and looking up addresses on one's own account, which no code does, is
left out; so is `irq_remove_handler`, which nobody calls.

*Loader.* The controller is the emulated 82077: a seek ends at once, the first
main status read after a reset ends it, motor and rate do not matter, reads do
not fail. Names are compared whole; printing is left out; RESERVED is 1 where
the image has 18.

*Desktop.* Left out: the destructors and `WindowManager::remove` (nothing calls
them), glyphs, icons and colours; `.wav` and `.elf` files are opened in
LoadedFiles; every folder fits the window; the functions that lack a return
statement return what the unoptimised build returns.

*Not modelled at all.* The message box and the system calls (nothing uses them);
PIT, CMOS and time (calendar arithmetic is in the plan; `timer_wait` only waits);
the serial port (polled output without state, a device of the log here); the C
library's pure functions except those behind paths; boot sectors and mode switch
(straight-line code over the BIOS); memory map and PAT set-up; register frames
and PIC. Paging is not a mode that handlers run under, see 8. PROJECT.json lists
each with its reason.

## 8. Seen in the code

Met while modelling. The first group was tried: changing the constant, the
specification or the condition named makes TLC find it.

* Without `MountedAt` `CreatedIsFound` fails: after a mount at /a/b and then one
  at /a, `vfs_create` of /a/b goes through /a into what is mounted there and makes
  a node b, but `vfs_find` of /a/b ends at the earlier mount, whose path it is.
* Without `~far` `PointerFollows` fails: 200 pixels to the right are 56 to the
  left (mouse.cpp:104).
* Without its exceptions `ShowsFolder` fails (explorer.cpp:90, 335).
* With a second creating task `RunqueueCircle` fails (task_alloc,
  tasking.cpp:18).
* `ReallocSpec`: a shrinking `realloc` splits off a tail and loses it
  (stdlib.cpp:111); `PoolTiled` fails.
* With "w" in `Modes` `ImplementsFileStore` fails: stdio.cpp:50 clears one of the
  two sizes, the old bytes stay readable and the next write brings them back.
* With `config_wait` or `config_read` in `Typing`, or `install` in `Moving`,
  `NothingStranded` fails (mouse.cpp:178, 190).
* With `Opener = "FileManager"` `NeverWritesPlaying` and `PlaysInOrder` fail: the
  file manager frees the file's buffer as soon as `play_wav` returns
  (explorer.cpp:361-362), and a second clip fills the ring under the card. With
  `LATE` = 4, one less than the ring, `PlaysInOrder` fails.
* With `ApiSpec` a freed single page leaves a hole (`FramesAccountedFor` fails),
  `alloc_phys_pages` fails on it though memory is left, and its roll-back frees
  the frame behind the run, whoever owns it, and not the one it just took
  (allocator.cpp:88; `FramesHaveOneOwner` fails).
* Without `~crossed` `ScreenShowsText` fails: a backspace at the start of a line
  (graphics.cpp:165). Without the exceptions stated in them `RingInStep` (past the
  first lap, and before `copyNIC`), `AnswersArp`, `InterruptsServed` and `ScanEnds`
  fail (rtl8139.cpp:111, 188).
* Without `~TableAtNull` both frame invariants fail once memory is exhausted: the
  NULL of `alloc_phys_page` becomes a page table at address 0 (paging.cpp:89).
* Without the condition on repeated slashes `WalksItsNames` fails: a slash
  repeated right after a mount path, the root's included, is an empty component
  for `vfs_find` (vfs.cpp:180), though a comment says repeated slashes are
  skipped.

The second group was read, not run.

* Loader: success is printed whatever `read_file` returned (main.cpp:274, 286);
  the output register is restored from the main status register
  (floppy.cpp:125); `wait_ready` tests only one of its two bits, by precedence;
  `set_motor(0,0)` ends the boot, so the kernel's first read runs with the motor
  off, which QEMU does not mind.
* p-kernel.cpp:76: paging is off during a floppy read while interrupts are on.
* Input: a press of an arrow key is not delivered: kb.cpp:63 maps Up, but the
  prefix E0 of its code has bit 7 and counts as a release (44).
* Desktop: `.wav` and `.elf` files are opened below "/" whatever the folder
  (explorer.cpp:349, 374); the `.elf` branch does not test what `fopen` returned;
  ten entries draw past the surface (242). A root listed without memory for its
  first name is an empty list, from which no key or click leads on.
* wav.cpp: `read_wav_info` returns 1 for an error where callers test for NULL, and
  kernel_main goes on to play it (p-kernel.cpp:137); a
  signature of which one half is right passes (112).
* elf.cpp: a symbol whose value is -1 counts as an error (181); the blocks of
  zeroed sections are never freed.
* Network: `RCR_DEFAULT` configures a ring of 8 KiB, the driver wraps at 16 KiB
  (rtl8139.cpp:111); one packet is taken per interrupt; the wait for a descriptor
  never waits, by precedence (126); the ARP table's index never advances.
* PCI: a break on the wrong branch ends the loop over a multi-function host bridge
  (pci.cpp:281); the table has three rows with one name, so the card is set up
  three times and two sets of DMA buffers are lost.
* Terminal: it is deleted before its pointer is cleared and before the key
  callback is removed (graphics.cpp:243-249); a newline is appended without the
  bound that other characters have (179); a test of a `char` for 255 is never
  true (190).
* kb.cpp: a callback is stored before its id. logging.cpp:58: the test for a
  newline reads an uninitialised buffer. time.cpp:55-60: the day of the year
  lacks parentheses. string.cpp:100: `itoa` returns one static buffer to
  everyone.

## 9. The plan

Order: what runs concurrently and carries data first (scheduler, heap, frames),
then the file system that everything uses, then the devices with a life of
their own, then the composition. Done are the modules of section 2. Left:

1. *Paging as a mode*: handlers during `load_floppy` (p-kernel.cpp:76), composing
   Loader's calls with the addresses of PhysMemory.
2. *Calendar*: the arithmetic of time.cpp against a reference.
3. *Floppy reads that fail*, and what the loader then prints.
4. *Proofs*: `LinksOrRefuses` and `LoadsFile`, with their folds as recursive
   functions.

## 10. How to run it

    tlc -config MCTasking.cfg MCTasking      # likewise the other .cfg files
    tlapm TaskingProofs.tla
    tlapm HeapProofs.tla                     # likewise the other *Proofs.tla

MCHeap_irq.cfg is for Heap, MCVfs_mount.cfg for MCVfs and MCDevices_reply.cfg for
MCDevices; the others for the module they are named after. Each run takes about
two minutes at most, the proofs a few minutes.
