------------------------------- MODULE Floppy -------------------------------
(***************************************************************************)
(* The boot loader's floppy driver (boot/loader/floppy.cpp) and the        *)
(* controller it talks to.                                                 *)
(*                                                                         *)
(* Every function of the driver is a fixed sequence of transfers, each     *)
(* behind a wait for the controller: such a sequence is a script, and a    *)
(* call puts one into the variable script, from which Transfer takes one   *)
(* transfer after the other.  The controller collects the bytes of a       *)
(* command, executes it and offers its result.  A read does not stop at    *)
(* the sector: with MT set and no terminal count it goes on to the end of  *)
(* the other side's track, so that the driver's status bytes are further   *)
(* data and only the reset of drive_setup ends the command.                *)
(*                                                                         *)
(* The controller is the emulated 82077: a seek is done when the last byte *)
(* of its command arrives, the main status read after a reset ends it, and *)
(* neither the motor nor the data rate matters to a read.                  *)
(***************************************************************************)
EXTENDS Integers, Sequences

CONSTANTS
  SECTOR,  \* bytes of a sector, 512
  SPT,     \* diskinfo->max_sectors
  HEADS,   \* diskinfo->max_heads + 1
  Address  \* the memory the loader can reach

ASSUME FloppyAssumption ==
  /\ SECTOR \in Nat \ {0} /\ SPT \in Nat \ {0} /\ HEADS \in Nat \ {0}
  /\ Address \subseteq Nat
  /\ SECTOR * SPT > 7   \* seven bytes follow the sector on its track and the next

VARIABLES
  script,  \* the transfers left of the driver's call
  fdc,     \* the controller
  mem      \* each cell holds <<what, lba, index>>

SPECIFY == 3
READ_DATA == 6
RECALIBRATE == 7
SENSE_INTERRUPT == 8
SEEK == 15
VERSION == 16
CONFIGURE == 19
LOCK == 20 + 128
READ_MT_MFM == READ_DATA + 128 + 64

Out(v)   == [op |-> "out", v |-> v]
In       == [op |-> "in", v |-> 0]
Data(to) == [op |-> "data", v |-> to]
Reset    == [op |-> "reset", v |-> 0]

-----------------------------------------------------------------------------
(* The driver.                                                             *)

version   == <<Out(VERSION), In>>
configure == <<Out(CONFIGURE), Out(0), Out(64 + 16 + 8), Out(0)>>
lock      == <<Out(LOCK), In>>

specify == <<Out(SPECIFY), Out(8 * 16 + 15), Out(5 * 2 + 1)>>

sense_interrupt == <<Out(SENSE_INTERRUPT), In, In>>

recalibrate == <<Out(RECALIBRATE), Out(0)>> \o sense_interrupt

seek(cylinder, head) ==
  <<Out(SEEK), Out(head * 4), Out(cylinder)>> \o sense_interrupt

\* Mutant: trusts the status bytes to end the command.
drive_setup_no_reset == specify \o recalibrate \o recalibrate

\* The registers of drive_select (rate, motor, drive) take no part in a command.
drive_setup == <<Reset>> \o specify \o recalibrate \o recalibrate

read_floppy(cylinder, head, sector, buffer) ==
  seek(cylinder, head)
    \o <<Out(READ_MT_MFM), Out(head * 4), Out(cylinder), Out(head), Out(sector),
         Out(2), Out(SPT), Out(27), Out(255), Data(buffer)>>
    \o [i \in 1 .. 7 |-> In]

\* uint8_t cylinder, head and sector.
read_floppy_lba(lba, buffer) ==
  read_floppy((lba \div (HEADS * SPT)) % 256, ((lba % (HEADS * SPT)) \div SPT) % 256,
              ((lba % SPT) + 1) % 256, buffer)

init_floppy == version \o configure \o lock \o drive_setup

\* A sector is read, and the drive set up for the next command.
ReadSector(lba, buffer) == read_floppy_lba(lba, buffer) \o drive_setup

-----------------------------------------------------------------------------
(* The controller.                                                         *)

Idle == [phase |-> "command", cmd |-> <<>>, reply |-> 0, at |-> 0, left |-> 0,
         sought |-> FALSE, ndma |-> FALSE]

CommandLength(c) ==
  CASE c \in {VERSION, LOCK, SENSE_INTERRUPT} -> 1
    [] c = RECALIBRATE -> 2
    [] c \in {SPECIFY, SEEK} -> 3
    [] c = CONFIGURE -> 4
    [] c = READ_MT_MFM -> 9
    [] OTHER -> 1

Answers(n) == [fdc EXCEPT !.cmd = <<>>, !.phase = "result", !.reply = n, !.sought = FALSE]

\* All bytes of command cmd have come.
Execute(cmd) ==
  CASE Head(cmd) \in {VERSION, LOCK} -> Answers(1)
    [] Head(cmd) = SENSE_INTERRUPT -> Answers(IF fdc.sought THEN 2 ELSE 1)
    [] Head(cmd) \in {RECALIBRATE, SEEK} -> [fdc EXCEPT !.cmd = <<>>, !.sought = TRUE]
    [] Head(cmd) = CONFIGURE -> [fdc EXCEPT !.cmd = <<>>]
    [] Head(cmd) = SPECIFY -> [fdc EXCEPT !.cmd = <<>>, !.ndma = cmd[3] % 2 = 1]
    [] Head(cmd) = READ_MT_MFM ->
         [fdc EXCEPT !.cmd = <<>>, !.phase = "execute",
            !.at = SECTOR * ((cmd[3] * HEADS + cmd[4]) * SPT + cmd[5] - 1),
            !.left = SECTOR * ((SPT - cmd[5] + 1) + SPT)]
    [] OTHER -> Answers(1)   \* an unknown command

\* A byte comes; outside the command phase the controller ignores it.
Receive(v) ==
  IF fdc.phase # "command" THEN fdc
  ELSE LET cmd == Append(fdc.cmd, v)
       IN IF Len(cmd) = CommandLength(Head(cmd)) THEN Execute(cmd)
          ELSE [fdc EXCEPT !.cmd = cmd]

\* n bytes are fetched.
Supply(n) ==
  CASE fdc.phase = "execute" ->
         IF fdc.left <= n THEN [fdc EXCEPT !.phase = "result", !.left = 0, !.reply = 7]
         ELSE [fdc EXCEPT !.left = @ - n, !.at = @ + n]
    [] fdc.phase = "result" ->
         IF fdc.reply <= n THEN [fdc EXCEPT !.phase = "command", !.reply = 0]
         ELSE [fdc EXCEPT !.reply = @ - n]
    [] OTHER -> fdc

\* Byte i of the sector that the drive is at.
DiskByte(i) == <<"disk", (fdc.at + i) \div SECTOR, (fdc.at + i) % SECTOR>>

-----------------------------------------------------------------------------
FloppyInit ==
  /\ script = <<>> /\ fdc = Idle
  /\ mem = [a \in Address |-> <<"old", 0, 0>>]

\* The data loop waits for a controller that offers data without DMA.
CanTransfer(t) == t.op = "data" => fdc.phase = "execute" /\ fdc.ndma

Transfer ==
  /\ script # <<>> /\ CanTransfer(Head(script))
  /\ LET t == Head(script) IN
       /\ fdc' = CASE t.op = "out"   -> Receive(t.v)
                   [] t.op = "in"    -> Supply(1)
                   [] t.op = "data"  -> Supply(SECTOR)
                   [] t.op = "reset" -> Idle
       /\ mem' = IF t.op # "data" THEN mem
                 ELSE [a \in Address |-> IF a \in t.v .. t.v + SECTOR - 1
                                         THEN DiskByte(a - t.v) ELSE mem[a]]
  /\ script' = Tail(script)

=============================================================================
