------------------------------- MODULE Input -------------------------------
(***************************************************************************)
(* The keyboard and mouse drivers (dev/kb/kb.cpp, dev/mouse/mouse.cpp) with *)
(* the interrupt dispatch of dev/idt/irq.cpp, on a PS/2 controller.        *)
(*                                                                         *)
(* The controller has one output buffer for both devices.  It loads a byte *)
(* when the buffer is empty and then latches IRQ1 or IRQ12 once (the PIC   *)
(* is edge triggered): a byte that nobody reads for its interrupt stays,   *)
(* and neither device is heard again.  kernel_main runs KeyboardInit and   *)
(* mouse_install with interrupts on; a handler runs to completion between  *)
(* any two of its port accesses.                                           *)
(*                                                                         *)
(* Bytes are numbers, for their bits matter.  Characters are left out: a   *)
(* callback is given the scancode, from which key is looked up.            *)
(***************************************************************************)
EXTENDS Integers, Sequences

CONSTANTS
  Keys,       \* the keys pressed, of {"shift", "a", "up"}
  Packets,    \* the mouse packets sent, triples of bytes
  Typing,     \* the places of kernel_main at which the user presses keys
  Moving,     \* and those at which the mouse, once F4 has it report, moves
  MAX_INPUTS  \* bound on what the user does

Byte == 0 .. 255
Bit(b, n) == (b \div n) % 2 = 1          \* b & n, n a power of two
SignedChar(b) == IF b > 127 THEN b - 256 ELSE b

ASSUME InputAssumption ==
  /\ Keys \subseteq {"shift", "a", "up"}
  /\ Packets \subseteq {p \in Byte \X Byte \X Byte : Bit(p[1], 8)}
  /\ Moving \subseteq {"report_wait", "report_read", "install", "done"}
  /\ MAX_INPUTS \in Nat

VARIABLES
  obf, data, config, kbq, auxq, irr,  \* controller, its queues, latched IRQs
  handlers,                           \* irq_routines: the lines with a handler
  pc,                                 \* kernel_main
  shift_key, meta_mode,               \* kb.cpp
  mouse_cycle, mouse_packet, mouse_x, mouse_y,
  held, inputs, typed, moved,         \* the user: what was done, and
  keysSeen, movesSeen                 \* what the callbacks were given

ctl    == <<obf, data, config, kbq, auxq, irr>>
kbvars == <<shift_key, meta_mode, keysSeen>>
msvars == <<mouse_cycle, mouse_packet, mouse_x, mouse_y, movesSeen>>
user   == <<held, inputs, typed, moved>>
vars   == <<ctl, handlers, pc, kbvars, msvars, user>>

Steps == {"kb_reset", "kb_install", "flush_test", "flush_read", "ask",
          "config_wait", "config_read", "defaults", "defaults_wait",
          "defaults_read", "report", "report_wait", "report_read", "install",
          "done"}

\* The BIOS leaves IRQ1 on, the mouse's clock off (bit 5), and perhaps the
\* release of the key that chose to boot, its interrupt taken or not.
Init ==
  /\ config = 97 /\ kbq = <<>> /\ auxq = <<>>
  /\ data = 158  /\ obf \in {"empty", "kbd"}
  /\ irr \in SUBSET (IF obf = "kbd" THEN {1} ELSE {})
  /\ handlers = {} /\ pc = "kb_reset"
  /\ shift_key = FALSE /\ meta_mode = FALSE
  /\ mouse_cycle = 0 /\ mouse_packet = <<0, 0, 0>> /\ mouse_x = 0 /\ mouse_y = 0
  /\ held = {} /\ inputs = 0 /\ typed = <<>> /\ moved = <<>>
  /\ keysSeen = <<>> /\ movesSeen = <<>>

-----------------------------------------------------------------------------
(* The controller and the devices.                                         *)

LoadKbd ==
  /\ obf = "empty" /\ kbq # <<>>
  /\ obf' = "kbd" /\ data' = Head(kbq) /\ kbq' = Tail(kbq)
  /\ irr' = irr \cup (IF Bit(config, 1) THEN {1} ELSE {})
  /\ UNCHANGED <<config, auxq, handlers, pc, kbvars, msvars, user>>

LoadAux ==
  /\ obf = "empty" /\ auxq # <<>>
  /\ obf' = "aux" /\ data' = Head(auxq) /\ auxq' = Tail(auxq)
  /\ irr' = irr \cup (IF Bit(config, 2) THEN {12} ELSE {})
  /\ UNCHANGED <<config, kbq, handlers, pc, kbvars, msvars, user>>

\* What is read from an empty buffer is the byte that was read last.
ReadPort == obf' = "empty"

-----------------------------------------------------------------------------
(* The user.  Scancode set 1, without the keyboard's own shift codes around *)
(* an extended key: the prefix E0 (224), then the code.                    *)

Code     == [k \in {"shift", "a", "up"} |->
               CASE k = "shift" -> 42 [] k = "a" -> 30 [] k = "up" -> 72]
Extended == {"up"}
Sends(k, code) == IF k \in Extended THEN <<224, code>> ELSE <<code>>

May(places) == pc \in places /\ inputs < MAX_INPUTS /\ inputs' = inputs + 1

\* typed has the presses of all keys but shift.
Press(k) ==
  /\ May(Typing) /\ k \notin held
  /\ held' = held \cup {k}
  /\ kbq' = kbq \o Sends(k, Code[k])
  /\ typed' = IF k = "shift" THEN typed
              ELSE Append(typed, [code |-> Code[k], shift |-> "shift" \in held])
  /\ UNCHANGED <<obf, data, config, auxq, irr, handlers, pc, kbvars, msvars, moved>>

Release(k) ==
  /\ May(Typing) /\ k \in held
  /\ held' = held \ {k}
  /\ kbq' = kbq \o Sends(k, Code[k] + 128)
  /\ UNCHANGED <<obf, data, config, auxq, irr, handlers, pc, kbvars, msvars, typed, moved>>

AtLeastZero(n) == IF n < 0 THEN 0 ELSE n
Overflowed(p)  == Bit(p[1], 64) \/ Bit(p[1], 128)

\* A movement is a number of nine bits in two's complement, the sign of which is
\* in the first byte (16 and 32); upwards counts as positive.
Movement(p, byte, sign) == p[byte] - (IF Bit(p[1], sign) THEN 256 ELSE 0)
Right(p) == Movement(p, 2, 16)
Up(p)    == Movement(p, 3, 32)

\* What a signed char can hold.
Short(n) == n \in -128 .. 127

\* The mouse is moved.  Where the pointer should now be is the user's view: the
\* screen's edges stop it, and y grows downwards.  far: some movement so far was
\* not short.
Move(p) ==
  /\ May(Moving)
  /\ auxq' = auxq \o p
  /\ moved' =
       LET at == IF moved = <<>> THEN [x |-> 0, y |-> 0, far |-> FALSE] ELSE moved[Len(moved)]
       IN  IF Overflowed(p) THEN moved
           ELSE Append(moved, [x |-> AtLeastZero(at.x + Right(p)),
                               y |-> AtLeastZero(at.y - Up(p)),
                               buttons |-> p[1] % 8,
                               far |-> at.far \/ ~Short(Right(p)) \/ ~Short(Up(p))])
  /\ UNCHANGED <<obf, data, config, kbq, irr, handlers, pc, kbvars, msvars, held, typed>>

-----------------------------------------------------------------------------
(* The handlers.                                                           *)

\* Scancodes for which keys[] holds a character; backspace and space are two.
Mapped == (2 .. 57) \ {29, 42, 54, 55, 56}
Arrows == {72, 75, 77, 80}

KeyEvent(code) ==
  /\ keysSeen' = IF code \in (IF meta_mode THEN Arrows ELSE Mapped)
                 THEN Append(keysSeen, [code |-> code, shift |-> shift_key])
                 ELSE keysSeen
  /\ meta_mode' = FALSE
  /\ UNCHANGED shift_key

\* Mutant: every release lets go of shift.
KeyboardHandlerAnyRelease ==
  /\ ReadPort
  /\ IF Bit(data, 128) THEN shift_key' = FALSE /\ UNCHANGED <<meta_mode, keysSeen>>
     ELSE IF data = 42 THEN shift_key' = TRUE /\ UNCHANGED <<meta_mode, keysSeen>>
     ELSE KeyEvent(data)

\* E0 (224) has the bit of a release, so that the test for it comes too late.
KeyboardHandler ==
  /\ ReadPort
  /\ IF Bit(data, 128)
     THEN shift_key' = (shift_key /\ data # 170) /\ UNCHANGED <<meta_mode, keysSeen>>
     ELSE IF data = 42  THEN shift_key' = TRUE /\ UNCHANGED <<meta_mode, keysSeen>>
     ELSE IF data = 224 THEN meta_mode' = TRUE /\ UNCHANGED <<shift_key, keysSeen>>
     ELSE KeyEvent(data)

\* The pointer moves, and the left and upper edges stop it.
MovePointer(p) ==
  LET x == AtLeastZero(mouse_x + SignedChar(p[2]))
      y == AtLeastZero(mouse_y - SignedChar(p[3]))
  IN  /\ mouse_x' = x /\ mouse_y' = y
      /\ movesSeen' = Append(movesSeen, [x |-> x, y |-> y, buttons |-> p[1] % 8])

\* Mutant: a packet that overflowed returns before the cycle starts anew.
PacketDoneStays ==
  LET p == [mouse_packet EXCEPT ![3] = data]
  IN  /\ mouse_packet' = p
      /\ IF p[1] >= 64 THEN UNCHANGED <<mouse_cycle, mouse_x, mouse_y, movesSeen>>
         ELSE mouse_cycle' = 0 /\ MovePointer(p)

\* The third byte; a packet that overflowed (bits 6 and 7) is dropped.
PacketDone ==
  LET p == [mouse_packet EXCEPT ![3] = data]
  IN  /\ mouse_packet' = p /\ mouse_cycle' = 0
      /\ IF p[1] >= 64 THEN UNCHANGED <<mouse_x, mouse_y, movesSeen>>
         ELSE MovePointer(p)

\* A byte of the mouse waits: take it into the packet.  A first byte without
\* bit 3 is none.
mouse_handler ==
  IF obf # "aux" THEN UNCHANGED <<obf, msvars>>
  ELSE /\ ReadPort
       /\ \/ /\ mouse_cycle = 0 /\ ~Bit(data, 8) /\ UNCHANGED msvars
          \/ /\ mouse_cycle = 0 /\ Bit(data, 8)
             /\ mouse_packet' = [mouse_packet EXCEPT ![1] = data] /\ mouse_cycle' = 1
             /\ UNCHANGED <<mouse_x, mouse_y, movesSeen>>
          \/ /\ mouse_cycle = 1
             /\ mouse_packet' = [mouse_packet EXCEPT ![2] = data] /\ mouse_cycle' = 2
             /\ UNCHANGED <<mouse_x, mouse_y, movesSeen>>
          \/ mouse_cycle = 2 /\ PacketDone

\* _irq_handler: a line without a handler is acknowledged all the same.
IRQ1 ==
  /\ 1 \in irr /\ irr' = irr \ {1}
  /\ IF 1 \in handlers THEN KeyboardHandler ELSE UNCHANGED <<obf, kbvars>>
  /\ UNCHANGED <<data, config, kbq, auxq, handlers, pc, msvars, user>>

IRQ12 ==
  /\ 12 \in irr /\ irr' = irr \ {12}
  /\ IF 12 \in handlers THEN mouse_handler ELSE UNCHANGED <<obf, msvars>>
  /\ UNCHANGED <<data, config, kbq, auxq, handlers, pc, kbvars, user>>

-----------------------------------------------------------------------------
(* kernel_main.  mouse_wait(1) is left out: the controller takes what it is *)
(* given.  mouse_wait(0) gives up only when nothing is on its way.         *)

Goto(from, to) == pc = from /\ pc' = to

Quiet == UNCHANGED <<kbvars, msvars, user>>

\* KeyboardInit reads what the boot left, then takes IRQ1.
resetKeyboard ==
  /\ Goto("kb_reset", "kb_install") /\ ReadPort
  /\ UNCHANGED <<data, config, kbq, auxq, irr, handlers>> /\ Quiet

\* irq_install_handler finds a free place on lines that have no handler yet.
Install(line, from, to) ==
  /\ Goto(from, to) /\ handlers' = handlers \cup {line}
  /\ UNCHANGED ctl /\ Quiet

FlushTest ==
  /\ Goto("flush_test", IF obf = "empty" THEN "ask" ELSE "flush_read")
  /\ UNCHANGED <<ctl, handlers>> /\ Quiet

\* A8: enable the mouse (bit 5 off).  20: the controller answers its byte.
AskConfig ==
  /\ Goto("ask", "config_wait")
  /\ config' = IF Bit(config, 32) THEN config - 32 ELSE config
  /\ kbq' = Append(kbq, config')
  /\ UNCHANGED <<obf, data, auxq, irr, handlers>> /\ Quiet

Arrived == obf # "empty" \/ (kbq = <<>> /\ auxq = <<>>)

Wait(from, to) ==
  /\ Goto(from, to) /\ Arrived
  /\ UNCHANGED <<ctl, handlers>> /\ Quiet

Read(from, to) ==
  /\ Goto(from, to) /\ ReadPort
  /\ UNCHANGED <<data, config, kbq, auxq, irr, handlers>> /\ Quiet

\* Bit 1 on, bit 5 off, and written back: IRQ12 is raised from now on.
WriteConfig ==
  /\ Goto("config_read", "defaults") /\ ReadPort
  /\ config' = LET on == IF Bit(data, 2) THEN data ELSE data + 2
               IN  IF Bit(on, 32) THEN on - 32 ELSE on
  /\ UNCHANGED <<data, kbq, auxq, irr, handlers>> /\ Quiet

\* Mutant: the answer to F4 is not read.
mouse_writeLast(from, to) ==
  /\ Goto(from, IF from = "report" THEN "install" ELSE to) /\ auxq' = Append(auxq, 250)
  /\ UNCHANGED <<obf, data, config, kbq, irr, handlers>> /\ Quiet

\* F6 and F4: the mouse answers FA.
mouse_write(from, to) ==
  /\ Goto(from, to) /\ auxq' = Append(auxq, 250)
  /\ UNCHANGED <<obf, data, config, kbq, irr, handlers>> /\ Quiet

mouse_install ==
  \/ FlushTest \/ Read("flush_read", "flush_test")
  \/ AskConfig \/ Wait("config_wait", "config_read") \/ WriteConfig
  \/ mouse_write("defaults", "defaults_wait")
  \/ Wait("defaults_wait", "defaults_read") \/ Read("defaults_read", "report")
  \/ mouse_write("report", "report_wait")
  \/ Wait("report_wait", "report_read") \/ Read("report_read", "install")
  \/ Install(12, "install", "done")

\* Interrupts are on: one that is latched is taken before the next instruction.
KernelMain ==
  /\ irr = {}
  /\ resetKeyboard \/ Install(1, "kb_install", "flush_test") \/ mouse_install

Next ==
  \/ LoadKbd \/ LoadAux \/ IRQ1 \/ IRQ12 \/ KernelMain
  \/ \E k \in Keys : Press(k) \/ Release(k)
  \/ \E p \in Packets : Move(p)

Spec == Init /\ [][Next]_vars

-----------------------------------------------------------------------------
(* Properties.                                                             *)

\* All that was sent has been taken from the controller and handled.
AllHandled == kbq = <<>> /\ auxq = <<>> /\ obf = "empty" /\ irr = {}

\* No byte is stranded: what is in the controller's only buffer has its
\* interrupt still to come, handler installed, or mouse_install is about to
\* read it.  Otherwise neither the keyboard nor the mouse is heard again.
NothingStranded ==
  pc = "done" => /\ obf = "kbd" => 1 \in irr
                 /\ obf = "aux" => 12 \in irr
                 /\ handlers = {1, 12} /\ Bit(config, 1) /\ Bit(config, 2)

CharacterKeys(events) ==
  LET kept[n \in 0 .. Len(events)] ==
        IF n = 0 THEN <<>>
        ELSE IF events[n].code \in Mapped THEN Append(kept[n - 1], events[n]) ELSE kept[n - 1]
  IN  kept[Len(events)]

\* Characters are as typed: once everything is handled the callbacks were
\* given every press of a character key, in order, with shift as it was held
\* then, and no release, prefix, or byte of the mouse or the controller.
KeysAsTyped == AllHandled => CharacterKeys(keysSeen) = CharacterKeys(typed)

Follows(seen, m) == seen.buttons = m.buttons /\ (~m.far => seen.x = m.x /\ seen.y = m.y)

\* The pointer follows the mouse: the callbacks are given the packets that did
\* not overflow, each once and in order, with the buttons as they were, and
\* packets stay aligned whatever their bytes and however they alternate with the
\* keyboard's.  The places are those the user moved to, up to the first movement
\* of more than a signed char holds, whose sign mouse.cpp:104 does not look up
\* in the first byte; mouse_get_x and mouse_get_y say what the last callback said.
PointerFollows ==
  AllHandled =>
    /\ mouse_cycle = 0 /\ Len(movesSeen) = Len(moved)
    /\ \A i \in DOMAIN moved : Follows(movesSeen[i], moved[i])
    /\ moved # <<>> => LET last == movesSeen[Len(moved)]
                       IN  mouse_x = last.x /\ mouse_y = last.y
=============================================================================
