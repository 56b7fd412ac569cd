------------------------------ MODULE Network ------------------------------
(***************************************************************************)
(* The network driver (dev/pci/drivers/rtl8139.cpp), the ARP handling      *)
(* behind it (dev/net/arp.cpp) and the card.                               *)
(*                                                                         *)
(* The card stores the frames it receives one behind the other in a ring   *)
(* and asserts its line; the handler takes one frame, answers it if it is  *)
(* an ARP request for this machine, moves the read pointer and             *)
(* acknowledges the bits it saw.  Frames go on arriving meanwhile.  The    *)
(* line is level triggered: while it is asserted and interrupts are on,    *)
(* kernel_main does not execute an instruction.                            *)
(*                                                                         *)
(* kernel_main runs RTL8139_TEST once for every row of the driver table    *)
(* with the card's name: the card is reset and given a new buffer while    *)
(* the handler of the last time stays installed.                           *)
(*                                                                         *)
(* Offsets and lengths are in bytes.  A frame is a record of the fields    *)
(* that decide what is done with it; len is the length the card writes     *)
(* into its header, checksum included.                                     *)
(***************************************************************************)
EXTENDS Irq, Sequences, FiniteSetsExt, SequencesExt

CONSTANTS
  RING,           \* the ring RCR_DEFAULT selects
  RX_BUFFER_SIZE, \* the ring as the driver sees it
  NDESC,          \* transmit descriptors (TSAD_array)
  Frames,         \* what may arrive: [type, op, target, from, len]
  Hosts,          \* who sends them
  Broadcast,      \* the address every host has
  LINE,           \* the card's interrupt line
  INITS,          \* bound on the number of buffers ever allocated
  ARRIVALS,       \* bound on the number of frames that arrive
  GarbageLengths  \* what a length may read as where there is no header

Aligned(n) == 4 * ((n + 3) \div 4)
Padded(n)  == Aligned(n + 4)   \* what a frame with its header takes

ASSUME NetworkAssumption ==
  /\ RING \in Nat \ {0} /\ RX_BUFFER_SIZE \in Nat /\ RING % 4 = 0
  /\ NDESC \in Nat \ {0} /\ INITS \in Nat /\ ARRIVALS \in Nat
  /\ Frames \subseteq [type : {"ARP", "IPv4", "other"}, op : {"request", "reply"},
                       target : {"me", "else"}, from : Hosts, len : Nat]
  /\ GarbageLengths \subseteq Nat
  /\ RING =< RX_BUFFER_SIZE /\ \A f \in Frames : Padded(f.len) < RING

VARIABLES
  on, isr,                   \* card: receiver enabled; ISR ("ROK", "TOK")
  cardbuf, wp, rp,           \* card: RBSTART, its write and read offsets
  desc, curr,                \* card: the descriptors filled; the one it sends next
  rings,                     \* the buffers: which frame's header is where
  NICDevice,                 \* the driver's record of the card
  arp_table, arp_table_size, \* (arp_table_curr never leaves 0)
  irq, status,               \* the handler and the bits it saw
  init, fresh,               \* RTL8139_TEST and the buffer it allocated
  arrivals,                  \* frames that arrived
  received, handled, wire,   \* since the reset: frames stored, handled and sent;
  merged, early              \*   those that raised no interrupt; the parts of
                             \*   RTL8139_TEST during which one was handled

card    == <<on, isr, cardbuf, wp, rp, desc, curr>>
arp     == <<arp_table, arp_table_size>>
handler == <<irq, status>>
booter  == <<init, fresh>>
ghosts  == <<received, handled, wire, merged, early>>
netvars == <<card, rings, NICDevice, arp, handler, booter, arrivals, ghosts, irq_routines>>

Nothing == [type |-> "garbage", len |-> 0]   \* no header here
Blank   == [o \in 0 .. RING - 1 |-> Nothing]

NetInit ==
  /\ on = FALSE /\ isr = {} /\ cardbuf = 0 /\ wp = 0 /\ rp = 0
  /\ desc = [d \in 0 .. NDESC - 1 |-> <<>>] /\ curr = 0
  /\ rings = [b \in 0 .. INITS |-> Blank]
  /\ NICDevice = [tx_current |-> 0, rx_buffer |-> 0, ioaddr |-> FALSE, current_packet_ptr |-> 0]
  /\ arp_table = [ip |-> "none", mac |-> "none"] /\ arp_table_size = 0
  /\ irq = "none" /\ status = {}
  /\ init = "idle" /\ fresh = 0
  /\ arrivals = 0 /\ received = <<>> /\ handled = <<>> /\ wire = <<>>
  /\ merged = 0 /\ early = {}
  /\ IrqInit

-----------------------------------------------------------------------------
(* The card.                                                               *)

\* A frame arrives and is stored, if there is room for it; a frame longer than
\* the rest of the ring is written on behind its end.  A frame that finds ROK
\* set raises no interrupt of its own.
Arrive(f) ==
  LET need == Padded(f.len)
      avail == (RING + rp - wp) % RING
  IN  /\ on /\ arrivals < ARRIVALS
      /\ avail = 0 \/ need < avail
      /\ arrivals' = arrivals + 1
      /\ rings' = [rings EXCEPT ![cardbuf] =
           [o \in 0 .. RING - 1 |-> IF o = wp THEN f
                                    ELSE IF o \in wp .. wp + need - 1 THEN Nothing ELSE @[o]]]
      /\ wp' = (wp + need) % RING
      /\ received' = Append(received, f)
      /\ merged' = IF "ROK" \in isr THEN merged + 1 ELSE merged
      /\ isr' = isr \cup {"ROK"}
      /\ UNCHANGED <<on, cardbuf, rp, desc, curr, NICDevice, arp, handler, booter,
                     handled, wire, early, irq_routines>>

\* The card sends what the descriptors hold from its current one on.
Sendable(d) == {k \in 0 .. NDESC : \A i \in 0 .. k - 1 : d[(curr + i) % NDESC] # <<>>}

Transmit(d) ==
  LET n == Max(Sendable(d))
  IN  /\ wire' = wire \o [i \in 1 .. n |-> d[(curr + i - 1) % NDESC][1]]
      /\ desc' = [i \in 0 .. NDESC - 1 |-> IF \E j \in 0 .. n - 1 : i = (curr + j) % NDESC
                                           THEN <<>> ELSE d[i]]
      /\ curr' = (curr + n) % NDESC
      /\ isr' = IF n > 0 THEN isr \cup {"TOK"} ELSE isr

-----------------------------------------------------------------------------
(* The handler.  Interrupts are off: only the card goes on meanwhile.      *)

\* Mutant: five descriptors.
NextDescriptorLate(t) == IF t + 1 > NDESC THEN 0 ELSE t + 1

NextDescriptor(t) == IF t + 1 > NDESC - 1 THEN 0 ELSE t + 1

\* ARP requests for this machine are answered: the frame goes to the host that
\* asked (saved at its start), but the reply's own target fields are filled from
\* the source fields it has already overwritten, and so name this machine.
IsMine(f) == f.type = "ARP" /\ f.op = "request" /\ f.target = "me"
Reply(f)  == [to |-> f.from, target |-> "me"]

RTL8139_SEND_PACKET(p) == Transmit([desc EXCEPT ![NICDevice.tx_current] = <<p>>])

\* Every frame's sender goes into the same entry: the index is never advanced.
Learn(f) ==
  IF f.type = "ARP"
  THEN /\ arp_table' = [ip |-> f.from, mac |-> f.from]
       /\ arp_table_size' = arp_table_size + (IF arp_table_size < 512 THEN 1 ELSE 0)
  ELSE UNCHANGED arp

ethernet_handle_packet(f) ==
  /\ Learn(f)
  /\ IF IsMine(f) THEN RTL8139_SEND_PACKET(Reply(f))
                  ELSE UNCHANGED <<wire, desc, curr, isr>>

\* Mutant: the length of the header is forgotten.
AdvanceNoHeader(p, len) ==
  LET q == Aligned(p + len) IN IF q > RX_BUFFER_SIZE THEN q - RX_BUFFER_SIZE ELSE q

Advance(p, len) ==
  LET q == Padded(p + len) IN IF q > RX_BUFFER_SIZE THEN q - RX_BUFFER_SIZE ELSE q

\* The frame where the driver looks for one.  Where it is not one, a length is
\* read all the same, and the frame taken to be of an unknown type.
Found == LET p == NICDevice.current_packet_ptr
         IN  IF p < RING /\ rings[NICDevice.rx_buffer][p] # Nothing
             THEN {rings[NICDevice.rx_buffer][p]}
             ELSE {[type |-> "garbage", len |-> n] : n \in GarbageLengths}

\* The card's line is asserted.
Line == on /\ isr # {}

\* Only an installed handler that knows the card's ports takes the interrupt;
\* otherwise the line stays asserted and the CPU is interrupted for ever.
Stuck == Line /\ ~(Installed(LINE, "RTL8139_HANDLER") /\ NICDevice.ioaddr)

During == CASE init = "idle" -> {}
            [] init \in {"arp_size", "arp_ip", "arp_mac"} -> {"initalize"}
            [] OTHER -> {"copyNIC"}

\* Mutant: when both bits are set, only the one for a frame sent is looked at.
EnterSentFirst ==
  /\ irq = "none" /\ Line /\ ~Stuck
  /\ status' = isr
  /\ irq' = IF "TOK" \in isr THEN "ack" ELSE "receive"
  /\ UNCHANGED <<card, rings, NICDevice, arp, booter, arrivals, ghosts, irq_routines>>

Enter ==
  /\ irq = "none" /\ Line /\ ~Stuck
  /\ status' = isr
  /\ irq' = IF "ROK" \in isr THEN "receive" ELSE "ack"
  /\ UNCHANGED <<card, rings, NICDevice, arp, booter, arrivals, ghosts, irq_routines>>

RTL8139_RECEIVE_PACKET ==
  \E f \in Found :
    LET p == Advance(NICDevice.current_packet_ptr, f.len)
    IN  /\ irq = "receive" /\ irq' = "ack"
        /\ ethernet_handle_packet(f)
        /\ handled' = Append(handled, f)
        /\ NICDevice' = [NICDevice EXCEPT !.current_packet_ptr = p,
                           !.tx_current = IF IsMine(f) THEN NextDescriptor(@) ELSE @]
        /\ rp' = p % RING
        /\ early' = early \cup During
        /\ UNCHANGED <<on, cardbuf, wp, rings, status, booter, arrivals, received,
                       merged, irq_routines>>

\* Mutant: a transmission is never acknowledged.
AcknowledgeReceived ==
  /\ irq = "ack" /\ irq' = "none"
  /\ isr' = isr \ (status \cap {"ROK"})
  /\ UNCHANGED <<on, cardbuf, wp, rp, desc, curr, rings, NICDevice, arp, status, booter,
                 arrivals, ghosts, irq_routines>>

\* Only the bits that were seen are acknowledged.
Acknowledge ==
  /\ irq = "ack" /\ irq' = "none"
  /\ isr' = isr \ status
  /\ UNCHANGED <<on, cardbuf, wp, rp, desc, curr, rings, NICDevice, arp, status, booter,
                 arrivals, ghosts, irq_routines>>

RTL8139_HANDLER == Enter \/ RTL8139_RECEIVE_PACKET \/ Acknowledge

-----------------------------------------------------------------------------
(* RTL8139_TEST, one step of kernel_main after the other.                  *)

Boot(from, to) == init = from /\ init' = to /\ irq = "none" /\ ~Line

\* A new buffer; the card is reset.  (What came before is history.)
Reset ==
  /\ Boot("reset", "enable") /\ fresh < INITS
  /\ fresh' = fresh + 1
  /\ on' = FALSE /\ isr' = {} /\ wp' = 0 /\ rp' = 0
  /\ desc' = [d \in 0 .. NDESC - 1 |-> <<>>] /\ curr' = 0
  /\ received' = <<>> /\ handled' = <<>> /\ wire' = <<>>
  /\ merged' = 0 /\ early' = {}
  /\ UNCHANGED <<cardbuf, rings, NICDevice, arp, handler, arrivals, irq_routines>>

Enable ==
  /\ Boot("enable", "install")
  /\ cardbuf' = fresh /\ on' = TRUE
  /\ UNCHANGED <<isr, wp, rp, desc, curr, rings, NICDevice, arp, handler, fresh, arrivals,
                 ghosts, irq_routines>>

InstallHandler ==
  /\ Boot("install", "copy_tx")
  /\ irq_install_handler(LINE, "RTL8139_HANDLER")
  /\ UNCHANGED <<card, rings, NICDevice, arp, handler, fresh, arrivals, ghosts>>

\* copyNIC, field by field in its order.  (The old buffer is not read again.)
Copy(from, to, nic) ==
  /\ Boot(from, to) /\ NICDevice' = nic
  /\ rings' = [b \in DOMAIN rings |-> IF b = nic.rx_buffer \/ b = fresh THEN rings[b] ELSE Blank]
  /\ UNCHANGED <<card, arp, handler, fresh, arrivals, ghosts, irq_routines>>

copyNIC ==
  \/ Copy("copy_tx", "copy_buffer", [NICDevice EXCEPT !.tx_current = 0])
  \/ Copy("copy_buffer", "copy_io", [NICDevice EXCEPT !.rx_buffer = fresh])
  \/ Copy("copy_io", "copy_ptr", [NICDevice EXCEPT !.ioaddr = TRUE])
  \/ Copy("copy_ptr", "arp_size", [NICDevice EXCEPT !.current_packet_ptr = 0])

\* AddressResolutionProtocol::initalize and the lookupAdd it ends with.
Entry(from, to, table, size) ==
  /\ Boot(from, to) /\ arp_table' = table /\ arp_table_size' = size
  /\ UNCHANGED <<card, rings, NICDevice, handler, fresh, arrivals, ghosts, irq_routines>>

initalize ==
  \/ Entry("arp_size", "arp_ip", arp_table, 0)
  \/ Entry("arp_ip", "arp_mac", [arp_table EXCEPT !.ip = Broadcast], arp_table_size)
  \/ Entry("arp_mac", "idle", [arp_table EXCEPT !.mac = Broadcast], arp_table_size + 1)

RTL8139_TEST == Reset \/ Enable \/ InstallHandler \/ copyNIC \/ initalize

=============================================================================
