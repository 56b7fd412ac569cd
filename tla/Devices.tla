------------------------------ MODULE Devices ------------------------------
(***************************************************************************)
(* The scan of the PCI bus (dev/pci/pci.cpp), which kernel_main runs with  *)
(* interrupts on, composed with the driver whose interrupts arrive while   *)
(* the scan goes on.                                                       *)
(*                                                                         *)
(* A machine is the functions of bus 0: a partial function from slot and   *)
(* function number to the name the driver table gives the device, the      *)
(* multifunction bit of its header and its interrupt line.                 *)
(***************************************************************************)
EXTENDS Network

CONSTANTS
  SLOTS, FUNCTIONS, \* slots of a bus; functions of a device
  Machines          \* the machines the kernel may find itself on

ASSUME DevicesAssumption ==
  /\ SLOTS \in Nat \ {0} /\ FUNCTIONS \in Nat \ {0}
  /\ \A m \in Machines : DOMAIN m \subseteq (0 .. SLOTS - 1) \X (0 .. FUNCTIONS - 1)

\* pci_devices, by name: checkFunction calls the driver of every row whose name
\* is the device's.
pci_devices == <<"RTL8139", "RTL8139", "RTL8139", "AC97", "VBE">>
Rows(name)  == Cardinality({i \in DOMAIN pci_devices : pci_devices[i] = name})

VARIABLES
  machine,
  slot, function, \* where the scan is; slot = SLOTS at its end
  calls           \* how often a driver was called for each function

scan == <<slot, function, calls>>
scanvars == <<netvars, machine, scan>>

Here         == <<slot, function>>
Present(s, f) == <<s, f>> \in DOMAIN machine

\* The header of a function that is not there reads as all ones.
Multi(s) == Present(s, 0) => machine[<<s, 0>>].multi

\* checkAllBuses: with a host bridge of several functions the loop over them
\* ends at the first one that exists, before its bus is scanned.
Buses == IF ~Multi(0) THEN {0}
            ELSE {b \in 0 .. FUNCTIONS - 1 : \A f \in 0 .. b : ~Present(0, f)}

ScanInit ==
  /\ machine \in Machines
  /\ slot = (IF 0 \in Buses THEN 0 ELSE SLOTS) /\ function = 0
  /\ calls = [d \in DOMAIN machine |-> 0]
  /\ NetInit

-----------------------------------------------------------------------------

Scanning == slot < SLOTS /\ init = "idle" /\ irq = "none" /\ ~Line

Unfinished == Present(slot, function) /\ calls[Here] < Rows(machine[Here].name)

\* The driver function of the next row with the device's name.
CallDriver ==
  /\ Scanning /\ Unfinished
  /\ calls' = [calls EXCEPT ![Here] = @ + 1]
  /\ CASE machine[Here].name = "RTL8139" -> init' = "reset" /\ UNCHANGED irq_routines
       [] machine[Here].name = "AC97" ->
            irq_install_handler(machine[Here].line, "AC97_IRQ_HANDLER") /\ UNCHANGED init
       [] OTHER -> UNCHANGED <<init, irq_routines>>
  /\ UNCHANGED <<card, rings, NICDevice, arp, handler, fresh, arrivals, ghosts, machine,
                 slot, function>>

\* checkDevice and checkBus: functions 1 to 7 are looked at only behind a
\* function 0 whose header has the multifunction bit.
Advances ==
  /\ Scanning /\ ~Unfinished
  /\ IF Present(slot, 0) /\ Multi(slot) /\ function < FUNCTIONS - 1
     THEN function' = function + 1 /\ UNCHANGED slot
     ELSE function' = 0 /\ slot' = slot + 1
  /\ UNCHANGED <<netvars, machine, calls>>

checkAllBuses == (RTL8139_TEST /\ UNCHANGED <<machine, scan>>) \/ CallDriver \/ Advances
Handler    == RTL8139_HANDLER /\ UNCHANGED <<machine, scan>>
Arrival    == \E f \in Frames : Arrive(f) /\ UNCHANGED <<machine, scan>>

ScanNext == checkAllBuses \/ Handler \/ Arrival

\* The CPU executes kernel_main, and the handler when the line is asserted;
\* no frame has to arrive.
Fairness == WF_scanvars(checkAllBuses) /\ WF_scanvars(Handler)

ScanSpec == ScanInit /\ [][ScanNext]_scanvars /\ Fairness

-----------------------------------------------------------------------------
(* Properties.                                                             *)

\* The bytes the first n frames take in the ring.
Bytes(frames) ==
  LET b[n \in 0 .. Len(frames)] == IF n = 0 THEN 0 ELSE b[n - 1] + Padded(frames[n].len)
  IN  b

\* The frames whose header the card wrote before it came round its ring.
FirstLap == {i \in DOMAIN received : Bytes(received)[i - 1] < RING}

\* The frames the card stored that the handler has had its turns for.
Taken == SubSeq(received, 1, Len(handled))

\* Who is to get an answer to the first n frames, and who got one.
AnswersTo(frames) ==
  LET w[n \in 0 .. Len(frames)] ==
        IF n = 0 THEN <<>>
        ELSE IF IsMine(frames[n]) THEN Append(w[n - 1], frames[n].from) ELSE w[n - 1]
  IN  w
Recipients(answers) == [i \in DOMAIN answers |-> answers[i].to]

\* Whom the ARP table names after these frames.
LastHeard(frames) ==
  LET heard == {i \in DOMAIN frames : frames[i].type = "ARP"}
  IN  IF heard = {} THEN Broadcast ELSE frames[Max(heard)].from

\* The driver takes the frames of the card's first lap as they were received,
\* each once and in order, however the two interleave; unless a frame was taken
\* after RTL8139_TEST enabled the card and before copyNIC was done, when the
\* old record of the card was used (rtl8139.cpp:188).  Behind the first lap the
\* two rings have different sizes.
RingInStep ==
  "copyNIC" \notin early =>
    \A i \in DOMAIN handled \cap FirstLap : handled[i] = received[i]

\* Of the frames received, n turns of the handler have dealt with the first n:
\* one answer has been sent for every ARP request for this machine among them, to
\* the host that asked and in the order of the requests, whatever descriptors
\* the answers use; and the ARP table's entry is whole and names who was heard
\* last (arp.cpp:61).  So on the card's first lap and without a frame during the
\* set-up; a frame merged into the interrupt of another waits for a later turn.
\* What an answer says is not part of this.
AnswersArp ==
  early = {} /\ DOMAIN handled \subseteq FirstLap =>
    /\ Recipients(wire) = AnswersTo(Taken)[Len(Taken)]
    /\ init = "idle" /\ fresh > 0 =>
         arp_table = [ip |-> LastHeard(Taken), mac |-> LastHeard(Taken)]

\* "Set destination MAC address, IP address" (arp.cpp:37): an ARP reply names as
\* its target the host it is sent to.
RepliesNameTheAsker == \A i \in DOMAIN wire : wire[i].target = wire[i].to

\* What a board must be for every handler to find a slot: the lines of its cards
\* exist, and a line has room for both drivers.
LinesConnected ==
  /\ IRQ_MAX_HANDLERS >= 2 /\ NULL \notin {"RTL8139_HANDLER", "AC97_IRQ_HANDLER"} /\ irq_valid(LINE)
  /\ \A m \in Machines : \A d \in DOMAIN m : m[d].name = "AC97" => irq_valid(m[d].line)

\* Each device that was found has its drivers called once a row, and its
\* handler is in one slot of its line however often its driver was called.
ScanFindsAll ==
  slot = SLOTS /\ 0 \in Buses =>
    \A d \in DOMAIN machine :
      d[2] = 0 \/ (Present(d[1], 0) /\ Multi(d[1])) =>
        /\ calls[d] = Rows(machine[d].name)
        /\ machine[d].name = "RTL8139" =>
             Cardinality({i \in Slots : irq_routines[LINE][i] = "RTL8139_HANDLER"}) = 1
        /\ machine[d].name = "AC97" => Installed(machine[d].line, "AC97_IRQ_HANDLER")

\* As many frames as raised an interrupt have been taken as they were received
\* some time later (or the card has been reset), unless they came before the
\* handler could take them: only the frames merged into an interrupt already
\* pending may stay in the ring, one for each.  Not so once the driver's read
\* pointer and the card's write pointer mean different places: when a frame was
\* taken from the old record of the card, and behind the card's first lap.
Served    == Cardinality({i \in DOMAIN handled \cap DOMAIN received : handled[i] = received[i]})
Unserved  == Len(received) - merged > Served
OutOfStep == "copyNIC" \in early \/ ~(DOMAIN received \subseteq FirstLap)
InterruptsServed == Unserved ~> ~Unserved \/ Stuck \/ OutOfStep

\* kernel_main gets to the end of the scan under any traffic that ends, unless
\* a frame arrives in the first RTL8139_TEST before copyNIC (rtl8139.cpp:189):
\* nobody then silences the line.
ScanEnds == <>(slot = SLOTS \/ Stuck)
=============================================================================
