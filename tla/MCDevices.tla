----------------------------- MODULE MCDevices -----------------------------
(* Instances of Devices for TLC.                                           *)
EXTENDS Devices

Frame(type, op, target, from, len) ==
  [type |-> type, op |-> op, target |-> target, from |-> from, len |-> len]

\* Two askers, an answer, and one that is not ARP; of three lengths.
MCFrames == {Frame("ARP", "request", "me", "a", 5), Frame("ARP", "request", "me", "b", 1),
             Frame("ARP", "reply", "else", "c", 8), Frame("IPv4", "reply", "else", "a", 2)}

Dev(name, multi, line) == [name |-> name, multi |-> multi, line |-> line]
bridge == Dev("unknown", FALSE, 0)
card3  == Dev("RTL8139", FALSE, 1)

\* The sound card and the network card in one device and on one line; a host
\* bridge of several functions; no host bridge, and the card behind a function 0
\* that does not announce it.
MCMachines ==
  {(<<0, 0>> :> bridge) @@ (<<1, 0>> :> Dev("AC97", TRUE, 1)) @@ (<<1, 2>> :> card3),
   (<<0, 0>> :> Dev("unknown", TRUE, 0)) @@ (<<1, 0>> :> card3),
   (<<1, 0>> :> Dev("VBE", FALSE, 0)) @@ (<<1, 1>> :> card3)}

ASSUME MachinesConnected == LinesConnected
=============================================================================
