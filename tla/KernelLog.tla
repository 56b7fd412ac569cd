----------------------------- MODULE KernelLog -----------------------------
(***************************************************************************)
(* The log of std/logging.cpp as kernel_main uses it: messages logged      *)
(* while it captures go to /kmsglog; once the devices are there, flush     *)
(* plays the file back to them and ends the capture.                       *)
(*                                                                         *)
(* A text is a sequence of characters: a message is two of them, "head"    *)
(* and "tail", so that a buffer may end inside it.  The file is a sequence *)
(* (FileStore), and opening it succeeds.  Both buffers of logging.cpp come *)
(* from malloc uncleared and get no NUL: what strlen finds in them is left *)
(* open.                                                                   *)
(***************************************************************************)
EXTENDS Naturals, Sequences, SequencesExt, FiniteSets

CONSTANTS
  Messages,
  Devices,     \* the LogDevices, each added once
  LOG_BUFFER,  \* characters flush reads of the file
  MaxLogs      \* bound on the calls of log

ASSUME LogAssumption == IsFiniteSet(Devices) /\ LOG_BUFFER \in Nat /\ MaxLogs \in Nat

VARIABLES
  capturing,
  kmsglog,    \* the file, NULL while fopen has not created it
  head,       \* the list of devices, the latest first
  got,        \* the characters each device was given
  logged      \* the messages log was called with

logvars == <<capturing, kmsglog, head, got, logged>>

Newline == <<"newline", "head">>
Garbage == <<"garbage", "head">>
MessageText(m) == << <<m, "head">>, <<m, "tail">> >>

LogInit ==
  /\ capturing = FALSE
  /\ kmsglog = <<>>
  /\ head = <<>>
  /\ got = [d \in Devices |-> <<>>]
  /\ logged = <<>>

propagate(text) ==
  got' = [d \in Devices |-> IF Contains(head, d) THEN got[d] \o text ELSE got[d]]

\* Mutant: the file is opened at its start.
Rewritten(text) == \E separator \in {<<>>, <<Newline>>} :
  LET new == separator \o text
  IN kmsglog' = new \o SubSeq(kmsglog, Len(new) + 1, Len(kmsglog))

\* The stream is at the end of the file, so fread reads nothing and the
\* buffer that is searched for a newline is as malloc left it.
Appended(text) == \E separator \in {<<>>, <<Newline>>} : kmsglog' = kmsglog \o separator \o text

write_log(text) ==
  /\ IF capturing THEN Appended(text) ELSE UNCHANGED kmsglog
  /\ propagate(text)

capture == capturing' = TRUE /\ UNCHANGED <<kmsglog, head, got, logged>>

log(m) ==
  /\ Len(logged) < MaxLogs
  /\ write_log(MessageText(m))
  /\ logged' = Append(logged, m)
  /\ UNCHANGED <<capturing, head>>

addLogDevice(d) ==
  /\ ~Contains(head, d)
  /\ head' = <<d>> \o head
  /\ UNCHANGED <<capturing, kmsglog, got, logged>>

Buffered(text) == SubSeq(text, 1, Min({Len(text), LOG_BUFFER}))

\* The buffer is passed on as a message while the capture still runs, with
\* whatever malloc left behind the text.  Without a file there is nothing.
flush ==
  /\ IF capturing /\ kmsglog # <<>>
     THEN \E behind \in {<<>>, <<Garbage>>} : write_log(Buffered(kmsglog) \o behind)
     ELSE UNCHANGED <<kmsglog, got>>
  /\ capturing' = FALSE
  /\ UNCHANGED <<head, logged>>

-----------------------------------------------------------------------------
\* kernel_main: it captures first, adds the devices after its last message
\* and flushes at once.  Nobody logs behind that: the one message of an
\* interrupt handler stands in a loop that never runs (rtl8139.cpp:126).
Flushed == ~capturing /\ Len(head) = Cardinality(Devices)

Capture   == ~capturing /\ logged = <<>> /\ head = <<>> /\ capture
LogEarly  == \E m \in Messages : capturing /\ head = <<>> /\ log(m)
AddDevice == \E d \in Devices : capturing /\ addLogDevice(d)
Flush     == capturing /\ Len(head) = Cardinality(Devices) /\ flush

-----------------------------------------------------------------------------
(* Properties                                                              *)

\* The messages a text holds whole, in order.
Whole(text) ==
  LET starts == {i \in 1 .. Len(text) - 1 : text[i] = <<text[i][1], "head">>
                                            /\ text[i + 1] = <<text[i][1], "tail">>}
  IN [n \in 1 .. Cardinality(starts) |->
        text[CHOOSE i \in starts : Cardinality({j \in starts : j <= i}) = n][1]]

\* Once the log is flushed, every device has been given every message once
\* and in the order of the calls, except that messages beyond the buffer are
\* lost from the end.
DeliveredOnce ==
  Flushed =>
    \A d \in Devices :
      \E n \in 0 .. Len(logged) :
        /\ Whole(got[d]) = SubSeq(logged, 1, n)
        /\ 3 * Len(logged) <= LOG_BUFFER => n = Len(logged)

\* The file keeps every message in the order of the calls, from its start,
\* though the flush adds to it what it reads of it.
FileKeepsAll ==
  LET whole == Whole(kmsglog)
  IN Len(whole) >= Len(logged) /\ SubSeq(whole, 1, Len(logged)) = logged

LogComplete == DeliveredOnce /\ FileKeepsAll
=============================================================================
