---- MODULE InputProofs ----
EXTENDS Input, Devices, SequenceTheorems, FiniteSetTheorems, WellFoundedInduction, TLAPS

LEMMA Least ==
  ASSUME NEW T \in SUBSET Nat, T # {}
  PROVE  \E m \in T : \A n \in T : m =< n
<1>1. PICK m \in T : \A n \in T : <<n, m>> \notin OpToRel(<, Nat)
  BY NatLessThanWellFounded, WFMin, Zenon
<1>2. ASSUME NEW n \in T PROVE m =< n
  <2>1. <<n, m>> \notin {ss \in Nat \X Nat : ss[1] < ss[2]}
    BY <1>1 DEF OpToRel
  <2>2. n \in Nat /\ m \in Nat
    OBVIOUS
  <2>3. QED
    BY <2>1, <2>2
<1>3. QED
  BY <1>2

-----------------------------------------------------------------------------
(* CharacterKeys, one event at a time.                                     *)

Event == [code : Nat, shift : BOOLEAN]

KeptNext(k, e) == IF e.code \in Mapped THEN Append(k, e) ELSE k

\* What is kept of the first n events.
Keeps(events, f) ==
  /\ f \in [0 .. Len(events) -> Seq(Event)]
  /\ f[0] = <<>>
  /\ \A n \in 1 .. Len(events) : f[n] = KeptNext(f[n - 1], events[n])

LEMMA KeepsExists ==
  ASSUME NEW events \in Seq(Event)
  PROVE  \E f : Keeps(events, f)
<1> DEFINE Upto(m, f) == /\ f \in [0 .. m -> Seq(Event)]
                         /\ f[0] = <<>>
                         /\ \A n \in 1 .. m : f[n] = KeptNext(f[n - 1], events[n])
           Bad == {m \in 0 .. Len(events) : ~\E f : Upto(m, f)}
<1>1. ASSUME Bad # {} PROVE FALSE
  <2>1. PICK m \in Bad : \A n \in Bad : m =< n
    <3>1. Bad \in SUBSET Nat
      OBVIOUS
    <3> HIDE DEF Bad
    <3>2. QED
      BY <1>1, <3>1, Least
  <2>2. m \in 0 .. Len(events) /\ ~\E f : Upto(m, f)
    OBVIOUS
  <2>3. CASE m = 0
    <3>1. Upto(0, [n \in 0 .. 0 |-> <<>>])
      OBVIOUS
    <3>2. QED
      BY <2>2, <2>3, <3>1
  <2>4. CASE m # 0
    <3>1. m - 1 \in 0 .. Len(events) /\ ~(m =< m - 1) /\ m \in 1 .. Len(events)
      BY <2>2, <2>4
    <3>2. PICK f : Upto(m - 1, f)
      BY <2>1, <3>1
    <3> DEFINE g == [n \in 0 .. m |-> IF n = m THEN KeptNext(f[m - 1], events[m]) ELSE f[n]]
    <3>3. f[m - 1] \in Seq(Event) /\ events[m] \in Event
      BY <3>1, <3>2
    <3>4. KeptNext(f[m - 1], events[m]) \in Seq(Event)
      BY <3>3 DEF KeptNext
    <3>5. g \in [0 .. m -> Seq(Event)]
      BY <3>1, <3>2, <3>4
    <3>6. g[0] = <<>>
      BY <3>1, <3>2
    <3>7. ASSUME NEW n \in 1 .. m PROVE g[n] = KeptNext(g[n - 1], events[n])
      <4>1. g[n - 1] = f[n - 1]
        BY <3>1
      <4>2. n # m => n \in 1 .. m - 1
        BY <3>1
      <4>3. g[n] = IF n = m THEN KeptNext(f[m - 1], events[m]) ELSE f[n]
        BY <3>1
      <4> HIDE DEF g
      <4>4. QED
        BY <4>1, <4>2, <4>3, <3>2
    <3>8. Upto(m, g)
      BY <3>5, <3>6, <3>7
    <3>9. QED
      BY <2>2, <3>8
  <2>5. QED
    BY <2>3, <2>4
<1>2. Len(events) \in 0 .. Len(events)
  OBVIOUS
<1>3. PICK f : Upto(Len(events), f)
  BY <1>1, <1>2
<1>4. QED
  BY <1>3 DEF Keeps

LEMMA KeepsUnique ==
  ASSUME NEW events \in Seq(Event), NEW f, NEW g, NEW h \in Seq(Event), Keeps(events, f),
         g = [n \in 0 .. Len(h) |->
                IF n = 0 THEN <<>>
                ELSE IF h[n].code \in Mapped THEN Append(g[n - 1], h[n]) ELSE g[n - 1]],
         Len(h) =< Len(events),
         \A n \in 1 .. Len(h) : h[n] = events[n]
  PROVE  \A n \in 0 .. Len(h) : g[n] = f[n]
<1> DEFINE Bad == {m \in 0 .. Len(h) : g[m] # f[m]}
<1>1. ASSUME Bad # {} PROVE FALSE
  <2>1. PICK m \in Bad : \A n \in Bad : m =< n
    <3>1. Bad \in SUBSET Nat
      OBVIOUS
    <3> HIDE DEF Bad
    <3>2. QED
      BY <1>1, <3>1, Least
  <2>2. m \in 0 .. Len(h) /\ g[m] # f[m]
    OBVIOUS
  <2>3. CASE m = 0
    BY <2>2, <2>3 DEF Keeps
  <2>4. CASE m # 0
    <3>1. m - 1 \in 0 .. Len(h) /\ ~(m =< m - 1) /\ m \in 1 .. Len(h)
      BY <2>2, <2>4
    <3>2. g[m - 1] = f[m - 1]
      BY <2>1, <3>1
    <3>3. g[m] = IF h[m].code \in Mapped THEN Append(g[m - 1], h[m]) ELSE g[m - 1]
      BY <2>2, <2>4, Zenon
    <3>4. m \in 1 .. Len(events)
      BY <3>1
    <3>5. f[m] = KeptNext(f[m - 1], events[m])
      BY <3>4 DEF Keeps
    <3>6. QED
      BY <2>2, <3>1, <3>2, <3>3, <3>5 DEF KeptNext
  <2>5. QED
    BY <2>3, <2>4
<1>2. QED
  BY <1>1

\* The recursion equation of CharacterKeys has a solution, and it is kept.
LEMMA KeysAreKept ==
  ASSUME NEW events \in Seq(Event), NEW f, Keeps(events, f)
  PROVE  CharacterKeys(events) = f[Len(events)]
<1> DEFINE W == [n \in 0 .. Len(events) |-> f[n]]
<1>1. W = [n \in 0 .. Len(events) |->
             IF n = 0 THEN <<>>
             ELSE IF events[n].code \in Mapped THEN Append(W[n - 1], events[n]) ELSE W[n - 1]]
  <2>1. \A n \in 0 .. Len(events) :
          W[n] = IF n = 0 THEN <<>>
                 ELSE IF events[n].code \in Mapped THEN Append(W[n - 1], events[n]) ELSE W[n - 1]
    <3> SUFFICES ASSUME NEW n \in 0 .. Len(events), n # 0
                 PROVE  W[n] = IF events[n].code \in Mapped THEN Append(W[n - 1], events[n])
                               ELSE W[n - 1]
      BY DEF Keeps
    <3>1. n \in 1 .. Len(events) /\ n - 1 \in 0 .. Len(events)
      OBVIOUS
    <3>2. QED
      BY <3>1 DEF Keeps, KeptNext
  <2>2. QED
    BY <2>1, Zenon
<1> HIDE DEF W
<1>2. \E g : /\ g = [n \in 0 .. Len(events) |->
                   IF n = 0 THEN <<>>
                   ELSE IF events[n].code \in Mapped THEN Append(g[n - 1], events[n])
                        ELSE g[n - 1]]
             /\ CharacterKeys(events) = g[Len(events)]
  BY <1>1, Zenon DEF CharacterKeys
<1>3. \A n \in 1 .. Len(events) : events[n] = events[n]
  OBVIOUS
<1>4. Len(events) \in 0 .. Len(events) /\ Len(events) =< Len(events)
  OBVIOUS
<1>5. QED
  BY <1>2, <1>3, <1>4, KeepsUnique

LEMMA CharacterKeysEmpty == CharacterKeys(<<>>) = <<>>
<1> DEFINE none == <<>>
<1>1. none \in Seq(Event) /\ Len(none) = 0
  OBVIOUS
<1> HIDE DEF none
<1>2. PICK f : Keeps(none, f)
  BY <1>1, KeepsExists
<1>3. CharacterKeys(none) = f[Len(none)]
  BY <1>1, <1>2, KeysAreKept
<1>4. QED
  BY <1>1, <1>2, <1>3 DEF Keeps, none

LEMMA CharacterKeysAppend ==
  ASSUME NEW events \in Seq(Event), NEW e \in Event
  PROVE  /\ CharacterKeys(events) \in Seq(Event)
         /\ CharacterKeys(Append(events, e)) = KeptNext(CharacterKeys(events), e)
<1>1. PICK f : Keeps(events, f)
  BY KeepsExists
<1>2. CharacterKeys(events) = f[Len(events)]
  BY <1>1, KeysAreKept
<1>3. CharacterKeys(events) \in Seq(Event)
  BY <1>1, <1>2 DEF Keeps
<1> DEFINE more == Append(events, e)
           g == [n \in 0 .. Len(more) |-> IF n = Len(more) THEN KeptNext(f[Len(events)], e) ELSE f[n]]
<1>4. /\ more \in Seq(Event) /\ Len(more) = Len(events) + 1
      /\ \A n \in 1 .. Len(events) : more[n] = events[n]
      /\ more[Len(more)] = e
  OBVIOUS
<1> HIDE DEF more
<1>5. Keeps(more, g)
  <2>1. KeptNext(f[Len(events)], e) \in Seq(Event)
    BY <1>2, <1>3 DEF KeptNext
  <2>2. g \in [0 .. Len(more) -> Seq(Event)]
    BY <1>1, <1>4, <2>1 DEF Keeps
  <2>3. g[0] = <<>>
    BY <1>1, <1>4 DEF Keeps
  <2>4. ASSUME NEW n \in 1 .. Len(more) PROVE g[n] = KeptNext(g[n - 1], more[n])
    <3>1. g[n - 1] = f[n - 1]
      BY <1>4
    <3>2. CASE n = Len(more)
      BY <3>1, <3>2, <1>4
    <3>3. CASE n # Len(more)
      <4>1. n \in 1 .. Len(events)
        BY <3>3, <1>4
      <4>2. f[n] = KeptNext(f[n - 1], events[n])
        BY <1>1, <4>1 DEF Keeps
      <4>3. QED
        BY <3>1, <3>3, <4>1, <4>2, <1>4
    <3>4. QED
      BY <3>2, <3>3
  <2>5. QED
    BY <2>2, <2>3, <2>4 DEF Keeps
<1>6. CharacterKeys(more) = g[Len(more)]
  <2> HIDE DEF g
  <2>1. QED
    BY <1>4, <1>5, KeysAreKept
<1>7. QED
  BY <1>2, <1>3, <1>4, <1>6 DEF more

-----------------------------------------------------------------------------
(* What a queue of bytes will do to a handler's state.  step is a function *)
(* from a state of S and a byte to a state.                                *)

\* A handler in state s that takes the bytes one by one ends in state t.
Leads(S, step, s, bytes, t) ==
  \E f \in [0 .. Len(bytes) -> S] :
    /\ f[0] = s /\ f[Len(bytes)] = t
    /\ \A i \in 1 .. Len(bytes) : f[i] = step[<<f[i - 1], bytes[i]>>]

LEMMA LeadsNone ==
  ASSUME NEW S, NEW step, NEW s \in S, NEW t
  PROVE  Leads(S, step, s, <<>>, t) <=> s = t
<1> DEFINE none == <<>>
<1>1. Len(none) = 0 /\ 1 .. Len(none) = {}
  OBVIOUS
<1>2. ASSUME s = t PROVE \E f \in [0 .. 0 -> S] : f[0] = s /\ f[0] = t
  <2> DEFINE f == [i \in 0 .. 0 |-> s]
  <2>1. f \in [0 .. 0 -> S] /\ f[0] = s
    OBVIOUS
  <2> HIDE DEF f
  <2>2. QED
    BY <1>2, <2>1
<1> HIDE DEF none
<1>3. Leads(S, step, s, none, t) <=> s = t
  BY <1>1, <1>2 DEF Leads
<1>4. QED
  BY <1>3 DEF none

LEMMA LeadsHead ==
  ASSUME NEW S, NEW step, NEW s, NEW t, NEW bytes \in Seq(Byte), bytes # <<>>,
         Leads(S, step, s, bytes, t)
  PROVE  Leads(S, step, step[<<s, Head(bytes)>>], Tail(bytes), t)
<1>1. PICK f \in [0 .. Len(bytes) -> S] :
        /\ f[0] = s /\ f[Len(bytes)] = t
        /\ \A i \in 1 .. Len(bytes) : f[i] = step[<<f[i - 1], bytes[i]>>]
  BY DEF Leads
<1> DEFINE n == Len(bytes) - 1
           g == [i \in 0 .. n |-> f[i + 1]]
<1>2. /\ n \in Nat /\ Len(bytes) = n + 1 /\ Head(bytes) = bytes[1]
      /\ Len(Tail(bytes)) = n /\ \A i \in 1 .. n : Tail(bytes)[i] = bytes[i + 1]
  OBVIOUS
<1> HIDE DEF n
<1>3. g \in [0 .. n -> S]
  BY <1>1, <1>2
<1>4. g[0] = step[<<s, Head(bytes)>>] /\ g[n] = t
  BY <1>1, <1>2
<1>5. \A i \in 1 .. n : g[i] = step[<<g[i - 1], Tail(bytes)[i]>>]
  BY <1>1, <1>2
<1>6. QED
  BY <1>2, <1>3, <1>4, <1>5 DEF Leads

LEMMA LeadsAppend ==
  ASSUME NEW S, NEW step \in [S \X Byte -> S], NEW s, NEW t,
         NEW bytes \in Seq(Byte), NEW b \in Byte, Leads(S, step, s, bytes, t)
  PROVE  t \in S /\ Leads(S, step, s, Append(bytes, b), step[<<t, b>>])
<1>1. PICK f \in [0 .. Len(bytes) -> S] :
        /\ f[0] = s /\ f[Len(bytes)] = t
        /\ \A i \in 1 .. Len(bytes) : f[i] = step[<<f[i - 1], bytes[i]>>]
  BY DEF Leads
<1> DEFINE n == Len(bytes)
           more == Append(bytes, b)
           last == step[<<t, b>>]
           g == [i \in 0 .. n + 1 |-> IF i = n + 1 THEN last ELSE f[i]]
<1>2. /\ n \in Nat /\ Len(more) = n + 1 /\ more[n + 1] = b
      /\ \A i \in 1 .. n : more[i] = bytes[i]
  OBVIOUS
<1>3. t \in S
  BY <1>1, <1>2
<1>4. last \in S
  BY <1>3
<1> HIDE DEF n, more
<1>5. g \in [0 .. n + 1 -> S]
  BY <1>1, <1>2, <1>4 DEF n
<1>6. g[0] = s /\ g[n + 1] = last
  BY <1>1, <1>2
<1>7. ASSUME NEW i \in 1 .. n + 1 PROVE g[i] = step[<<g[i - 1], more[i]>>]
  <2>1. g[i - 1] = f[i - 1] /\ g[i] = IF i = n + 1 THEN last ELSE f[i]
    BY <1>2
  <2> HIDE DEF g, last
  <2>2. CASE i = n + 1
    <3>1. i - 1 = n
      BY <2>2, <1>2
    <3>2. f[i - 1] = t /\ more[i] = b
      BY <3>1, <2>2, <1>1, <1>2 DEF n
    <3>3. QED
      BY <2>1, <2>2, <3>2 DEF last
  <2>3. CASE i # n + 1
    <3>1. i \in 1 .. n
      BY <2>3, <1>2
    <3>2. f[i] = step[<<f[i - 1], bytes[i]>>] /\ more[i] = bytes[i]
      BY <3>1, <1>1, <1>2 DEF n
    <3>3. QED
      BY <2>1, <2>3, <3>2
  <2>4. QED
    BY <2>2, <2>3
<1>8. QED
  <2>1. \E h \in [0 .. Len(more) -> S] :
          /\ h[0] = s /\ h[Len(more)] = last
          /\ \A i \in 1 .. Len(more) : h[i] = step[<<h[i - 1], more[i]>>]
    <3> HIDE DEF g, last
    <3>1. QED
      BY <1>2, <1>5, <1>6, <1>7
  <2>2. QED
    BY <2>1, <1>3 DEF Leads, more

-----------------------------------------------------------------------------
(* What the two handlers make of a byte.                                   *)

KeyState == [shift : BOOLEAN, seen : Seq(Event)]

KeyAfter(s, b) ==
  [shift |-> IF b = 42 THEN TRUE ELSE s.shift /\ b # 170,
   seen  |-> IF b \in Mapped THEN Append(s.seen, [code |-> b, shift |-> s.shift]) ELSE s.seen]

KeyStep == [p \in KeyState \X Byte |-> KeyAfter(p[1], p[2])]

Packet == [1 .. 3 -> Byte]
Moved  == [x : Nat, y : Nat, buttons : Nat]
\* What the user's movement comes to.
Wanted == [x : Nat, y : Nat, buttons : Nat, far : BOOLEAN]
MouseState == [cycle : 0 .. 2, packet : Packet, x : Nat, y : Nat, seen : Seq(Moved)]

MouseAt(s, p) ==
  LET x == AtLeastZero(s.x + SignedChar(p[2]))
      y == AtLeastZero(s.y - SignedChar(p[3]))
  IN  [cycle |-> 0, packet |-> p, x |-> x, y |-> y,
       seen |-> Append(s.seen, [x |-> x, y |-> y, buttons |-> p[1] % 8])]

InPacket(s, c, p) == [cycle |-> c, packet |-> p, x |-> s.x, y |-> s.y, seen |-> s.seen]

MouseAfter(s, b) ==
  IF s.cycle = 0
    THEN IF Bit(b, 8) THEN InPacket(s, 1, [s.packet EXCEPT ![1] = b]) ELSE s
  ELSE IF s.cycle = 1
    THEN InPacket(s, 2, [s.packet EXCEPT ![2] = b])
  ELSE IF s.packet[1] >= 64
    THEN InPacket(s, 0, [s.packet EXCEPT ![3] = b])
  ELSE MouseAt(s, [s.packet EXCEPT ![3] = b])

MouseStep == [p \in MouseState \X Byte |-> MouseAfter(p[1], p[2])]

LEMMA KeyStepType ==
  /\ KeyStep \in [KeyState \X Byte -> KeyState]
  /\ \A s \in KeyState, b \in Byte : KeyStep[<<s, b>>] = KeyAfter(s, b)
<1>1. ASSUME NEW s \in KeyState, NEW b \in Byte PROVE KeyAfter(s, b) \in KeyState
  <2>1. b \in Nat /\ s.shift \in BOOLEAN /\ s.seen \in Seq(Event)
    BY DEF Byte, KeyState
  <2>2. [code |-> b, shift |-> s.shift] \in Event
    BY <2>1 DEF Event
  <2>3. Append(s.seen, [code |-> b, shift |-> s.shift]) \in Seq(Event)
    BY <2>1, <2>2
  <2>4. QED
    BY <2>1, <2>3 DEF KeyAfter, KeyState
<1>2. QED
  BY <1>1 DEF KeyStep

LEMMA MouseStepType ==
  /\ MouseStep \in [MouseState \X Byte -> MouseState]
  /\ \A s \in MouseState, b \in Byte : MouseStep[<<s, b>>] = MouseAfter(s, b)
<1>1. ASSUME NEW s \in MouseState, NEW b \in Byte PROVE MouseAfter(s, b) \in MouseState
  <2>1. /\ s.cycle \in 0 .. 2 /\ s.packet \in Packet /\ s.x \in Nat /\ s.y \in Nat
        /\ s.seen \in Seq(Moved)
    BY DEF MouseState
  <2>2. \A k \in 1 .. 3 : [s.packet EXCEPT ![k] = b] \in Packet
    BY <2>1 DEF Packet
  <2>3. ASSUME NEW p \in Packet PROVE MouseAt(s, p) \in MouseState
    <3>1. p[1] \in Byte /\ p[2] \in Byte /\ p[3] \in Byte
      BY DEF Packet
    <3>2. SignedChar(p[2]) \in Int /\ SignedChar(p[3]) \in Int
      BY <3>1 DEF SignedChar, Byte
    <3>3. AtLeastZero(s.x + SignedChar(p[2])) \in Nat /\ AtLeastZero(s.y - SignedChar(p[3])) \in Nat
      BY <3>2, <2>1 DEF AtLeastZero
    <3>4. p[1] % 8 \in Nat
      BY <3>1 DEF Byte
    <3>5. ASSUME NEW x \in Nat, NEW y \in Nat, NEW n \in Nat
          PROVE  Append(s.seen, [x |-> x, y |-> y, buttons |-> n]) \in Seq(Moved)
      <4>1. [x |-> x, y |-> y, buttons |-> n] \in Moved
        BY DEF Moved
      <4>2. QED
        BY <4>1, <2>1
    <3>6. QED
      BY <3>3, <3>4, <3>5 DEF MouseAt, MouseState
  <2>4. ASSUME NEW c \in 0 .. 2, NEW p \in Packet
        PROVE  InPacket(s, c, p) \in MouseState
    BY <2>1 DEF MouseState, InPacket
  <2> DEFINE p1 == [s.packet EXCEPT ![1] = b]
             p2 == [s.packet EXCEPT ![2] = b]
             p3 == [s.packet EXCEPT ![3] = b]
             first == InPacket(s, 1, p1)
             second == InPacket(s, 2, p2)
             dropped == InPacket(s, 0, p3)
  <2>9. p1 \in Packet /\ p2 \in Packet /\ p3 \in Packet /\ 0 \in 0 .. 2 /\ 1 \in 0 .. 2 /\ 2 \in 0 .. 2
    BY <2>2
  <2>10. first \in MouseState /\ second \in MouseState /\ dropped \in MouseState
    <3> HIDE DEF p1, p2, p3
    <3>1. QED
      BY <2>4, <2>9
  <2>11. MouseAt(s, p3) \in MouseState
    BY <2>3, <2>9
  <2>5. CASE s.cycle = 0
    <3>1. MouseAfter(s, b) = IF Bit(b, 8) THEN first ELSE s
      BY <2>5 DEF MouseAfter
    <3>2. QED
      BY <2>10, <3>1
  <2>6. CASE s.cycle = 1
    <3>1. MouseAfter(s, b) = second
      BY <2>6 DEF MouseAfter
    <3>2. QED
      BY <2>10, <3>1
  <2>7. CASE s.cycle = 2
    <3>1. MouseAfter(s, b) =
            IF s.packet[1] >= 64
            THEN dropped
            ELSE MouseAt(s, p3)
      BY <2>7 DEF MouseAfter
    <3>2. QED
      BY <2>10, <2>11, <3>1
  <2>8. QED
    BY <2>1, <2>5, <2>6, <2>7
<1>2. QED
  BY <1>1 DEF MouseStep

-----------------------------------------------------------------------------
(* The inductive invariant, for a user who waits with the keys while       *)
(* kernel_main waits for the controller's answer, and with the mouse until *)
(* its driver is there.                                                    *)

Booting == {"kb_reset", "kb_install"}

UserWaits ==
  /\ Typing \subseteq Steps \ {"kb_reset", "kb_install", "config_wait", "config_read"}
  /\ Moving \subseteq {"done"}

InputTypes ==
  /\ obf \in {"empty", "kbd", "aux"} /\ data \in Byte
  /\ kbq \in Seq(Byte) /\ auxq \in Seq(Byte) /\ irr \subseteq {1, 12}
  /\ pc \in Steps \ {"flush_read"}
  /\ shift_key \in BOOLEAN /\ meta_mode = FALSE
  /\ mouse_cycle \in 0 .. 2 /\ mouse_packet \in Packet
  /\ mouse_x \in Nat /\ mouse_y \in Nat
  /\ held \subseteq Keys
  /\ typed \in Seq(Event) /\ keysSeen \in Seq(Event)
  /\ moved \in Seq(Wanted) /\ movesSeen \in Seq(Moved)

\* What mouse_install has made of the controller so far.
Configured ==
  /\ config = IF pc \in Booting \cup {"flush_test", "ask"} THEN 97
              ELSE IF pc \in {"config_wait", "config_read"} THEN 65 ELSE 67
  /\ handlers = IF pc \in Booting THEN {} ELSE IF pc = "done" THEN {1, 12} ELSE {1}

\* A byte in the controller has its interrupt to come, but for what the boot
\* left there and an answer of the mouse, which mouse_install reads.
BytesAnnounced ==
  /\ pc \in Booting => kbq = <<>> /\ obf # "aux"
  /\ pc = "kb_install" => obf = "empty" /\ irr = {}
  /\ pc \notin Booting => (obf = "kbd" <=> 1 \in irr)
  /\ 12 \in irr => obf = "aux"
  /\ pc = "done" /\ obf = "aux" => 12 \in irr

\* The mouse says nothing but one answer to each of its two commands.
Answers ==
  /\ pc \notin {"defaults_wait", "defaults_read", "report_wait", "report_read", "done"} =>
       obf # "aux" /\ auxq = <<>>
  /\ pc \in {"defaults_wait", "report_wait"} =>
       (obf = "aux" => auxq = <<>>) /\ (obf # "aux" => auxq = <<250>>)
  /\ pc \in {"defaults_read", "report_read"} => obf = "aux" /\ auxq = <<>>

\* The controller's answer is the last byte that comes while it is waited for.
ConfigAnswered ==
  /\ pc = "config_wait" => 65 = IF kbq = <<>> THEN data ELSE kbq[Len(kbq)]
  /\ pc = "config_read" => kbq = <<>> /\ obf = "empty" /\ data = 65

\* The bytes on their way lead the keyboard's handler to what was typed.
KeyNow    == [shift |-> shift_key, seen |-> CharacterKeys(keysSeen)]
KeyGoal   == [shift |-> "shift" \in held, seen |-> CharacterKeys(typed)]
KeysOnTheWay ==
  IF pc \in Booting THEN KeyNow = KeyGoal
  ELSE Leads(KeyState, KeyStep, IF obf = "kbd" THEN KeyAfter(KeyNow, data) ELSE KeyNow,
             kbq, KeyGoal)

\* The bytes on their way lead the mouse's handler to where the user moved it.
MouseNow == [cycle |-> mouse_cycle, packet |-> mouse_packet, x |-> mouse_x, y |-> mouse_y,
             seen |-> movesSeen]
MouseGoal(s) ==
  /\ s.cycle = 0 /\ Len(s.seen) = Len(moved)
  /\ \A i \in DOMAIN moved : Follows(s.seen[i], moved[i])
  /\ s.x = (IF s.seen = <<>> THEN 0 ELSE s.seen[Len(s.seen)].x)
  /\ s.y = (IF s.seen = <<>> THEN 0 ELSE s.seen[Len(s.seen)].y)
MovesOnTheWay ==
  IF pc = "done"
  THEN \E s \in MouseState :
         /\ MouseGoal(s)
         /\ Leads(MouseState, MouseStep,
                  IF obf = "aux" THEN MouseAfter(MouseNow, data) ELSE MouseNow, auxq, s)
  ELSE moved = <<>> /\ MouseGoal(MouseNow)

ControllerInv == InputTypes /\ Configured /\ BytesAnnounced /\ Answers /\ ConfigAnswered
InputInv == ControllerInv /\ KeysOnTheWay /\ MovesOnTheWay

-----------------------------------------------------------------------------
(* Bits of a byte.                                                         *)

LEMMA Bits ==
  ASSUME NEW b \in Byte
  PROVE  /\ Bit(b, 128) <=> b >= 128
         /\ Bit(b, 64) \/ Bit(b, 128) <=> b >= 64
<1>1. b \in 0 .. 255
  BY DEF Byte
<1>2. b \div 128 = 0 \/ b \div 128 = 1
  BY <1>1
<1>3. b \div 64 \in 0 .. 3
  BY <1>1
<1>4. Bit(b, 128) <=> b >= 128
  BY <1>1, <1>2 DEF Bit
<1>5. Bit(b, 64) <=> b \div 64 = 1 \/ b \div 64 = 3
  BY <1>3 DEF Bit
<1>6. (b \div 64 = 1 \/ b \div 64 = 3) \/ b >= 128 <=> b >= 64
  BY <1>1, <1>3
<1>7. QED
  BY <1>4, <1>5, <1>6

LEMMA ConfigBits ==
  /\ Bit(97, 1) /\ ~Bit(97, 2) /\ Bit(97, 32)
  /\ Bit(65, 1) /\ ~Bit(65, 2) /\ ~Bit(65, 32)
  /\ Bit(67, 1) /\ Bit(67, 2) /\ ~Bit(67, 32)
BY DEF Bit

-----------------------------------------------------------------------------
(* The controller's part of the invariant.                                 *)

LEMMA InputInit == Init => InputInv
<1> SUFFICES ASSUME Init PROVE InputInv
  OBVIOUS
<1>1. CharacterKeys(keysSeen) = <<>> /\ CharacterKeys(typed) = <<>>
  BY CharacterKeysEmpty DEF Init
<1>2. mouse_packet \in Packet
  <2> DEFINE zeroes == <<0, 0, 0>>
  <2>1. zeroes \in Seq(Byte) /\ Len(zeroes) = 3
    BY DEF Byte
  <2> HIDE DEF zeroes
  <2>2. zeroes \in Packet
    BY <2>1 DEF Packet
  <2>3. QED
    BY <2>2 DEF Init, zeroes
<1>3. InputTypes
  <2>1. obf \in {"empty", "kbd", "aux"} /\ irr \subseteq {1, 12}
    BY DEF Init
  <2>2. /\ data \in Byte /\ kbq \in Seq(Byte) /\ auxq \in Seq(Byte)
        /\ pc \in Steps \ {"flush_read"}
    BY DEF Init, Byte, Steps
  <2>5. shift_key \in BOOLEAN /\ meta_mode = FALSE
    BY DEF Init
  <2>6. held \subseteq Keys
    BY DEF Init
  <2>3. /\ mouse_cycle \in 0 .. 2
        /\ mouse_x \in Nat /\ mouse_y \in Nat
        /\ typed \in Seq(Event) /\ keysSeen \in Seq(Event)
        /\ moved \in Seq(Wanted) /\ movesSeen \in Seq(Moved)
    BY DEF Init
  <2>4. QED
    BY <1>2, <2>1, <2>2, <2>3, <2>5, <2>6 DEF InputTypes
<1>4. Configured /\ Answers /\ ConfigAnswered
  BY DEF Init, Configured, Answers, ConfigAnswered, Booting
<1>8. BytesAnnounced
  <2>1. obf \in {"empty", "kbd"} /\ pc = "kb_reset" /\ kbq = <<>> /\ 12 \notin irr
    BY DEF Init
  <2>2. obf # "aux"
    BY <2>1
  <2>3. QED
    BY <2>1, <2>2 DEF BytesAnnounced, Booting
<1>5. KeysOnTheWay
  <2>1. shift_key = ("shift" \in held)
    <3>1. shift_key <=> ("shift" \in held)
      BY DEF Init
    <3>2. shift_key \in BOOLEAN /\ ("shift" \in held) \in BOOLEAN
      BY <1>3 DEF InputTypes
    <3>3. QED
      BY <3>1, <3>2
  <2>2. KeyNow = KeyGoal
    BY <1>1, <2>1 DEF KeyNow, KeyGoal
  <2>3. QED
    BY <2>2 DEF Init, KeysOnTheWay, Booting
<1>6. MovesOnTheWay
  BY DEF Init, MovesOnTheWay, MouseGoal, MouseNow
<1>7. QED
  BY <1>3, <1>4, <1>5, <1>6, <1>8 DEF InputInv, ControllerInv

LEMMA LoadKbdController == ControllerInv /\ LoadKbd => ControllerInv'
<1> SUFFICES ASSUME ControllerInv, LoadKbd PROVE ControllerInv'
  OBVIOUS
<1>1. pc \notin Booting /\ InputTypes
  BY DEF ControllerInv, BytesAnnounced, LoadKbd
<1>2. Bit(config, 1)
  BY ConfigBits DEF ControllerInv, Configured
<1>3. irr' = irr \cup {1} /\ obf' = "kbd" /\ UNCHANGED <<config, auxq, handlers, pc>>
      /\ obf = "empty" /\ data' = Head(kbq) /\ kbq' = Tail(kbq) /\ kbq # <<>>
  BY <1>2 DEF LoadKbd
<1>4. data' \in Byte /\ kbq' \in Seq(Byte)
  BY <1>1, <1>3 DEF InputTypes
<1>5. InputTypes'
  BY <1>1, <1>3, <1>4 DEF InputTypes, LoadKbd, kbvars, msvars, user
<1>6. Configured'
  BY <1>3 DEF ControllerInv, Configured
<1>7. BytesAnnounced'
  BY <1>1, <1>3 DEF ControllerInv, BytesAnnounced, Booting
<1>8. Answers'
  <2>1. Answers /\ pc' = pc /\ auxq' = auxq /\ obf = "empty" /\ obf' = "kbd"
    BY <1>3 DEF ControllerInv
  <2>2. pc \notin {"defaults_read", "report_read"}
    BY <2>1 DEF Answers
  <2>3. obf # "aux" /\ obf' # "aux"
    BY <2>1
  <2>4. QED
    BY <2>1, <2>2, <2>3 DEF Answers
<1>9. ConfigAnswered'
  <2>4. kbq \in Seq(Byte) /\ Len(kbq') = Len(kbq) - 1 /\ Len(kbq) \in Nat \ {0}
    BY <1>1, <1>3 DEF InputTypes
  <2>1. kbq' = <<>> => data' = kbq[Len(kbq)]
    <3>1. kbq' = <<>> => Len(kbq) = 1
      BY <2>4
    <3>2. QED
      BY <1>3, <2>4, <3>1
  <2>2. kbq' # <<>> => kbq'[Len(kbq')] = kbq[Len(kbq)]
    BY <1>3, <2>4
  <2>3. QED
    BY <1>3, <2>1, <2>2 DEF ControllerInv, ConfigAnswered
<1>10. QED
  BY <1>5, <1>6, <1>7, <1>8, <1>9 DEF ControllerInv

LEMMA LoadAuxController == ControllerInv /\ LoadAux => ControllerInv'
<1> SUFFICES ASSUME ControllerInv, LoadAux PROVE ControllerInv'
  OBVIOUS
<1>1. InputTypes /\ Answers
  BY DEF ControllerInv
<1>2. /\ obf = "empty" /\ auxq # <<>> /\ obf' = "aux" /\ data' = Head(auxq) /\ auxq' = Tail(auxq)
      /\ UNCHANGED <<config, kbq, handlers, pc>>
  BY DEF LoadAux
<1>3. pc \in {"defaults_wait", "report_wait", "done"}
  BY <1>1, <1>2 DEF Answers
<1>4. config = 67
  BY <1>3 DEF ControllerInv, Configured, Booting
<1>5. irr' = irr \cup {12}
  BY <1>4, ConfigBits DEF LoadAux
<1>6. data' \in Byte /\ auxq' \in Seq(Byte)
  BY <1>1, <1>2 DEF InputTypes
<1>7. InputTypes'
  BY <1>1, <1>2, <1>5, <1>6 DEF InputTypes, LoadAux, kbvars, msvars, user
<1>8. Configured' /\ ConfigAnswered'
  BY <1>2, <1>3 DEF ControllerInv, Configured, ConfigAnswered
<1>9. BytesAnnounced'
  <2>1. pc' = pc /\ pc \notin Booting /\ obf' = "aux" /\ 12 \in irr'
    BY <1>2, <1>3, <1>5 DEF Booting
  <2>2. 1 \notin irr'
    BY <1>2, <1>5, <2>1 DEF ControllerInv, BytesAnnounced
  <2>3. QED
    BY <2>1, <2>2 DEF BytesAnnounced, Booting
<1>10. Answers'
  <2>1. pc # "done" => auxq' = <<>>
    <3>1. pc # "done" => auxq = <<250>>
      BY <1>1, <1>2, <1>3 DEF Answers
    <3>2. Tail(<<250>>) = <<>>
      OBVIOUS
    <3>3. QED
      BY <1>2, <3>1, <3>2
  <2>2. pc' = pc /\ obf' = "aux"
    BY <1>2
  <2>3. QED
    BY <1>3, <2>1, <2>2 DEF Answers
<1>11. QED
  BY <1>7, <1>8, <1>9, <1>10 DEF ControllerInv

\* The handler of the keyboard takes one byte.
LEMMA KeyTaken ==
  ASSUME InputTypes, KeyboardHandler
  PROVE  /\ obf' = "empty" /\ meta_mode' = FALSE /\ shift_key' \in BOOLEAN
         /\ keysSeen' \in Seq(Event)
         /\ KeyNow \in KeyState
         /\ [shift |-> shift_key', seen |-> CharacterKeys(keysSeen')] = KeyAfter(KeyNow, data)
<1>1. data \in Byte /\ meta_mode = FALSE /\ shift_key \in BOOLEAN /\ keysSeen \in Seq(Event)
  BY DEF InputTypes
<1>2. Bit(data, 128) <=> data >= 128
  BY <1>1, Bits
<1>3. data \in Nat /\ data <= 255
  BY <1>1 DEF Byte
<1> DEFINE e == [code |-> data, shift |-> shift_key]
<1>4. e \in Event
  BY <1>1, <1>3 DEF Event
<1>5. CharacterKeys(keysSeen) \in Seq(Event)
  BY <1>1, <1>4, CharacterKeysAppend
<1>6. KeyNow \in KeyState
  BY <1>1, <1>5 DEF KeyNow, KeyState
<1>7. KeyAfter(KeyNow, data) =
        [shift |-> IF data = 42 THEN TRUE ELSE shift_key /\ data # 170,
         seen  |-> IF data \in Mapped THEN Append(CharacterKeys(keysSeen), e) ELSE CharacterKeys(keysSeen)]
  BY DEF KeyAfter, KeyNow
<1>8. \A n \in Nat : n \in Mapped => n < 128 /\ n # 42 /\ n # 170
  BY DEF Mapped
<1>9. CASE Bit(data, 128)
  <2>1. shift_key' = (shift_key /\ data # 170) /\ UNCHANGED <<meta_mode, keysSeen>> /\ obf' = "empty"
    BY <1>9 DEF KeyboardHandler, ReadPort
  <2>2. data # 42 /\ data \notin Mapped
    BY <1>2, <1>3, <1>8, <1>9
  <2>3. QED
    BY <1>1, <1>6, <1>7, <2>1, <2>2
<1>10. CASE data = 42
  <2>1. shift_key' = TRUE /\ UNCHANGED <<meta_mode, keysSeen>> /\ obf' = "empty"
    BY <1>2, <1>10 DEF KeyboardHandler, ReadPort
  <2>2. data \notin Mapped
    BY <1>3, <1>8, <1>10
  <2>3. QED
    BY <1>1, <1>6, <1>7, <1>10, <2>1, <2>2
<1>11. CASE ~Bit(data, 128) /\ data # 42
  <2>1. KeyEvent(data) /\ obf' = "empty"
    BY <1>2, <1>11 DEF KeyboardHandler, ReadPort
  <2>2. /\ keysSeen' = IF data \in Mapped THEN Append(keysSeen, e) ELSE keysSeen
        /\ meta_mode' = FALSE /\ shift_key' = shift_key
    BY <1>1, <2>1 DEF KeyEvent
  <2>3. CharacterKeys(keysSeen') = IF data \in Mapped THEN Append(CharacterKeys(keysSeen), e)
                                   ELSE CharacterKeys(keysSeen)
    BY <1>1, <1>4, <2>2, CharacterKeysAppend DEF KeptNext
  <2>4. data # 170
    BY <1>2, <1>11
  <2>5. keysSeen' \in Seq(Event)
    BY <1>1, <1>4, <2>2
  <2>6. [shift |-> shift_key', seen |-> CharacterKeys(keysSeen')] = KeyAfter(KeyNow, data)
    BY <1>1, <1>7, <1>11, <2>2, <2>3, <2>4
  <2>7. QED
    BY <1>1, <1>6, <2>1, <2>2, <2>5, <2>6
<1>12. QED
  BY <1>9, <1>10, <1>11

LEMMA IRQ1Controller == ControllerInv /\ IRQ1 => ControllerInv'
<1> SUFFICES ASSUME ControllerInv, IRQ1 PROVE ControllerInv'
  OBVIOUS
<1>1. /\ InputTypes /\ 1 \in irr /\ irr' = irr \ {1}
      /\ UNCHANGED <<data, config, kbq, auxq, handlers, pc>>
  BY DEF ControllerInv, IRQ1
<1>2. CASE pc \in Booting
  <2>1. UNCHANGED <<obf, kbvars>>
    BY <1>2 DEF IRQ1, ControllerInv, Configured
  <2>2. InputTypes'
    BY <1>1, <2>1 DEF InputTypes, IRQ1, kbvars, msvars, user
  <2>3. Configured' /\ BytesAnnounced' /\ Answers' /\ ConfigAnswered'
    BY <1>1, <1>2, <2>1 DEF ControllerInv, Configured, BytesAnnounced, Answers, ConfigAnswered
  <2>4. QED
    BY <2>2, <2>3 DEF ControllerInv
<1>3. CASE pc \notin Booting
  <2>1. KeyboardHandler
    BY <1>3 DEF IRQ1, ControllerInv, Configured
  <2>2. obf' = "empty" /\ obf = "kbd" /\ 12 \notin irr
    BY <1>1, <1>3, <2>1, KeyTaken DEF ControllerInv, BytesAnnounced
  <2>3. meta_mode' = FALSE /\ shift_key' \in BOOLEAN /\ keysSeen' \in Seq(Event)
    BY <1>1, <2>1, KeyTaken
  <2>4. InputTypes'
    BY <1>1, <2>2, <2>3 DEF InputTypes, IRQ1, msvars, user
  <2>5. Configured' /\ BytesAnnounced' /\ Answers' /\ ConfigAnswered'
    BY <1>1, <1>3, <2>2 DEF ControllerInv, Configured, BytesAnnounced, Answers, ConfigAnswered
  <2>6. QED
    BY <2>4, <2>5 DEF ControllerInv
<1>4. QED
  BY <1>2, <1>3

\* The handler of the mouse takes one byte.
LEMMA MouseTaken ==
  ASSUME InputTypes, mouse_handler, obf = "aux"
  PROVE  /\ obf' = "empty"
         /\ MouseNow \in MouseState
         /\ [cycle |-> mouse_cycle', packet |-> mouse_packet', x |-> mouse_x', y |-> mouse_y',
             seen |-> movesSeen'] = MouseAfter(MouseNow, data)
<1>1. data \in Byte /\ mouse_cycle \in 0 .. 2 /\ mouse_packet \in Packet
  BY DEF InputTypes
<1>2. MouseNow \in MouseState
  BY DEF InputTypes, MouseNow, MouseState
<1>3. obf' = "empty"
  BY DEF mouse_handler, ReadPort
<1> DEFINE s == MouseNow
           after == [cycle |-> mouse_cycle', packet |-> mouse_packet', x |-> mouse_x',
                     y |-> mouse_y', seen |-> movesSeen']
<1>9. s = [cycle |-> mouse_cycle, packet |-> mouse_packet, x |-> mouse_x, y |-> mouse_y,
           seen |-> movesSeen]
  BY DEF MouseNow
<1>10. /\ s.cycle = mouse_cycle /\ s.packet = mouse_packet /\ s.x = mouse_x /\ s.y = mouse_y
       /\ s.seen = movesSeen
  BY <1>9
<1>11. \A c, p : InPacket(s, c, p) =
                   [cycle |-> c, packet |-> p, x |-> mouse_x, y |-> mouse_y, seen |-> movesSeen]
  BY DEF MouseNow, InPacket
<1> HIDE DEF s
<1>4. CASE mouse_cycle = 0 /\ ~Bit(data, 8)
  <2>1. UNCHANGED msvars
    BY <1>4 DEF mouse_handler
  <2>2. after = s
    BY <2>1, <1>9 DEF msvars
  <2>3. MouseAfter(s, data) = s
    BY <1>4, <1>10 DEF MouseAfter
  <2>4. QED
    BY <1>2, <1>3, <2>2, <2>3 DEF s
<1>5. CASE mouse_cycle = 0 /\ Bit(data, 8)
  <2>1. /\ mouse_packet' = [mouse_packet EXCEPT ![1] = data] /\ mouse_cycle' = 1
        /\ UNCHANGED <<mouse_x, mouse_y, movesSeen>>
    BY <1>5 DEF mouse_handler
  <2>2. MouseAfter(s, data) = InPacket(s, 1, mouse_packet')
    BY <1>5, <1>10, <2>1 DEF MouseAfter
  <2>3. QED
    BY <1>2, <1>3, <1>11, <2>1, <2>2 DEF s
<1>6. CASE mouse_cycle = 1
  <2>1. /\ mouse_packet' = [mouse_packet EXCEPT ![2] = data] /\ mouse_cycle' = 2
        /\ UNCHANGED <<mouse_x, mouse_y, movesSeen>>
    BY <1>6 DEF mouse_handler
  <2>2. MouseAfter(s, data) = InPacket(s, 2, mouse_packet')
    BY <1>6, <1>10, <2>1 DEF MouseAfter
  <2>3. QED
    BY <1>2, <1>3, <1>11, <2>1, <2>2 DEF s
<1>7. CASE mouse_cycle = 2
  <2>1. PacketDone
    BY <1>7 DEF mouse_handler
  <2> DEFINE p == [mouse_packet EXCEPT ![3] = data]
  <2>2. p[1] = mouse_packet[1]
    BY <1>1 DEF Packet
  <2>5. mouse_packet' = p /\ mouse_cycle' = 0
    BY <2>1 DEF PacketDone
  <2>6. MouseAfter(s, data) = IF mouse_packet[1] >= 64 THEN InPacket(s, 0, p)
                              ELSE MouseAt(s, p)
    BY <1>7, <1>10 DEF MouseAfter
  <2>3. CASE mouse_packet[1] >= 64
    <3>1. UNCHANGED <<mouse_x, mouse_y, movesSeen>>
      BY <2>1, <2>2, <2>3 DEF PacketDone
    <3>2. QED
      BY <1>2, <1>3, <1>11, <2>3, <2>5, <2>6, <3>1 DEF s
  <2>4. CASE ~(mouse_packet[1] >= 64)
    <3>1. MovePointer(p)
      BY <2>1, <2>2, <2>4 DEF PacketDone
    <3>2. after = MouseAt(s, p)
      <4> HIDE DEF p
      <4>1. QED
        BY <1>10, <2>5, <3>1 DEF MovePointer, MouseAt
    <3>3. QED
      BY <1>2, <1>3, <2>4, <2>6, <3>2 DEF s
  <2>7. QED
    BY <2>3, <2>4
<1>8. QED
  BY <1>1, <1>4, <1>5, <1>6, <1>7

LEMMA IRQ12Controller == ControllerInv /\ IRQ12 => ControllerInv'
<1> SUFFICES ASSUME ControllerInv, IRQ12 PROVE ControllerInv'
  OBVIOUS
<1>1. /\ InputTypes /\ 12 \in irr /\ irr' = irr \ {12} /\ obf = "aux"
      /\ UNCHANGED <<data, config, kbq, auxq, handlers, pc>>
  BY DEF ControllerInv, IRQ12, BytesAnnounced
<1>2. pc \notin Booting
  BY <1>1 DEF ControllerInv, BytesAnnounced
<1>3. CASE pc = "done"
  <2>1. mouse_handler
    BY <1>3 DEF IRQ12, ControllerInv, Configured, Booting
  <2>2. MouseNow' \in MouseState /\ obf' = "empty"
    <3>1. data \in Byte
      BY <1>1 DEF InputTypes
    <3>2. MouseNow \in MouseState /\ MouseNow' = MouseAfter(MouseNow, data) /\ obf' = "empty"
      BY <1>1, <2>1, MouseTaken DEF MouseNow
    <3>3. QED
      BY <3>1, <3>2, MouseStepType
  <2>3. InputTypes'
    BY <1>1, <2>2 DEF InputTypes, MouseNow, MouseState, IRQ12, kbvars, user
  <2>4. Configured' /\ BytesAnnounced' /\ Answers' /\ ConfigAnswered'
    BY <1>1, <1>3, <2>2 DEF ControllerInv, Configured, BytesAnnounced, Answers, ConfigAnswered, Booting
  <2>5. QED
    BY <2>3, <2>4 DEF ControllerInv
<1>4. CASE pc # "done"
  <2>1. UNCHANGED <<obf, msvars>>
    BY <1>2, <1>4 DEF IRQ12, ControllerInv, Configured
  <2>2. InputTypes'
    BY <1>1, <2>1 DEF InputTypes, IRQ12, kbvars, msvars, user
  <2>3. Configured' /\ BytesAnnounced' /\ Answers' /\ ConfigAnswered'
    BY <1>1, <1>2, <1>4, <2>1 DEF ControllerInv, Configured, BytesAnnounced, Answers, ConfigAnswered
  <2>4. QED
    BY <2>2, <2>3 DEF ControllerInv
<1>5. QED
  BY <1>3, <1>4

\* kernel_main only goes on when no interrupt is pending: no key is in the way.
LEMMA KernelMainController == ControllerInv /\ KernelMain => ControllerInv'
<1> SUFFICES ASSUME ControllerInv, KernelMain PROVE ControllerInv'
  OBVIOUS
<1>1. InputTypes /\ Configured /\ BytesAnnounced /\ Answers /\ ConfigAnswered /\ irr = {}
  BY DEF ControllerInv, KernelMain
<1>2. pc \notin Booting => obf # "kbd"
  BY <1>1 DEF BytesAnnounced
<1>3. CASE resetKeyboard
  <2>1. /\ pc = "kb_reset" /\ pc' = "kb_install" /\ obf' = "empty"
        /\ UNCHANGED <<data, config, kbq, auxq, irr, handlers, kbvars, msvars, user>>
    BY <1>3 DEF resetKeyboard, Goto, ReadPort, Quiet
  <2>2. InputTypes'
    BY <1>1, <2>1 DEF InputTypes, kbvars, msvars, user, Steps
  <2>3. Configured' /\ BytesAnnounced' /\ Answers' /\ ConfigAnswered'
    BY <1>1, <2>1 DEF Configured, BytesAnnounced, Answers, ConfigAnswered, Booting
  <2>4. QED
    BY <2>2, <2>3 DEF ControllerInv
<1>4. CASE Install(1, "kb_install", "flush_test")
  <2>1. /\ pc = "kb_install" /\ pc' = "flush_test" /\ handlers' = handlers \cup {1}
        /\ UNCHANGED <<obf, data, config, kbq, auxq, irr, kbvars, msvars, user>>
    BY <1>4 DEF Install, Goto, Quiet, ctl
  <2>2. InputTypes'
    BY <1>1, <2>1 DEF InputTypes, kbvars, msvars, user, Steps
  <2>3. Configured' /\ BytesAnnounced' /\ Answers' /\ ConfigAnswered'
    BY <1>1, <2>1 DEF Configured, BytesAnnounced, Answers, ConfigAnswered, Booting
  <2>4. QED
    BY <2>2, <2>3 DEF ControllerInv
<1>5. CASE FlushTest
  <2>1. /\ pc = "flush_test" /\ pc' = (IF obf = "empty" THEN "ask" ELSE "flush_read")
        /\ UNCHANGED <<obf, data, config, kbq, auxq, irr, handlers, kbvars, msvars, user>>
    BY <1>5 DEF FlushTest, Goto, Quiet, ctl
  <2>2. obf # "aux" /\ obf # "kbd"
    BY <1>1, <1>2, <2>1 DEF Answers, Booting
  <2>3. pc' = "ask"
    BY <1>1, <2>1, <2>2 DEF InputTypes
  <2>4. InputTypes'
    BY <1>1, <2>1, <2>3 DEF InputTypes, kbvars, msvars, user, Steps
  <2>5. Configured' /\ BytesAnnounced' /\ Answers' /\ ConfigAnswered'
    BY <1>1, <2>1, <2>3 DEF Configured, BytesAnnounced, Answers, ConfigAnswered, Booting
  <2>6. QED
    BY <2>4, <2>5 DEF ControllerInv
<1>6. CASE Read("flush_read", "flush_test")
  BY <1>1, <1>6 DEF Read, Goto, InputTypes
<1>7. CASE AskConfig
  <2>1. /\ pc = "ask" /\ pc' = "config_wait"
        /\ config' = (IF Bit(config, 32) THEN config - 32 ELSE config)
        /\ kbq' = Append(kbq, config')
        /\ UNCHANGED <<obf, data, auxq, irr, handlers, kbvars, msvars, user>>
    BY <1>7 DEF AskConfig, Goto, Quiet
  <2>2. config = 97
    BY <1>1, <2>1 DEF Configured, Booting
  <2>3. config' = 65
    BY <2>1, <2>2, ConfigBits
  <2>4. 65 \in Byte
    BY DEF Byte
  <2>5. kbq' \in Seq(Byte) /\ kbq' # <<>> /\ kbq'[Len(kbq')] = 65
    <3>1. kbq \in Seq(Byte) /\ kbq' = Append(kbq, 65)
      BY <1>1, <2>1, <2>3 DEF InputTypes
    <3>2. QED
      BY <2>4, <3>1
  <2>6. InputTypes'
    BY <1>1, <2>1, <2>5 DEF InputTypes, kbvars, msvars, user, Steps
  <2>7. Configured' /\ ConfigAnswered'
    BY <1>1, <2>1, <2>3, <2>5 DEF Configured, ConfigAnswered, Booting
  <2>8. BytesAnnounced' /\ Answers'
    BY <1>1, <2>1 DEF BytesAnnounced, Answers, Booting
  <2>9. QED
    BY <2>6, <2>7, <2>8 DEF ControllerInv
<1>8. CASE Wait("config_wait", "config_read")
  <2>1. /\ pc = "config_wait" /\ pc' = "config_read" /\ Arrived
        /\ UNCHANGED <<obf, data, config, kbq, auxq, irr, handlers, kbvars, msvars, user>>
    BY <1>8 DEF Wait, Goto, Quiet, ctl
  <2>2. obf # "kbd" /\ obf # "aux"
    BY <1>1, <1>2, <2>1 DEF Answers, Booting
  <2>3. obf = "empty" /\ kbq = <<>>
    BY <1>1, <2>1, <2>2 DEF Arrived, InputTypes
  <2>4. InputTypes'
    BY <1>1, <2>1 DEF InputTypes, kbvars, msvars, user, Steps
  <2>5. Configured' /\ BytesAnnounced' /\ Answers' /\ ConfigAnswered'
    BY <1>1, <2>1, <2>3 DEF Configured, BytesAnnounced, Answers, ConfigAnswered, Booting
  <2>6. QED
    BY <2>4, <2>5 DEF ControllerInv
<1>9. CASE WriteConfig
  <2>1. /\ pc = "config_read" /\ pc' = "defaults" /\ obf' = "empty"
        /\ config' = (LET b == IF Bit(data, 2) THEN data ELSE data + 2
                      IN  IF Bit(b, 32) THEN b - 32 ELSE b)
        /\ UNCHANGED <<data, kbq, auxq, irr, handlers, kbvars, msvars, user>>
    BY <1>9 DEF WriteConfig, Goto, ReadPort, Quiet
  <2>2. data = 65 /\ kbq = <<>>
    BY <1>1, <2>1 DEF ConfigAnswered
  <2>3. (IF Bit(data, 2) THEN data ELSE data + 2) = 67
    BY <2>2, ConfigBits
  <2>4. config' = 67
    BY <2>1, <2>3, ConfigBits
  <2>5. InputTypes'
    BY <1>1, <2>1 DEF InputTypes, kbvars, msvars, user, Steps
  <2>6. Configured' /\ BytesAnnounced' /\ Answers' /\ ConfigAnswered'
    BY <1>1, <2>1, <2>4 DEF Configured, BytesAnnounced, Answers, ConfigAnswered, Booting
  <2>7. QED
    BY <2>5, <2>6 DEF ControllerInv
<1>10. ASSUME NEW from \in {"defaults", "report"}, NEW to \in {"defaults_wait", "report_wait"},
              mouse_write(from, to)
       PROVE  ControllerInv'
  <2>1. /\ pc = from /\ pc' = to /\ auxq' = Append(auxq, 250)
        /\ UNCHANGED <<obf, data, config, kbq, irr, handlers, kbvars, msvars, user>>
    BY <1>10 DEF mouse_write, Goto, Quiet
  <2>2. obf # "aux" /\ auxq = <<>>
    BY <1>1, <2>1 DEF Answers
  <2>3. auxq' = <<250>>
    BY <2>1, <2>2
  <2>4. 250 \in Byte
    BY DEF Byte
  <2>5. auxq' \in Seq(Byte)
    BY <1>1, <2>1, <2>4 DEF InputTypes
  <2>6. InputTypes'
    BY <1>1, <2>1, <2>5 DEF InputTypes, kbvars, msvars, user, Steps
  <2>7. Configured' /\ BytesAnnounced' /\ ConfigAnswered'
    BY <1>1, <2>1 DEF Configured, BytesAnnounced, ConfigAnswered, Booting
  <2>8. Answers'
    BY <2>1, <2>2, <2>3 DEF Answers
  <2>9. QED
    BY <2>6, <2>7, <2>8 DEF ControllerInv
<1>11. ASSUME NEW from \in {"defaults_wait", "report_wait"},
              NEW to \in {"defaults_read", "report_read"}, Wait(from, to)
       PROVE  ControllerInv'
  <2>1. /\ pc = from /\ pc' = to /\ Arrived
        /\ UNCHANGED <<obf, data, config, kbq, auxq, irr, handlers, kbvars, msvars, user>>
    BY <1>11 DEF Wait, Goto, Quiet, ctl
  <2>2. obf # "kbd"
    BY <1>2, <2>1 DEF Booting
  <2>3. obf = "aux" /\ auxq = <<>>
    <3>1. obf # "aux" => auxq = <<250>>
      BY <1>1, <2>1 DEF Answers
    <3>2. <<250>> # <<>>
      OBVIOUS
    <3>3. obf # "empty"
      BY <2>1, <3>1, <3>2 DEF Arrived
    <3>4. QED
      BY <1>1, <2>1, <2>2, <3>3 DEF InputTypes, Answers
  <2>4. InputTypes'
    BY <1>1, <2>1 DEF InputTypes, kbvars, msvars, user, Steps
  <2>5. Configured' /\ BytesAnnounced' /\ ConfigAnswered'
    BY <1>1, <2>1 DEF Configured, BytesAnnounced, ConfigAnswered, Booting
  <2>6. Answers'
    BY <2>1, <2>3 DEF Answers
  <2>7. QED
    BY <2>4, <2>5, <2>6 DEF ControllerInv
<1>12. ASSUME NEW from \in {"defaults_read", "report_read"}, NEW to \in {"report", "install"},
              Read(from, to)
       PROVE  ControllerInv'
  <2>1. /\ pc = from /\ pc' = to /\ obf' = "empty"
        /\ UNCHANGED <<data, config, kbq, auxq, irr, handlers, kbvars, msvars, user>>
    BY <1>12 DEF Read, Goto, ReadPort, Quiet
  <2>2. auxq = <<>>
    BY <1>1, <2>1 DEF Answers
  <2>3. InputTypes'
    BY <1>1, <2>1 DEF InputTypes, kbvars, msvars, user, Steps
  <2>4. Configured' /\ BytesAnnounced' /\ ConfigAnswered' /\ Answers'
    BY <1>1, <2>1, <2>2 DEF Configured, BytesAnnounced, ConfigAnswered, Answers, Booting
  <2>5. QED
    BY <2>3, <2>4 DEF ControllerInv
<1>13. CASE Install(12, "install", "done")
  <2>1. /\ pc = "install" /\ pc' = "done" /\ handlers' = handlers \cup {12}
        /\ UNCHANGED <<obf, data, config, kbq, auxq, irr, kbvars, msvars, user>>
    BY <1>13 DEF Install, Goto, Quiet, ctl
  <2>2. obf # "aux"
    BY <1>1, <2>1 DEF Answers
  <2>3. InputTypes'
    BY <1>1, <2>1 DEF InputTypes, kbvars, msvars, user, Steps
  <2>4. Configured' /\ BytesAnnounced' /\ ConfigAnswered' /\ Answers'
    BY <1>1, <2>1, <2>2 DEF Configured, BytesAnnounced, ConfigAnswered, Answers, Booting
  <2>5. QED
    BY <2>3, <2>4 DEF ControllerInv
<1>14. QED
  BY <1>3, <1>4, <1>5, <1>6, <1>7, <1>8, <1>9, <1>10, <1>11, <1>12, <1>13
  DEF KernelMain, mouse_install

LEMMA UserController ==
  ASSUME UserWaits, ControllerInv,
         \/ \E k \in Keys : Press(k) \/ Release(k)
         \/ \E p \in Packets : Move(p)
  PROVE  ControllerInv'
<1>1. InputTypes /\ Configured /\ BytesAnnounced /\ Answers /\ ConfigAnswered
  BY DEF ControllerInv
<1>2. ASSUME NEW k \in Keys
      PROVE  Code[k] \in Nat /\ Code[k] \in Byte /\ Code[k] + 128 \in Byte
  <2>1. k \in {"shift", "a", "up"}
    BY InputAssumption
  <2>2. Code[k] = CASE k = "shift" -> 42 [] k = "a" -> 30 [] k = "up" -> 72
    BY <2>1, Zenon DEF Code
  <2>3. Code[k] \in {42, 30, 72}
    BY <2>1, <2>2
  <2>4. QED
    BY <2>3 DEF Byte
<1>3. ASSUME NEW k \in Keys, NEW c \in Byte PROVE Sends(k, c) \in Seq(Byte)
  <2>1. 224 \in Byte
    BY DEF Byte
  <2>2. QED
    BY <2>1 DEF Sends
<1>4. ASSUME NEW k \in Keys, Press(k) PROVE ControllerInv'
  <2>1. /\ pc \in Typing /\ held' = held \cup {k}
        /\ kbq' = kbq \o Sends(k, Code[k])
        /\ typed' = (IF k = "shift" THEN typed
                     ELSE Append(typed, [code |-> Code[k], shift |-> "shift" \in held]))
        /\ UNCHANGED <<obf, data, config, auxq, irr, handlers, pc, kbvars, msvars, moved>>
    BY <1>4 DEF Press, May
  <2>2. Sends(k, Code[k]) \in Seq(Byte)
    BY <1>2, <1>3
  <2>3. [code |-> Code[k], shift |-> "shift" \in held] \in Event
    BY <1>2 DEF Event
  <2>4. typed' \in Seq(Event)
    BY <1>1, <2>1, <2>3 DEF InputTypes
  <2>5. kbq' \in Seq(Byte)
    BY <1>1, <2>1, <2>2 DEF InputTypes
  <2>6. held' \subseteq Keys
    BY <1>1, <2>1 DEF InputTypes
  <2>7. InputTypes'
    BY <1>1, <2>1, <2>4, <2>5, <2>6 DEF InputTypes, kbvars, msvars
  <2>8. pc \notin {"kb_reset", "kb_install", "config_wait", "config_read"}
    BY <2>1 DEF UserWaits
  <2>9. Configured' /\ BytesAnnounced' /\ ConfigAnswered' /\ Answers'
    BY <1>1, <2>1, <2>8 DEF Configured, BytesAnnounced, ConfigAnswered, Answers, Booting
  <2>10. QED
    BY <2>7, <2>9 DEF ControllerInv
<1>5. ASSUME NEW k \in Keys, Release(k) PROVE ControllerInv'
  <2>1. /\ pc \in Typing /\ held' = held \ {k}
        /\ kbq' = kbq \o Sends(k, Code[k] + 128)
        /\ UNCHANGED <<obf, data, config, auxq, irr, handlers, pc, kbvars, msvars, typed, moved>>
    BY <1>5 DEF Release, May
  <2>2. Sends(k, Code[k] + 128) \in Seq(Byte)
    BY <1>2, <1>3
  <2>5. kbq' \in Seq(Byte)
    BY <1>1, <2>1, <2>2 DEF InputTypes
  <2>6. held' \subseteq Keys
    BY <1>1, <2>1 DEF InputTypes
  <2>7. InputTypes'
    BY <1>1, <2>1, <2>5, <2>6 DEF InputTypes, kbvars, msvars
  <2>8. pc \notin {"kb_reset", "kb_install", "config_wait", "config_read"}
    BY <2>1 DEF UserWaits
  <2>9. Configured' /\ BytesAnnounced' /\ ConfigAnswered' /\ Answers'
    BY <1>1, <2>1, <2>8 DEF Configured, BytesAnnounced, ConfigAnswered, Answers, Booting
  <2>10. QED
    BY <2>7, <2>9 DEF ControllerInv
<1>6. ASSUME NEW p \in Packets, Move(p) PROVE ControllerInv'
  <2> DEFINE at == IF moved = <<>> THEN [x |-> 0, y |-> 0, far |-> FALSE] ELSE moved[Len(moved)]
             new == [x |-> AtLeastZero(at.x + Right(p)), y |-> AtLeastZero(at.y - Up(p)),
                     buttons |-> p[1] % 8,
                     far |-> at.far \/ ~Short(Right(p)) \/ ~Short(Up(p))]
  <2>1. /\ pc = "done" /\ auxq' = auxq \o p
        /\ moved' = (IF Overflowed(p) THEN moved ELSE Append(moved, new))
        /\ UNCHANGED <<obf, data, config, kbq, irr, handlers, pc, kbvars, msvars, held, typed>>
    BY <1>6 DEF Move, May, UserWaits
  <2>2. p \in Byte \X Byte \X Byte
    BY InputAssumption
  <2>3. p \in Seq(Byte)
    <3>1. PICK a \in Byte, b \in Byte, c \in Byte : p = <<a, b, c>>
      BY <2>2
    <3>2. QED
      BY <3>1
  <2>4. Right(p) \in Int /\ Up(p) \in Int /\ p[1] % 8 \in Nat
    BY <2>2 DEF Right, Up, Movement, Byte
  <2>5. at.x \in Nat /\ at.y \in Nat
    <3>1. moved \in Seq(Wanted)
      BY <1>1 DEF InputTypes
    <3>2. moved # <<>> => moved[Len(moved)] \in Wanted
      BY <3>1
    <3>3. QED
      BY <3>2 DEF Wanted
  <2> HIDE DEF at
  <2>6. new \in Wanted
    <3>1. AtLeastZero(at.x + Right(p)) \in Nat /\ AtLeastZero(at.y - Up(p)) \in Nat
      BY <2>4, <2>5 DEF AtLeastZero
    <3>2. QED
      BY <2>4, <3>1 DEF Wanted
  <2> HIDE DEF new
  <2>7. moved' \in Seq(Wanted) /\ auxq' \in Seq(Byte)
    BY <1>1, <2>1, <2>3, <2>6 DEF InputTypes
  <2>8. InputTypes'
    BY <1>1, <2>1, <2>7 DEF InputTypes, kbvars, msvars
  <2>9. Configured' /\ BytesAnnounced' /\ ConfigAnswered' /\ Answers'
    BY <1>1, <2>1 DEF Configured, BytesAnnounced, ConfigAnswered, Answers, Booting
  <2>10. QED
    BY <2>8, <2>9 DEF ControllerInv
<1>7. QED
  BY <1>4, <1>5, <1>6

-----------------------------------------------------------------------------
(* The keys.                                                               *)

LEMMA KeyStates ==
  ASSUME InputTypes
  PROVE  /\ KeyNow \in KeyState /\ KeyGoal \in KeyState
         /\ CharacterKeys(typed) \in Seq(Event) /\ CharacterKeys(keysSeen) \in Seq(Event)
<1> DEFINE e == [code |-> 0, shift |-> FALSE]
<1>1. e \in Event
  BY DEF Event
<1> HIDE DEF e
<1>2. typed \in Seq(Event) /\ keysSeen \in Seq(Event) /\ shift_key \in BOOLEAN
  BY DEF InputTypes
<1>3. CharacterKeys(typed) \in Seq(Event) /\ CharacterKeys(keysSeen) \in Seq(Event)
  BY <1>1, <1>2, CharacterKeysAppend
<1>4. KeyNow \in KeyState
  BY <1>2, <1>3 DEF KeyNow, KeyState
<1>5. KeyGoal \in KeyState
  <2>1. ("shift" \in held) \in BOOLEAN
    OBVIOUS
  <2>2. QED
    BY <1>3, <2>1 DEF KeyGoal, KeyState
<1>6. QED
  BY <1>3, <1>4, <1>5

\* One more byte behind those on their way.
LEMMA KeySent ==
  ASSUME NEW s, NEW t, NEW bytes \in Seq(Byte), NEW b \in Byte,
         Leads(KeyState, KeyStep, s, bytes, t)
  PROVE  /\ t \in KeyState /\ Leads(KeyState, KeyStep, s, Append(bytes, b), KeyAfter(t, b))
         /\ Append(bytes, b) \in Seq(Byte)
<1>1. KeyStep \in [KeyState \X Byte -> KeyState]
  BY KeyStepType
<1>2. t \in KeyState /\ Leads(KeyState, KeyStep, s, Append(bytes, b), KeyStep[<<t, b>>])
  BY <1>1, LeadsAppend
<1>3. KeyStep[<<t, b>>] = KeyAfter(t, b)
  BY <1>2, KeyStepType
<1>4. QED
  BY <1>2, <1>3

\* A byte that neither is a character nor shift does nothing.
LEMMA NeutralByte ==
  ASSUME NEW s \in KeyState, NEW b, b \notin Mapped, b # 42, b # 170
  PROVE  KeyAfter(s, b) = s
<1>1. s.shift \in BOOLEAN /\ s = [shift |-> s.shift, seen |-> s.seen]
  BY DEF KeyState
<1>2. KeyAfter(s, b) = [shift |-> s.shift /\ b # 170, seen |-> s.seen]
  BY DEF KeyAfter
<1>3. (s.shift /\ b # 170) = s.shift
  BY <1>1
<1>4. QED
  BY <1>1, <1>2, <1>3

LEMMA MappedBytes ==
  /\ 30 \in Mapped /\ 30 \in Byte /\ 42 \in Byte /\ 42 \notin Mapped /\ 170 \in Byte /\ 170 \notin Mapped
  /\ \A b \in {65, 72, 158, 200, 224} : b \in Byte /\ b \notin Mapped /\ b # 42 /\ b # 170
BY DEF Mapped, Byte

\* The controller's and the mouse's steps leave the keys alone.
LEMMA KeysLeft ==
  ASSUME KeysOnTheWay, UNCHANGED <<kbq, kbvars, held, typed>>,
         pc \in Booting <=> pc' \in Booting,
         pc \notin Booting => (obf = "kbd" <=> obf' = "kbd") /\ (obf = "kbd" => data' = data)
  PROVE  KeysOnTheWay'
<1>1. KeyNow' = KeyNow /\ KeyGoal' = KeyGoal
  BY DEF KeyNow, KeyGoal, kbvars
<1>2. CASE pc \in Booting
  BY <1>1, <1>2 DEF KeysOnTheWay
<1>3. CASE pc \notin Booting
  <2> DEFINE from == IF obf = "kbd" THEN KeyAfter(KeyNow, data) ELSE KeyNow
             to == IF obf' = "kbd" THEN KeyAfter(KeyNow', data') ELSE KeyNow'
  <2>1. to = from
    BY <1>1, <1>3
  <2>2. Leads(KeyState, KeyStep, from, kbq, KeyGoal)
    BY <1>3 DEF KeysOnTheWay
  <2>3. Leads(KeyState, KeyStep, to, kbq', KeyGoal')
    <3> HIDE DEF from, to
    <3>1. QED
      BY <1>1, <2>1, <2>2
  <2>4. QED
    BY <1>3, <2>3 DEF KeysOnTheWay
<1>4. QED
  BY <1>2, <1>3

LEMMA LoadKbdKeys == ControllerInv /\ KeysOnTheWay /\ LoadKbd => KeysOnTheWay'
<1> SUFFICES ASSUME ControllerInv, KeysOnTheWay, LoadKbd PROVE KeysOnTheWay'
  OBVIOUS
<1>1. /\ obf = "empty" /\ kbq # <<>> /\ obf' = "kbd" /\ data' = Head(kbq) /\ kbq' = Tail(kbq)
      /\ UNCHANGED <<pc, kbvars, held, typed>>
  BY DEF LoadKbd, user
<1>2. pc \notin Booting /\ InputTypes
  BY <1>1 DEF ControllerInv, BytesAnnounced
<1>3. kbq \in Seq(Byte) /\ Head(kbq) \in Byte
  BY <1>1, <1>2 DEF InputTypes
<1>4. Leads(KeyState, KeyStep, KeyNow, kbq, KeyGoal)
  BY <1>1, <1>2 DEF KeysOnTheWay
<1>5. Leads(KeyState, KeyStep, KeyStep[<<KeyNow, Head(kbq)>>], Tail(kbq), KeyGoal)
  BY <1>1, <1>3, <1>4, LeadsHead
<1>6. KeyStep[<<KeyNow, Head(kbq)>>] = KeyAfter(KeyNow, data')
  BY <1>1, <1>2, <1>3, KeyStates, KeyStepType
<1>7. KeyNow' = KeyNow /\ KeyGoal' = KeyGoal
  BY <1>1 DEF KeyNow, KeyGoal, kbvars
<1>8. Leads(KeyState, KeyStep, KeyAfter(KeyNow', data'), kbq', KeyGoal')
  BY <1>1, <1>5, <1>6, <1>7
<1>9. QED
  BY <1>1, <1>2, <1>8 DEF KeysOnTheWay

LEMMA IRQ1Keys == ControllerInv /\ KeysOnTheWay /\ IRQ1 => KeysOnTheWay'
<1> SUFFICES ASSUME ControllerInv, KeysOnTheWay, IRQ1 PROVE KeysOnTheWay'
  OBVIOUS
<1>1. /\ InputTypes /\ 1 \in irr
      /\ UNCHANGED <<data, kbq, pc, held, typed>>
  BY DEF ControllerInv, IRQ1, user
<1>2. CASE pc \in Booting
  <2>1. UNCHANGED <<obf, kbvars>>
    BY <1>2 DEF IRQ1, ControllerInv, Configured
  <2>2. QED
    BY <1>1, <1>2, <2>1, KeysLeft
<1>3. CASE pc \notin Booting
  <2>1. KeyboardHandler
    BY <1>3 DEF IRQ1, ControllerInv, Configured
  <2>2. obf = "kbd"
    BY <1>1, <1>3 DEF ControllerInv, BytesAnnounced
  <2>3. obf' = "empty" /\ KeyNow' = KeyAfter(KeyNow, data)
    BY <1>1, <2>1, KeyTaken DEF KeyNow
  <2>4. KeyGoal' = KeyGoal
    BY <1>1 DEF KeyGoal
  <2>5. Leads(KeyState, KeyStep, KeyAfter(KeyNow, data), kbq, KeyGoal)
    BY <1>3, <2>2 DEF KeysOnTheWay
  <2>6. Leads(KeyState, KeyStep, KeyNow', kbq', KeyGoal')
    BY <1>1, <2>3, <2>4, <2>5
  <2>7. obf' # "kbd" /\ pc' \notin Booting
    BY <1>1, <1>3, <2>3
  <2>8. QED
    BY <2>6, <2>7 DEF KeysOnTheWay
<1>4. QED
  BY <1>2, <1>3

LEMMA KernelMainKeys == ControllerInv /\ KeysOnTheWay /\ KernelMain => KeysOnTheWay'
<1> SUFFICES ASSUME ControllerInv, KeysOnTheWay, KernelMain PROVE KeysOnTheWay'
  OBVIOUS
<1>1. InputTypes /\ BytesAnnounced /\ irr = {}
  BY DEF ControllerInv, KernelMain
<1>2. pc \notin Booting => obf # "kbd"
  BY <1>1 DEF BytesAnnounced
<1>3. CASE resetKeyboard
  <2>1. /\ pc = "kb_reset" /\ pc' = "kb_install"
        /\ UNCHANGED <<kbq, kbvars, held, typed>>
    BY <1>3 DEF resetKeyboard, Goto, ReadPort, Quiet, user
  <2>2. pc \in Booting /\ pc' \in Booting
    BY <2>1 DEF Booting
  <2>3. QED
    BY <2>1, <2>2, KeysLeft
<1>4. CASE Install(1, "kb_install", "flush_test")
  <2>1. /\ pc = "kb_install" /\ pc' = "flush_test"
        /\ UNCHANGED <<obf, kbq, kbvars, held, typed>>
    BY <1>4 DEF Install, Goto, Quiet, ctl, user
  <2>2. kbq = <<>> /\ obf = "empty" /\ KeyNow = KeyGoal
    BY <1>1, <2>1 DEF BytesAnnounced, Booting, KeysOnTheWay
  <2>3. KeyNow' = KeyNow /\ KeyGoal' = KeyGoal
    BY <2>1 DEF KeyNow, KeyGoal, kbvars
  <2>4. Leads(KeyState, KeyStep, KeyNow, <<>>, KeyGoal)
    BY <1>1, <2>2, KeyStates, LeadsNone
  <2>5. Leads(KeyState, KeyStep, KeyNow', kbq', KeyGoal') /\ obf' # "kbd" /\ pc' \notin Booting
    BY <2>1, <2>2, <2>3, <2>4 DEF Booting
  <2>6. QED
    BY <2>5 DEF KeysOnTheWay
<1>5. CASE AskConfig
  <2>1. /\ pc = "ask" /\ pc' = "config_wait"
        /\ config' = (IF Bit(config, 32) THEN config - 32 ELSE config)
        /\ kbq' = Append(kbq, config')
        /\ UNCHANGED <<obf, kbvars, held, typed>>
    BY <1>5 DEF AskConfig, Goto, Quiet, user
  <2>2. config' = 65
    BY <2>1, ConfigBits DEF ControllerInv, Configured, Booting
  <2>3. obf # "kbd" /\ pc \notin Booting /\ pc' \notin Booting
    BY <1>2, <2>1 DEF Booting
  <2>4. Leads(KeyState, KeyStep, KeyNow, kbq, KeyGoal) /\ kbq \in Seq(Byte)
    BY <1>1, <2>3 DEF KeysOnTheWay, InputTypes
  <2>5. Leads(KeyState, KeyStep, KeyNow, Append(kbq, 65), KeyAfter(KeyGoal, 65))
    BY <2>4, MappedBytes, KeySent
  <2>6. KeyAfter(KeyGoal, 65) = KeyGoal
    BY <1>1, KeyStates, MappedBytes, NeutralByte
  <2>7. KeyNow' = KeyNow /\ KeyGoal' = KeyGoal
    BY <2>1 DEF KeyNow, KeyGoal, kbvars
  <2>8. Leads(KeyState, KeyStep, KeyNow', kbq', KeyGoal')
    BY <2>1, <2>2, <2>5, <2>6, <2>7
  <2>9. obf' # "kbd"
    BY <2>1, <2>3
  <2>10. QED
    BY <2>3, <2>8, <2>9 DEF KeysOnTheWay
<1>6. ASSUME ~resetKeyboard, ~Install(1, "kb_install", "flush_test"), ~AskConfig
      PROVE  KeysOnTheWay'
  <2>1. \/ FlushTest \/ Read("flush_read", "flush_test")
        \/ Wait("config_wait", "config_read") \/ WriteConfig
        \/ mouse_write("defaults", "defaults_wait")
        \/ Wait("defaults_wait", "defaults_read") \/ Read("defaults_read", "report")
        \/ mouse_write("report", "report_wait")
        \/ Wait("report_wait", "report_read") \/ Read("report_read", "install")
        \/ Install(12, "install", "done")
    BY <1>6 DEF KernelMain, mouse_install
  <2>2. pc \notin Booting /\ pc' \notin Booting
    BY <2>1 DEF FlushTest, Read, Wait, WriteConfig, mouse_write, Install, Goto, Booting
  <2>3. UNCHANGED <<kbq, kbvars, held, typed>>
    BY <2>1 DEF FlushTest, Read, Wait, WriteConfig, mouse_write, Install, Quiet, ctl, user
  <2>4. obf' \in {obf, "empty"}
    BY <2>1 DEF FlushTest, Read, Wait, WriteConfig, mouse_write, Install, ctl, ReadPort
  <2>5. obf # "kbd" /\ obf' # "kbd"
    BY <1>2, <2>2, <2>4
  <2>6. QED
    BY <2>2, <2>3, <2>5, KeysLeft
<1>7. QED
  BY <1>3, <1>4, <1>5, <1>6

\* What a key sends leads from what was typed before to what is typed now.
LEMMA KeyPressed ==
  ASSUME NEW k \in {"shift", "a", "up"}, InputTypes, NEW s,
         Leads(KeyState, KeyStep, s, kbq, KeyGoal), Press(k)
  PROVE  Leads(KeyState, KeyStep, s, kbq', KeyGoal')
<1>1. /\ held' = held \cup {k} /\ kbq' = kbq \o Sends(k, Code[k])
      /\ typed' = (IF k = "shift" THEN typed
                   ELSE Append(typed, [code |-> Code[k], shift |-> "shift" \in held]))
  BY DEF Press
<1>2. kbq \in Seq(Byte) /\ typed \in Seq(Event)
  BY DEF InputTypes
<1>3. KeyGoal \in KeyState
  BY KeyStates
<1> DEFINE down == "shift" \in held
           kept == CharacterKeys(typed)
<1>4. KeyGoal = [shift |-> down, seen |-> kept] /\ down \in BOOLEAN
  BY DEF KeyGoal
<1>5. KeyGoal' = [shift |-> ("shift" \in held'), seen |-> CharacterKeys(typed')]
  BY DEF KeyGoal
<1>6. CASE k = "shift"
  <2>1. Sends(k, Code[k]) = <<42>>
    BY <1>6 DEF Sends, Extended, Code
  <2>2. kbq' = Append(kbq, 42)
    BY <1>1, <1>2, <2>1
  <2>3. Leads(KeyState, KeyStep, s, Append(kbq, 42), KeyAfter(KeyGoal, 42))
    BY <1>2, MappedBytes, KeySent
  <2>4. KeyAfter(KeyGoal, 42) = [shift |-> TRUE, seen |-> kept]
    BY <1>4, MappedBytes DEF KeyAfter
  <2>5. ("shift" \in held') = TRUE
    BY <1>1, <1>6
  <2>6. typed' = typed
    BY <1>1, <1>6
  <2>7. KeyGoal' = KeyAfter(KeyGoal, 42)
    BY <1>5, <2>4, <2>5, <2>6
  <2>8. QED
    BY <2>2, <2>3, <2>7
<1>7. ("shift" \in held') = down \/ k = "shift"
  <2>1. k # "shift" => ("shift" \in held' <=> down)
    BY <1>1
  <2>2. QED
    BY <2>1
<1>8. CASE k = "a"
  <2> DEFINE e == [code |-> 30, shift |-> down]
  <2>1. Sends(k, Code[k]) = <<30>> /\ Code[k] = 30
    BY <1>8 DEF Sends, Extended, Code
  <2>2. kbq' = Append(kbq, 30)
    BY <1>1, <1>2, <2>1
  <2>3. Leads(KeyState, KeyStep, s, Append(kbq, 30), KeyAfter(KeyGoal, 30))
    BY <1>2, MappedBytes, KeySent
  <2>4. KeyAfter(KeyGoal, 30) = [shift |-> down, seen |-> Append(kept, e)]
    <3>1. (down /\ 30 # 170) = down
      BY <1>4
    <3>2. KeyGoal.shift = down /\ KeyGoal.seen = kept
      BY <1>4
    <3>3. KeyAfter(KeyGoal, 30) = [shift |-> KeyGoal.shift /\ 30 # 170,
                                   seen |-> Append(KeyGoal.seen, [code |-> 30, shift |-> KeyGoal.shift])]
      BY MappedBytes DEF KeyAfter
    <3> HIDE DEF down, kept
    <3>4. QED
      BY <3>1, <3>2, <3>3
  <2>5. typed' = Append(typed, e) /\ e \in Event
    BY <1>1, <1>4, <1>8, <2>1 DEF Event
  <2>6. CharacterKeys(typed') = Append(kept, e)
    BY <1>2, <2>5, CharacterKeysAppend, MappedBytes DEF KeptNext
  <2>7. KeyGoal' = KeyAfter(KeyGoal, 30)
    BY <1>5, <1>7, <1>8, <2>4, <2>6
  <2>8. QED
    BY <2>2, <2>3, <2>7
<1>9. CASE k = "up"
  <2> DEFINE e == [code |-> 72, shift |-> down]
  <2>1. Sends(k, Code[k]) = <<224, 72>> /\ Code[k] = 72
    BY <1>9 DEF Sends, Extended, Code
  <2>2. kbq' = Append(Append(kbq, 224), 72)
    BY <1>1, <1>2, <2>1
  <2>3. /\ Leads(KeyState, KeyStep, s, Append(kbq, 224), KeyAfter(KeyGoal, 224))
        /\ Append(kbq, 224) \in Seq(Byte)
    BY <1>2, MappedBytes, KeySent
  <2>4. KeyAfter(KeyGoal, 224) = KeyGoal /\ KeyAfter(KeyGoal, 72) = KeyGoal
    BY <1>3, MappedBytes, NeutralByte
  <2>5. Leads(KeyState, KeyStep, s, kbq', KeyGoal)
    <3> DEFINE more == Append(kbq, 224)
    <3>1. Leads(KeyState, KeyStep, s, more, KeyGoal) /\ more \in Seq(Byte) /\ 72 \in Byte
      BY <2>3, <2>4, MappedBytes
    <3> HIDE DEF more
    <3>2. Leads(KeyState, KeyStep, s, Append(more, 72), KeyAfter(KeyGoal, 72))
      BY <3>1, KeySent
    <3>3. QED
      BY <2>2, <2>4, <3>2 DEF more
  <2>6. typed' = Append(typed, e) /\ e \in Event /\ e.code \notin Mapped
    BY <1>1, <1>4, <1>9, <2>1, MappedBytes DEF Event
  <2>7. CharacterKeys(typed') = kept
    BY <1>2, <2>6, CharacterKeysAppend DEF KeptNext
  <2>8. KeyGoal' = KeyGoal
    BY <1>4, <1>5, <1>7, <1>9, <2>7
  <2>9. QED
    BY <2>5, <2>8
<1>10. QED
  BY <1>6, <1>8, <1>9

LEMMA KeyReleased ==
  ASSUME NEW k \in {"shift", "a", "up"}, InputTypes, NEW s,
         Leads(KeyState, KeyStep, s, kbq, KeyGoal), Release(k)
  PROVE  Leads(KeyState, KeyStep, s, kbq', KeyGoal')
<1>1. held' = held \ {k} /\ kbq' = kbq \o Sends(k, Code[k] + 128) /\ typed' = typed
  BY DEF Release
<1>2. kbq \in Seq(Byte)
  BY DEF InputTypes
<1>3. KeyGoal \in KeyState
  BY KeyStates
<1> DEFINE down == "shift" \in held
           kept == CharacterKeys(typed)
<1>4. KeyGoal = [shift |-> down, seen |-> kept] /\ down \in BOOLEAN
  BY DEF KeyGoal
<1>5. KeyGoal' = [shift |-> ("shift" \in held'), seen |-> kept]
  BY <1>1 DEF KeyGoal
<1>6. CASE k = "shift"
  <2>1. Sends(k, Code[k] + 128) = <<170>>
    <3>1. Code[k] = 42
      BY <1>6 DEF Code
    <3>2. Code[k] + 128 = 170
      BY <3>1
    <3>3. QED
      BY <1>6, <3>2 DEF Sends, Extended
  <2>2. kbq' = Append(kbq, 170)
    <3>1. kbq' = kbq \o <<170>>
      BY <1>1, <2>1, Zenon
    <3>2. QED
      BY <1>2, <3>1
  <2>3. Leads(KeyState, KeyStep, s, Append(kbq, 170), KeyAfter(KeyGoal, 170))
    BY <1>2, MappedBytes, KeySent
  <2>4. KeyAfter(KeyGoal, 170) = [shift |-> FALSE, seen |-> kept]
    <3>1. KeyGoal.seen = kept
      BY <1>4
    <3>2. KeyAfter(KeyGoal, 170) = [shift |-> FALSE, seen |-> KeyGoal.seen]
      <4>1. (KeyGoal.shift /\ 170 # 170) = FALSE
        OBVIOUS
      <4>2. 170 # 42
        OBVIOUS
      <4>3. (IF 170 = 42 THEN TRUE ELSE KeyGoal.shift /\ 170 # 170) = FALSE
        BY <4>1, <4>2
      <4>4. (IF 170 \in Mapped THEN Append(KeyGoal.seen, [code |-> 170, shift |-> KeyGoal.shift])
             ELSE KeyGoal.seen) = KeyGoal.seen
        BY MappedBytes
      <4>5. QED
        BY <4>3, <4>4, Zenon DEF KeyAfter
    <3> HIDE DEF down, kept
    <3>3. QED
      BY <3>1, <3>2
  <2>5. ("shift" \in held') = FALSE
    BY <1>1, <1>6
  <2>6. KeyGoal' = KeyAfter(KeyGoal, 170)
    BY <1>5, <2>4, <2>5
  <2>7. QED
    BY <2>2, <2>3, <2>6
<1>7. k # "shift" => KeyGoal' = KeyGoal
  <2>1. k # "shift" => ("shift" \in held' <=> down)
    BY <1>1
  <2>2. k # "shift" => ("shift" \in held') = down
    BY <2>1
  <2>3. QED
    BY <1>4, <1>5, <2>2
<1>8. CASE k = "a"
  <2>1. Sends(k, Code[k] + 128) = <<158>>
    <3>1. Code[k] = 30
      BY <1>8 DEF Code
    <3>2. Code[k] + 128 = 158
      BY <3>1
    <3>3. QED
      BY <1>8, <3>2 DEF Sends, Extended
  <2>2. kbq' = Append(kbq, 158)
    <3>1. kbq' = kbq \o <<158>>
      BY <1>1, <2>1, Zenon
    <3>2. QED
      BY <1>2, <3>1
  <2>3. Leads(KeyState, KeyStep, s, Append(kbq, 158), KeyAfter(KeyGoal, 158))
    BY <1>2, MappedBytes, KeySent
  <2>4. KeyAfter(KeyGoal, 158) = KeyGoal
    BY <1>3, MappedBytes, NeutralByte
  <2>5. QED
    BY <1>7, <1>8, <2>2, <2>3, <2>4
<1>9. CASE k = "up"
  <2>1. Sends(k, Code[k] + 128) = <<224, 200>>
    <3>1. Code[k] = 72
      BY <1>9 DEF Code
    <3>2. Code[k] + 128 = 200
      BY <3>1
    <3>3. QED
      BY <1>9, <3>2 DEF Sends, Extended
  <2>2. kbq' = Append(Append(kbq, 224), 200)
    <3>1. kbq' = kbq \o <<224, 200>>
      BY <1>1, <2>1, Zenon
    <3>2. QED
      BY <1>2, <3>1
  <2>3. /\ Leads(KeyState, KeyStep, s, Append(kbq, 224), KeyAfter(KeyGoal, 224))
        /\ Append(kbq, 224) \in Seq(Byte)
    BY <1>2, MappedBytes, KeySent
  <2>4. KeyAfter(KeyGoal, 224) = KeyGoal /\ KeyAfter(KeyGoal, 200) = KeyGoal
    BY <1>3, MappedBytes, NeutralByte
  <2>5. Leads(KeyState, KeyStep, s, kbq', KeyGoal)
    <3> DEFINE more == Append(kbq, 224)
    <3>1. Leads(KeyState, KeyStep, s, more, KeyGoal) /\ more \in Seq(Byte) /\ 200 \in Byte
      BY <2>3, <2>4, MappedBytes
    <3> HIDE DEF more
    <3>2. Leads(KeyState, KeyStep, s, Append(more, 200), KeyAfter(KeyGoal, 200))
      BY <3>1, KeySent
    <3>3. QED
      BY <2>2, <2>4, <3>2 DEF more
  <2>6. QED
    BY <1>7, <1>9, <2>5
<1>10. QED
  BY <1>6, <1>8, <1>9

LEMMA UserKeys ==
  ASSUME UserWaits, ControllerInv, KeysOnTheWay,
         \/ \E k \in Keys : Press(k) \/ Release(k)
         \/ \E p \in Packets : Move(p)
  PROVE  KeysOnTheWay'
<1>1. InputTypes
  BY DEF ControllerInv
<1>2. ASSUME NEW k \in Keys, Press(k) \/ Release(k) PROVE KeysOnTheWay'
  <2>1. /\ pc \in Typing /\ UNCHANGED <<obf, data, pc, kbvars>>
    BY <1>2 DEF Press, Release, May
  <2>2. pc \notin Booting /\ pc' \notin Booting
    BY <2>1 DEF UserWaits, Booting
  <2> DEFINE from == IF obf = "kbd" THEN KeyAfter(KeyNow, data) ELSE KeyNow
  <2>3. Leads(KeyState, KeyStep, from, kbq, KeyGoal)
    BY <2>2 DEF KeysOnTheWay
  <2>4. k \in {"shift", "a", "up"}
    BY InputAssumption
  <2>5. KeyNow' = KeyNow
    BY <2>1 DEF KeyNow, kbvars
  <2>6. from = IF obf' = "kbd" THEN KeyAfter(KeyNow', data') ELSE KeyNow'
    BY <2>1, <2>5
  <2> HIDE DEF from
  <2>7. Leads(KeyState, KeyStep, from, kbq', KeyGoal')
    BY <1>1, <1>2, <2>3, <2>4, KeyPressed, KeyReleased
  <2>8. QED
    BY <2>2, <2>6, <2>7 DEF KeysOnTheWay
<1>3. ASSUME NEW p \in Packets, Move(p) PROVE KeysOnTheWay'
  <2>1. UNCHANGED <<obf, data, pc, kbq, kbvars, held, typed>>
    BY <1>3 DEF Move
  <2>2. QED
    BY <2>1, KeysLeft
<1>4. QED
  BY <1>2, <1>3
-----------------------------------------------------------------------------
(* The mouse.                                                              *)

\* The controller's and the keyboard's steps leave the mouse alone.
LEMMA MovesLeft ==
  ASSUME MovesOnTheWay, UNCHANGED <<auxq, msvars, moved>>,
         pc = "done" <=> pc' = "done",
         pc = "done" => (obf = "aux" <=> obf' = "aux") /\ (obf = "aux" => data' = data)
  PROVE  MovesOnTheWay'
<1>1. MouseNow' = MouseNow /\ moved' = moved /\ auxq' = auxq
  BY DEF MouseNow, msvars
<1>2. CASE pc # "done"
  BY <1>1, <1>2 DEF MovesOnTheWay, MouseGoal
<1>3. CASE pc = "done"
  <2> DEFINE from == IF obf = "aux" THEN MouseAfter(MouseNow, data) ELSE MouseNow
             to == IF obf' = "aux" THEN MouseAfter(MouseNow', data') ELSE MouseNow'
  <2>1. to = from
    BY <1>1, <1>3
  <2>2. PICK s \in MouseState : MouseGoal(s) /\ Leads(MouseState, MouseStep, from, auxq, s)
    BY <1>3 DEF MovesOnTheWay
  <2>3. MouseGoal(s)'
    BY <1>1, <2>2 DEF MouseGoal
  <2>4. Leads(MouseState, MouseStep, to, auxq', s)
    <3> HIDE DEF from, to
    <3>1. QED
      BY <1>1, <2>1, <2>2
  <2>5. QED
    BY <1>3, <2>3, <2>4 DEF MovesOnTheWay
<1>4. QED
  BY <1>2, <1>3

LEMMA MouseAfterType ==
  ASSUME NEW s \in MouseState, NEW b \in Byte
  PROVE  MouseAfter(s, b) \in MouseState
<1>1. MouseStep \in [MouseState \X Byte -> MouseState] /\ MouseStep[<<s, b>>] = MouseAfter(s, b)
  BY MouseStepType
<1>2. MouseStep[<<s, b>>] \in MouseState
  BY <1>1
<1>3. QED
  BY <1>1, <1>2

\* One more byte behind those on their way.
LEMMA MouseSent ==
  ASSUME NEW s, NEW t, NEW bytes \in Seq(Byte), NEW b \in Byte,
         Leads(MouseState, MouseStep, s, bytes, t)
  PROVE  /\ Leads(MouseState, MouseStep, s, Append(bytes, b), MouseAfter(t, b))
         /\ Append(bytes, b) \in Seq(Byte)
<1>1. MouseStep \in [MouseState \X Byte -> MouseState]
  BY MouseStepType
<1>2. t \in MouseState /\ Leads(MouseState, MouseStep, s, Append(bytes, b), MouseStep[<<t, b>>])
  BY <1>1, LeadsAppend
<1>3. MouseStep[<<t, b>>] = MouseAfter(t, b)
  BY <1>2, MouseStepType
<1>4. QED
  BY <1>2, <1>3

LEMMA MouseTyped == InputTypes => MouseNow \in MouseState
BY DEF InputTypes, MouseNow, MouseState

LEMMA LoadAuxMoves == ControllerInv /\ MovesOnTheWay /\ LoadAux => MovesOnTheWay'
<1> SUFFICES ASSUME ControllerInv, MovesOnTheWay, LoadAux PROVE MovesOnTheWay'
  OBVIOUS
<1>1. /\ obf = "empty" /\ auxq # <<>> /\ obf' = "aux" /\ data' = Head(auxq) /\ auxq' = Tail(auxq)
      /\ UNCHANGED <<pc, msvars, moved>>
  BY DEF LoadAux, user
<1>2. InputTypes
  BY DEF ControllerInv
<1>3. auxq \in Seq(Byte) /\ Head(auxq) \in Byte
  BY <1>1, <1>2 DEF InputTypes
<1>4. MouseNow' = MouseNow
  BY <1>1 DEF MouseNow, msvars
<1>5. CASE pc # "done"
  BY <1>1, <1>4, <1>5 DEF MovesOnTheWay, MouseGoal
<1>6. CASE pc = "done"
  <2>1. PICK s \in MouseState : MouseGoal(s) /\ Leads(MouseState, MouseStep, MouseNow, auxq, s)
    BY <1>1, <1>6 DEF MovesOnTheWay
  <2>2. Leads(MouseState, MouseStep, MouseStep[<<MouseNow, Head(auxq)>>], Tail(auxq), s)
    BY <1>1, <1>3, <2>1, LeadsHead
  <2>3. MouseStep[<<MouseNow, Head(auxq)>>] = MouseAfter(MouseNow, data')
    BY <1>1, <1>2, <1>3, MouseTyped, MouseStepType
  <2>4. Leads(MouseState, MouseStep, MouseAfter(MouseNow', data'), auxq', s)
    BY <1>1, <1>4, <2>2, <2>3
  <2>5. MouseGoal(s)'
    BY <1>1, <2>1 DEF MouseGoal
  <2>6. QED
    BY <1>1, <1>6, <2>4, <2>5 DEF MovesOnTheWay
<1>7. QED
  BY <1>5, <1>6

LEMMA IRQ12Moves == ControllerInv /\ MovesOnTheWay /\ IRQ12 => MovesOnTheWay'
<1> SUFFICES ASSUME ControllerInv, MovesOnTheWay, IRQ12 PROVE MovesOnTheWay'
  OBVIOUS
<1>1. /\ InputTypes /\ 12 \in irr /\ obf = "aux"
      /\ UNCHANGED <<data, auxq, pc, moved>>
  BY DEF ControllerInv, IRQ12, BytesAnnounced, user
<1>2. pc \notin Booting
  BY <1>1 DEF ControllerInv, BytesAnnounced
<1>3. CASE pc # "done"
  <2>1. UNCHANGED <<obf, msvars>>
    BY <1>2, <1>3 DEF IRQ12, ControllerInv, Configured
  <2>2. QED
    BY <1>1, <2>1, MovesLeft
<1>4. CASE pc = "done"
  <2>1. mouse_handler
    BY <1>4 DEF IRQ12, ControllerInv, Configured, Booting
  <2>2. obf' = "empty" /\ MouseNow' = MouseAfter(MouseNow, data)
    BY <1>1, <2>1, MouseTaken DEF MouseNow
  <2>3. PICK s \in MouseState :
          MouseGoal(s) /\ Leads(MouseState, MouseStep, MouseAfter(MouseNow, data), auxq, s)
    BY <1>1, <1>4 DEF MovesOnTheWay
  <2>4. Leads(MouseState, MouseStep, MouseNow', auxq', s)
    BY <1>1, <2>2, <2>3
  <2>5. MouseGoal(s)'
    BY <1>1, <2>3 DEF MouseGoal
  <2>6. obf' # "aux" /\ pc' = "done"
    BY <1>1, <1>4, <2>2
  <2>7. QED
    BY <2>4, <2>5, <2>6 DEF MovesOnTheWay
<1>5. QED
  BY <1>3, <1>4

LEMMA KernelMainMoves == ControllerInv /\ MovesOnTheWay /\ KernelMain => MovesOnTheWay'
<1> SUFFICES ASSUME ControllerInv, MovesOnTheWay, KernelMain PROVE MovesOnTheWay'
  OBVIOUS
<1>1. UNCHANGED <<msvars, moved>> /\ pc # "done"
  BY DEF KernelMain, mouse_install, resetKeyboard, Install, FlushTest, Read, AskConfig, Wait,
         WriteConfig, mouse_write, Quiet, Goto, user
<1>2. MouseNow' = MouseNow /\ moved' = moved /\ moved = <<>> /\ MouseGoal(MouseNow)
  BY <1>1 DEF MouseNow, msvars, MovesOnTheWay
<1>3. MouseGoal(MouseNow)'
  BY <1>2 DEF MouseGoal
<1>4. CASE pc' # "done"
  BY <1>2, <1>3, <1>4 DEF MovesOnTheWay
<1>5. CASE pc' = "done"
  <2>1. Install(12, "install", "done")
    BY <1>5 DEF KernelMain, mouse_install, resetKeyboard, Install, FlushTest, Read, AskConfig, Wait,
         WriteConfig, mouse_write, Goto
  <2>2. pc = "install" /\ UNCHANGED <<obf, auxq>>
    BY <2>1 DEF Install, Goto, ctl
  <2>3. obf' # "aux" /\ auxq' = <<>>
    BY <2>2 DEF ControllerInv, Answers
  <2>4. MouseNow' \in MouseState
    BY <1>2, MouseTyped DEF ControllerInv
  <2>5. Leads(MouseState, MouseStep, MouseNow', <<>>, MouseNow')
    BY <2>4, LeadsNone
  <2>6. QED
    BY <1>3, <1>5, <2>3, <2>4, <2>5 DEF MovesOnTheWay
<1>6. QED
  BY <1>4, <1>5

\* The three bytes of a packet, to a handler that waits for the first.
LEMMA ThreeBytes ==
  ASSUME NEW s \in MouseState, s.cycle = 0, NEW a \in Byte, NEW b \in Byte, NEW c \in Byte, Bit(a, 8)
  PROVE  LET t == MouseAfter(MouseAfter(MouseAfter(s, a), b), c)
             x == AtLeastZero(s.x + SignedChar(b))
             y == AtLeastZero(s.y - SignedChar(c))
         IN  /\ MouseAfter(s, a) \in MouseState /\ MouseAfter(MouseAfter(s, a), b) \in MouseState
             /\ t \in MouseState /\ t.cycle = 0
             /\ a >= 64 => t.seen = s.seen /\ t.x = s.x /\ t.y = s.y
             /\ a < 64 => /\ t.seen = Append(s.seen, [x |-> x, y |-> y, buttons |-> a % 8])
                          /\ t.x = x /\ t.y = y
<1> DEFINE p1 == [s.packet EXCEPT ![1] = a]
           p2 == [p1 EXCEPT ![2] = b]
           p3 == [p2 EXCEPT ![3] = c]
           s1 == InPacket(s, 1, p1)
           s2 == InPacket(s1, 2, p2)
           t  == MouseAfter(s2, c)
           x == AtLeastZero(s.x + SignedChar(b))
           y == AtLeastZero(s.y - SignedChar(c))
<1>1. s.packet \in Packet
  BY DEF MouseState
<1>2. p2[1] = a /\ p3[1] = a /\ p3[2] = b /\ p3[3] = c
  BY <1>1 DEF Packet
<1>3. /\ s1.cycle = 1 /\ s1.packet = p1 /\ s1.x = s.x /\ s1.y = s.y /\ s1.seen = s.seen
      /\ s2.cycle = 2 /\ s2.packet = p2 /\ s2.x = s.x /\ s2.y = s.y /\ s2.seen = s.seen
  BY DEF InPacket
<1>4. MouseAfter(s, a) = s1
  BY DEF MouseAfter
<1>5. s1 \in MouseState
  BY <1>4, MouseAfterType
<1>6. MouseAfter(s1, b) = s2
  <2>1. s1.cycle = 1 /\ [s1.packet EXCEPT ![2] = b] = p2
    BY <1>3
  <2> HIDE DEF s1, p1, p2
  <2>2. s2 = InPacket(s1, 2, p2)
    OBVIOUS
  <2>3. MouseAfter(s1, b) = InPacket(s1, 2, [s1.packet EXCEPT ![2] = b])
    BY <2>1 DEF MouseAfter
  <2>4. QED
    BY <2>1, <2>2, <2>3
<1>7. s2 \in MouseState
  <2> HIDE DEF s1, s2
  <2>1. QED
    BY <1>5, <1>6, MouseAfterType
<1> HIDE DEF s1, s2
<1>8. t \in MouseState
  BY <1>7, MouseAfterType
<1>9. t = IF a >= 64 THEN InPacket(s2, 0, p3) ELSE MouseAt(s2, p3)
  <2> HIDE DEF p1, p2
  <2>1. QED
    BY <1>2, <1>3 DEF MouseAfter
<1> HIDE DEF t, p3
<1>10. ASSUME a >= 64 PROVE t.cycle = 0 /\ t.seen = s.seen /\ t.x = s.x /\ t.y = s.y
  BY <1>3, <1>9, <1>10 DEF InPacket
<1>11. ASSUME ~(a >= 64)
       PROVE  /\ t.cycle = 0 /\ t.x = x /\ t.y = y
              /\ t.seen = Append(s.seen, [x |-> x, y |-> y, buttons |-> a % 8])
  BY <1>2, <1>3, <1>9, <1>11 DEF MouseAt
<1>12. a < 64 <=> ~(a >= 64)
  BY DEF Byte
<1> HIDE DEF x, y
<1>13. QED
  BY <1>4, <1>5, <1>6, <1>7, <1>8, <1>10, <1>11, <1>12 DEF t, x, y

\* A short movement is what a signed char makes of its byte.
LEMMA ShortIsSignedChar ==
  ASSUME NEW p \in Byte \X Byte \X Byte
  PROVE  /\ Right(p) \in Int /\ (Short(Right(p)) => Right(p) = SignedChar(p[2]))
         /\ Up(p) \in Int /\ (Short(Up(p)) => Up(p) = SignedChar(p[3]))
<1>1. PICK b \in 0 .. 255, c \in 0 .. 255 : b = p[2] /\ c = p[3]
  BY DEF Byte
<1>2. ASSUME NEW s \in Nat
      PROVE  /\ Movement(p, 2, s) = b \/ Movement(p, 2, s) = b - 256
             /\ Movement(p, 3, s) = c \/ Movement(p, 3, s) = c - 256
  <2>1. CASE Bit(p[1], s)
    BY <1>1, <2>1 DEF Movement
  <2>2. CASE ~Bit(p[1], s)
    BY <1>1, <2>2 DEF Movement
  <2>3. QED
    BY <2>1, <2>2
<1>3. PICK r, u : /\ r = Right(p) /\ u = Up(p)
                  /\ (r = b \/ r = b - 256) /\ (u = c \/ u = c - 256)
  BY <1>2 DEF Right, Up
<1>4. /\ r \in Int /\ (Short(r) => r = SignedChar(b))
      /\ u \in Int /\ (Short(u) => u = SignedChar(c))
  BY <1>3 DEF Short, SignedChar
<1>5. QED
  BY <1>1, <1>3, <1>4

LEMMA UserMoves ==
  ASSUME UserWaits, ControllerInv, MovesOnTheWay,
         \/ \E k \in Keys : Press(k) \/ Release(k)
         \/ \E p \in Packets : Move(p)
  PROVE  MovesOnTheWay'
<1>1. InputTypes
  BY DEF ControllerInv
<1>2. ASSUME NEW k \in Keys, Press(k) \/ Release(k) PROVE MovesOnTheWay'
  <2>1. UNCHANGED <<obf, data, pc, auxq, msvars, moved>>
    BY <1>2 DEF Press, Release
  <2>2. QED
    BY <2>1, MovesLeft
<1>3. ASSUME NEW p \in Packets, Move(p) PROVE MovesOnTheWay'
  <2> DEFINE at == IF moved = <<>> THEN [x |-> 0, y |-> 0, far |-> FALSE] ELSE moved[Len(moved)]
             far == at.far \/ ~Short(Right(p)) \/ ~Short(Up(p))
             new == [x |-> AtLeastZero(at.x + Right(p)), y |-> AtLeastZero(at.y - Up(p)),
                     buttons |-> p[1] % 8, far |-> far]
  <2>1. /\ pc = "done" /\ auxq' = auxq \o p
        /\ moved' = (IF Overflowed(p) THEN moved ELSE Append(moved, new))
        /\ UNCHANGED <<obf, data, pc, msvars>>
    BY <1>3 DEF Move, May, UserWaits
  <2>2. p \in Byte \X Byte \X Byte /\ Bit(p[1], 8)
    BY InputAssumption
  <2>3. PICK a \in Byte, b \in Byte, c \in Byte : p = <<a, b, c>>
    BY <2>2
  <2>4. p[1] = a /\ p[2] = b /\ p[3] = c
    BY <2>3
  <2>5. auxq \in Seq(Byte) /\ moved \in Seq(Wanted)
    BY <1>1 DEF InputTypes
  <2>6. auxq' = Append(Append(Append(auxq, a), b), c)
    BY <2>1, <2>3, <2>5
  <2>7. Overflowed(p) <=> a >= 64
    BY <2>4, Bits DEF Overflowed
  <2> DEFINE from == IF obf = "aux" THEN MouseAfter(MouseNow, data) ELSE MouseNow
  <2>8. PICK s \in MouseState : MouseGoal(s) /\ Leads(MouseState, MouseStep, from, auxq, s)
    BY <2>1 DEF MovesOnTheWay
  <2>9. from = IF obf' = "aux" THEN MouseAfter(MouseNow', data') ELSE MouseNow'
    <3>1. MouseNow' = MouseNow
      BY <2>1 DEF MouseNow, msvars
    <3>2. QED
      BY <2>1, <3>1
  <2> HIDE DEF from
  <2> DEFINE x == AtLeastZero(s.x + SignedChar(b))
             y == AtLeastZero(s.y - SignedChar(c))
             got == [x |-> x, y |-> y, buttons |-> a % 8]
  <2>10. /\ s.cycle = 0 /\ Len(s.seen) = Len(moved) /\ s.seen \in Seq(Moved)
         /\ at.far \in BOOLEAN /\ (~at.far => at.x = s.x /\ at.y = s.y)
    <3>1. s.cycle = 0 /\ Len(s.seen) = Len(moved) /\ s.seen \in Seq(Moved)
      BY <2>8 DEF MouseGoal, MouseState
    <3>2. CASE moved = <<>>
      <4>1. Len(s.seen) = 0 /\ s.seen = <<>>
        BY <3>1, <3>2
      <4>2. QED
        BY <2>8, <3>1, <3>2, <4>1 DEF MouseGoal
    <3>3. CASE moved # <<>>
      <4>1. Len(moved) \in DOMAIN moved /\ moved[Len(moved)] \in Wanted
        BY <2>5, <3>3
      <4>2. PICK n : n = Len(moved)
        OBVIOUS
      <4>3. Follows(s.seen[n], moved[n])
        BY <2>8, <4>1, <4>2 DEF MouseGoal
      <4>4. s.seen # <<>>
        BY <2>5, <3>1, <3>3
      <4>5. s.x = s.seen[n].x /\ s.y = s.seen[n].y
        BY <2>8, <3>1, <4>2, <4>4 DEF MouseGoal
      <4>6. QED
        BY <3>1, <3>3, <4>1, <4>2, <4>3, <4>5 DEF Follows, Wanted
    <3>4. QED
      BY <3>2, <3>3
  <2> DEFINE s1 == MouseAfter(s, a)
             s2 == MouseAfter(s1, b)
             t  == MouseAfter(s2, c)
  <2>11. Bit(a, 8)
    BY <2>2, <2>4
  <2>12. /\ s1 \in MouseState /\ s2 \in MouseState /\ t \in MouseState /\ t.cycle = 0
         /\ a >= 64 => t.seen = s.seen /\ t.x = s.x /\ t.y = s.y
         /\ a < 64 => /\ t.seen = Append(s.seen, [x |-> AtLeastZero(s.x + SignedChar(b)),
                                                  y |-> AtLeastZero(s.y - SignedChar(c)),
                                                  buttons |-> a % 8])
                      /\ t.x = AtLeastZero(s.x + SignedChar(b))
                      /\ t.y = AtLeastZero(s.y - SignedChar(c))
    BY <2>10, <2>11, ThreeBytes
  <2> HIDE DEF s1, s2, t
  <2> DEFINE q1 == Append(auxq, a)
             q2 == Append(q1, b)
  <2>15. Leads(MouseState, MouseStep, from, q1, s1) /\ q1 \in Seq(Byte)
    BY <2>5, <2>8, MouseSent DEF s1
  <2>16. Leads(MouseState, MouseStep, from, q2, s2) /\ q2 \in Seq(Byte)
    <3> HIDE DEF q1
    <3>1. QED
      BY <2>15, MouseSent DEF s2
  <2>17. Leads(MouseState, MouseStep, from, Append(q2, c), t)
    <3> HIDE DEF q2
    <3>1. QED
      BY <2>16, MouseSent DEF t
  <2>18. Leads(MouseState, MouseStep, from, auxq', t)
    BY <2>6, <2>17
  <2>19. Follows(got, new)
    <3>1. new.far => far
      OBVIOUS
    <3>2. ASSUME ~far PROVE new.x = x /\ new.y = y
      <4>1. at.x = s.x /\ at.y = s.y /\ Short(Right(p)) /\ Short(Up(p))
        BY <2>10, <3>2
      <4>2. Right(p) = SignedChar(b) /\ Up(p) = SignedChar(c)
        BY <2>2, <2>4, <4>1, ShortIsSignedChar
      <4>3. new.x = AtLeastZero(at.x + Right(p)) /\ new.y = AtLeastZero(at.y - Up(p))
        OBVIOUS
      <4> HIDE DEF at, new
      <4>4. QED
        BY <4>1, <4>2, <4>3
    <3>3. got.buttons = new.buttons /\ got.x = x /\ got.y = y /\ new.far = far
      BY <2>4
    <3> HIDE DEF at, far, new, got, x, y
    <3>4. QED
      BY <3>2, <3>3 DEF Follows
  <2>20. got \in Moved /\ got.x = x /\ got.y = y
    <3>1. s.x \in Nat /\ s.y \in Nat
      BY DEF MouseState
    <3>2. SignedChar(b) \in Int /\ SignedChar(c) \in Int /\ a % 8 \in Nat
      BY DEF SignedChar, Byte
    <3>3. x \in Nat /\ y \in Nat
      BY <3>1, <3>2 DEF AtLeastZero
    <3> HIDE DEF x, y
    <3>4. QED
      BY <3>2, <3>3 DEF Moved
  <2> HIDE DEF at, far, got, x, y
  <2>21. MouseGoal(t)'
    <3>1. CASE a >= 64
      <4>1. moved' = moved
        BY <2>1, <2>7, <3>1
      <4>2. QED
        BY <2>8, <2>10, <2>12, <3>1, <4>1 DEF MouseGoal
    <3>2. CASE a < 64
      <4>1. moved' = Append(moved, new)
        BY <2>1, <2>7, <3>2 DEF Byte
      <4>2. t.cycle = 0 /\ t.seen = Append(s.seen, got) /\ t.x = got.x /\ t.y = got.y
        BY <2>12, <2>20, <3>2 DEF got, x, y
      <4> HIDE DEF new
      <4>3. PICK n \in Nat : n = Len(moved) /\ DOMAIN moved = 1 .. n
        BY <2>5
      <4>4. /\ Len(moved') = n + 1 /\ DOMAIN moved' = 1 .. n + 1
            /\ (\A i \in 1 .. n : moved'[i] = moved[i]) /\ moved'[n + 1] = new
        BY <2>5, <4>1, <4>3, AppendProperties
      <4>5. /\ Len(t.seen) = n + 1 /\ t.seen # <<>>
            /\ (\A i \in 1 .. n : t.seen[i] = s.seen[i]) /\ t.seen[n + 1] = got
        BY <2>10, <2>20, <4>2, <4>3, AppendProperties
      <4>6. ASSUME NEW i \in 1 .. n + 1 PROVE Follows(t.seen[i], moved'[i])
        <5>1. CASE i \in 1 .. n
          <6>1. Follows(s.seen[i], moved[i])
            BY <2>8, <4>3, <5>1 DEF MouseGoal
          <6>2. QED
            BY <4>4, <4>5, <5>1, <6>1
        <5>2. CASE i = n + 1
          BY <2>19, <4>4, <4>5, <5>2
        <5>3. QED
          BY <5>1, <5>2
      <4>7. QED
        BY <4>2, <4>4, <4>5, <4>6 DEF MouseGoal
    <3>3. QED
      BY <3>1, <3>2 DEF Byte
  <2>22. pc' = "done"
    BY <2>1
  <2>23. QED
    BY <2>9, <2>12, <2>18, <2>21, <2>22 DEF MovesOnTheWay
<1>4. QED
  BY <1>2, <1>3

-----------------------------------------------------------------------------
(* The theorems.                                                           *)

LEMMA InputStep == UserWaits /\ InputInv /\ [Next]_vars => InputInv'
<1> SUFFICES ASSUME UserWaits, InputInv, [Next]_vars PROVE InputInv'
  OBVIOUS
<1>1. ControllerInv /\ KeysOnTheWay /\ MovesOnTheWay
  BY DEF InputInv
<1>2. CASE LoadKbd
  <2>1. obf # "aux" /\ obf' # "aux" /\ UNCHANGED <<auxq, msvars, moved, pc>>
    BY <1>2 DEF LoadKbd, user
  <2>2. QED
    BY <1>1, <1>2, <2>1, LoadKbdController, LoadKbdKeys, MovesLeft DEF InputInv
<1>3. CASE LoadAux
  <2>1. obf # "kbd" /\ obf' # "kbd" /\ UNCHANGED <<kbq, kbvars, held, typed, pc>>
    BY <1>3 DEF LoadAux, user
  <2>2. QED
    BY <1>1, <1>3, <2>1, LoadAuxController, LoadAuxMoves, KeysLeft DEF InputInv
<1>4. CASE IRQ1
  <2>1. UNCHANGED <<auxq, msvars, moved, pc, data>>
    BY <1>4 DEF IRQ1, user
  <2>2. pc = "done" => obf # "aux" /\ obf' # "aux"
    <3>1. pc = "done" => obf = "kbd" /\ KeyboardHandler
      BY <1>1, <1>4 DEF IRQ1, ControllerInv, BytesAnnounced, Booting, Configured
    <3>2. QED
      BY <1>1, <3>1 DEF KeyboardHandler, ReadPort
  <2>3. QED
    BY <1>1, <1>4, <2>1, <2>2, IRQ1Controller, IRQ1Keys, MovesLeft DEF InputInv
<1>5. CASE IRQ12
  <2>1. UNCHANGED <<kbq, kbvars, held, typed, pc, data>>
    BY <1>5 DEF IRQ12, user
  <2>2. obf # "kbd" /\ obf' # "kbd"
    <3>1. obf = "aux"
      BY <1>1, <1>5 DEF IRQ12, ControllerInv, BytesAnnounced
    <3>2. obf' \in {obf, "empty"}
      BY <1>5 DEF IRQ12, mouse_handler, ReadPort
    <3>3. QED
      BY <3>1, <3>2
  <2>3. QED
    BY <1>1, <1>5, <2>1, <2>2, IRQ12Controller, IRQ12Moves, KeysLeft DEF InputInv
<1>6. CASE KernelMain
  BY <1>1, <1>6, KernelMainController, KernelMainKeys, KernelMainMoves DEF InputInv
<1>7. CASE (\E k \in Keys : Press(k) \/ Release(k)) \/ (\E p \in Packets : Move(p))
  BY <1>1, <1>7, UserController, UserKeys, UserMoves DEF InputInv
<1>8. CASE UNCHANGED vars
  <2>1. UNCHANGED <<obf, data, config, kbq, auxq, irr, handlers, pc, shift_key, meta_mode, keysSeen,
                    mouse_cycle, mouse_packet, mouse_x, mouse_y, movesSeen, held, typed, moved>>
    BY <1>8 DEF vars, ctl, kbvars, msvars, user
  <2>2. InputTypes'
    BY <1>1, <2>1 DEF ControllerInv, InputTypes
  <2>3. Configured' /\ BytesAnnounced' /\ Answers' /\ ConfigAnswered'
    BY <1>1, <2>1 DEF ControllerInv, Configured, BytesAnnounced, Answers, ConfigAnswered
  <2>4. UNCHANGED <<kbq, kbvars, held, typed, auxq, msvars, moved>>
    BY <2>1 DEF kbvars, msvars
  <2>5. KeysOnTheWay' /\ MovesOnTheWay'
    BY <1>1, <2>1, <2>4, KeysLeft, MovesLeft
  <2>6. QED
    BY <2>2, <2>3, <2>5 DEF InputInv, ControllerInv
<1>9. QED
  BY <1>2, <1>3, <1>4, <1>5, <1>6, <1>7, <1>8 DEF Next

\* What the boot leaves is announced or read, what is in the controller and its
\* queues leads the handlers to what the user did, for any keys, packets and
\* order of bytes and interrupts.
THEOREM InputInvariant == UserWaits => (Spec => []InputInv)
<1>1. Init => InputInv
  BY InputInit
<1> SUFFICES ASSUME UserWaits PROVE Spec => []InputInv
  OBVIOUS
<1>2. InputInv /\ [Next]_vars => InputInv'
  BY InputStep
<1>3. QED
  BY <1>1, <1>2, PTL DEF Spec

\* No byte is stranded in the controller once the drivers are there.
THEOREM InputNeverStranded == UserWaits => (Spec => []NothingStranded)
<1> SUFFICES ASSUME UserWaits PROVE Spec => []NothingStranded
  OBVIOUS
<1>1. InputInv => NothingStranded
  <2> SUFFICES ASSUME InputInv, pc = "done" PROVE NothingStranded
    BY DEF NothingStranded
  <2>1. pc \notin Booting
    BY DEF Booting
  <2>2. config = 67 /\ handlers = {1, 12}
    BY <2>1 DEF InputInv, ControllerInv, Configured, Booting
  <2>3. (obf = "kbd" => 1 \in irr) /\ (obf = "aux" => 12 \in irr)
    BY <2>1 DEF InputInv, ControllerInv, BytesAnnounced
  <2>4. QED
    BY <2>2, <2>3, ConfigBits DEF NothingStranded
<1>2. QED
  BY <1>1, InputInvariant, PTL

\* Once everything is handled the callbacks were given the characters typed.
THEOREM CharactersAsTyped == UserWaits => (Spec => []KeysAsTyped)
<1> SUFFICES ASSUME UserWaits PROVE Spec => []KeysAsTyped
  OBVIOUS
<1>1. InputInv => KeysAsTyped
  <2> SUFFICES ASSUME InputInv, AllHandled PROVE CharacterKeys(keysSeen) = CharacterKeys(typed)
    BY DEF KeysAsTyped
  <2>1. kbq = <<>> /\ obf # "kbd" /\ InputTypes
    BY DEF AllHandled, InputInv, ControllerInv
  <2>2. KeyNow = KeyGoal
    <3>1. CASE pc \in Booting
      BY <3>1 DEF InputInv, KeysOnTheWay
    <3>2. CASE pc \notin Booting
      <4>1. Leads(KeyState, KeyStep, KeyNow, <<>>, KeyGoal)
        BY <2>1, <3>2 DEF InputInv, KeysOnTheWay
      <4>2. QED
        BY <2>1, <4>1, KeyStates, LeadsNone
    <3>3. QED
      BY <3>1, <3>2
  <2>3. KeyNow.seen = KeyGoal.seen
    BY <2>2
  <2>4. QED
    BY <2>3 DEF KeyNow, KeyGoal
<1>2. QED
  BY <1>1, InputInvariant, PTL

\* Once everything is handled the callbacks were given each movement, and the
\* pointer is where the user moved it, if every movement fits a signed char.
THEOREM PointerFollowsMouse == UserWaits => (Spec => []PointerFollows)
<1> SUFFICES ASSUME UserWaits PROVE Spec => []PointerFollows
  OBVIOUS
<1>1. InputInv => PointerFollows
  <2> SUFFICES ASSUME InputInv, AllHandled
               PROVE  /\ mouse_cycle = 0 /\ Len(movesSeen) = Len(moved)
                      /\ \A i \in DOMAIN moved : Follows(movesSeen[i], moved[i])
                      /\ moved # <<>> => LET last == movesSeen[Len(moved)]
                                         IN  mouse_x = last.x /\ mouse_y = last.y
    BY DEF PointerFollows
  <2>1. auxq = <<>> /\ obf # "aux" /\ InputTypes
    BY DEF AllHandled, InputInv, ControllerInv
  <2>2. MouseGoal(MouseNow)
    <3>1. CASE pc # "done"
      BY <3>1 DEF InputInv, MovesOnTheWay
    <3>2. CASE pc = "done"
      <4>1. PICK s \in MouseState : MouseGoal(s) /\ Leads(MouseState, MouseStep, MouseNow, <<>>, s)
        BY <2>1, <3>2 DEF InputInv, MovesOnTheWay
      <4>2. MouseNow = s
        BY <2>1, <4>1, MouseTyped, LeadsNone
      <4>3. QED
        BY <4>1, <4>2
    <3>3. QED
      BY <3>1, <3>2
  <2>3. /\ MouseNow.cycle = mouse_cycle /\ MouseNow.seen = movesSeen
        /\ MouseNow.x = mouse_x /\ MouseNow.y = mouse_y
    BY DEF MouseNow
  <2>4. moved # <<>> => movesSeen # <<>>
    <3>1. moved \in Seq(Wanted) /\ Len(movesSeen) = Len(moved)
      BY <2>1, <2>2, <2>3 DEF InputTypes, MouseGoal
    <3>2. QED
      BY <3>1
  <2>5. QED
    BY <2>2, <2>3, <2>4 DEF MouseGoal
<1>2. QED
  BY <1>1, InputInvariant, PTL

-----------------------------------------------------------------------------
(* The card, the driver and the scan.                                       *)

Phases   == {"idle", "reset", "enable", "install", "copy_tx", "copy_buffer", "copy_io",
             "copy_ptr", "arp_size", "arp_ip", "arp_mac"}
Adding   == {"arp_size", "arp_ip", "arp_mac"}
Working  == {"idle", "reset"} \cup Adding
Isrs == {"ROK", "TOK"}
Ends     == [to : Hosts, target : {"me"}]
Garbage  == [type : {"garbage"}, len : Nat]
Seen     == Frames \cup Garbage
Drivers  == {"RTL8139_HANDLER", "AC97_IRQ_HANDLER"}

CardTypes ==
  /\ on \in BOOLEAN /\ isr \subseteq Isrs /\ status \subseteq Isrs
  /\ irq \in {"none", "receive", "ack"} /\ init \in Phases
  /\ cardbuf \in 0 .. INITS /\ fresh \in 0 .. INITS
  /\ wp \in 0 .. RING - 1 /\ rp \in 0 .. RING - 1 /\ curr \in 0 .. NDESC - 1
  /\ desc \in [0 .. NDESC - 1 -> {<<>>} \cup {<<e>> : e \in Ends}]
  /\ rings \in [0 .. INITS -> [0 .. RING - 1 -> Frames \cup {Nothing}]]
  /\ NICDevice \in [tx_current : 0 .. NDESC - 1, rx_buffer : 0 .. INITS, ioaddr : BOOLEAN,
                    current_packet_ptr : Nat]
  /\ arp_table = [ip |-> arp_table.ip, mac |-> arp_table.mac]
  /\ received \in Seq(Frames) /\ handled \in Seq(Seen) /\ merged \in Nat

\* Of the frames received those are handled that raised an interrupt of their
\* own, but for one.
Counted ==
  /\ irq # "none" => status \subseteq isr
  /\ irq = "receive" => "ROK" \in status
  /\ Len(received) = Len(handled) + merged
       + (IF "ROK" \in isr /\ ~(irq = "ack" /\ "ROK" \in status) THEN 1 ELSE 0)

NetTypes == CardTypes /\ Counted

\* The transmit side: nothing waits in a descriptor, and the driver's next
\* descriptor is the card's.
Sending ==
  early = {} =>
    /\ wire \in Seq(Ends) /\ Recipients(wire) = AnswersTo(handled)[Len(handled)]
    /\ \A d \in 0 .. NDESC - 1 : desc[d] = <<>>
    /\ init \notin {"enable", "install", "copy_tx"} => NICDevice.tx_current = curr
    /\ init \notin {"idle", "reset"} => curr = 0 /\ handled = <<>>

\* The ARP table.
Learning ==
  early = {} =>
    /\ init \in {"idle", "reset"} /\ fresh > 0 =>
         arp_table = [ip |-> LastHeard(handled), mac |-> LastHeard(handled)]
    /\ init = "arp_mac" => arp_table.ip = Broadcast

AnswerInv == Sending /\ Learning

\* Which buffer the card and the driver use, step by step of RTL8139_TEST.
Buffers ==
  /\ init = "enable" => ~on /\ received = <<>>
  /\ init # "enable" => cardbuf = fresh
  /\ init \in {"copy_io", "copy_ptr"} => NICDevice.rx_buffer = fresh
  /\ init \in Working => NICDevice.rx_buffer = cardbuf

\* Where the frames of the first lap and the two sides stand in the ring.
Places ==
  LET n == Len(handled)
      L == Len(received)
      B == Bytes(received)
  IN  /\ init \notin Working => handled = <<>>
      /\ \A i \in 1 .. n : B[i - 1] < RING => handled[i] = received[i]
      /\ B[n] < RING =>
           /\ init \in Working => NICDevice.current_packet_ptr = B[n]
           /\ rp = B[n] /\ B[L] - B[n] < RING
           /\ wp = (IF B[L] < RING THEN B[L] ELSE B[L] - RING)
           /\ \A i \in n + 1 .. L : B[i - 1] < RING => rings[cardbuf][B[i - 1]] = received[i]

RingInv == Buffers /\ ("copyNIC" \notin early => Places)

\* The table of handlers has each driver once.
TableTypes ==
  /\ irq_routines \in [0 .. IRQ_COUNT - 1 -> [Slots -> Drivers \cup {NULL}]]
  /\ \A l \in 0 .. IRQ_COUNT - 1 : \A i, j \in Slots :
       irq_routines[l][i] = irq_routines[l][j] /\ irq_routines[l][i] # NULL => i = j

\* The functions the scan gets to, and those it has left.
Reachable(d) == d[2] = 0 \/ (Present(d[1], 0) /\ Multi(d[1]))
Behind(d)    == d[1] < slot \/ (d[1] = slot /\ d[2] < function)

ScanPlaces ==
  /\ machine \in Machines
  /\ slot \in 0 .. SLOTS /\ function \in 0 .. FUNCTIONS - 1
  /\ calls \in [DOMAIN machine -> Nat]
  /\ \A d \in DOMAIN machine : calls[d] <= Rows(machine[d].name)
  /\ slot = SLOTS => init = "idle"
  /\ 0 \in Buses => \A d \in DOMAIN machine :
                      Reachable(d) /\ Behind(d) => calls[d] = Rows(machine[d].name)

\* A driver that was called has its handler installed, or is about to.
CalledInstalled ==
  \A d \in DOMAIN machine : calls[d] > 0 =>
    /\ machine[d].name = "RTL8139" =>
         init \in {"reset", "enable", "install"} \/ Installed(LINE, "RTL8139_HANDLER")
    /\ machine[d].name = "AC97" => Installed(machine[d].line, "AC97_IRQ_HANDLER")

ScanInv == TableTypes /\ ScanPlaces /\ CalledInstalled

-----------------------------------------------------------------------------
(* The operators of the network driver.                                    *)

LEMMA PaddedIs ==
  ASSUME NEW n \in Nat
  PROVE  /\ Padded(n) \in Nat /\ Padded(n) >= 4 /\ Padded(n) % 4 = 0
         /\ \A p \in Nat : p % 4 = 0 => Padded(p + n) = p + Padded(n)
<1>1. Padded(n) = 4 * ((n + 7) \div 4)
  BY DEF Padded, Aligned
<1>2. ASSUME NEW p \in Nat, p % 4 = 0 PROVE Padded(p + n) = p + Padded(n)
  <2>1. Padded(p + n) = 4 * ((p + n + 7) \div 4)
    BY DEF Padded, Aligned
  <2>2. QED
    BY <1>1, <1>2, <2>1
<1>3. QED
  BY <1>1, <1>2

LEMMA AdvanceIs ==
  ASSUME NEW p \in Nat, NEW n \in Nat
  PROVE  Advance(p, n) \in Nat
<1>1. Padded(p + n) \in Nat
  BY PaddedIs
<1>2. RX_BUFFER_SIZE \in Nat
  BY NetworkAssumption
<1>3. QED
  BY <1>1, <1>2 DEF Advance

LEMMA FrameFacts ==
  /\ \A f \in Frames : f.len \in Nat /\ f.from \in Hosts /\ f # Nothing /\ f.type # "garbage"
  /\ \A f \in Seen : f.len \in Nat /\ (f.type # "garbage" => f \in Frames)
  /\ \A n \in GarbageLengths : [type |-> "garbage", len |-> n] \in Seen
  /\ RING \in Nat /\ RING > 0 /\ NDESC \in Nat /\ NDESC > 0 /\ INITS \in Nat
  /\ RX_BUFFER_SIZE \in Nat /\ RING =< RX_BUFFER_SIZE
  /\ \A f \in Frames : Padded(f.len) \in Nat /\ Padded(f.len) < RING /\ Padded(f.len) >= 4
<1>1. \A f \in Frames : f.len \in Nat /\ f.from \in Hosts /\ f.type \in {"ARP", "IPv4", "other"}
  BY NetworkAssumption
<1>2. \A f \in Frames : f # Nothing /\ f.type # "garbage"
  BY <1>1 DEF Nothing
<1>3. \A f \in Garbage : f.len \in Nat /\ f.type = "garbage"
  BY DEF Garbage
<1>4. \A n \in GarbageLengths : [type |-> "garbage", len |-> n] \in Garbage
  BY NetworkAssumption DEF Garbage
<1>5. \A f \in Frames : Padded(f.len) \in Nat /\ Padded(f.len) < RING /\ Padded(f.len) >= 4
  BY <1>1, NetworkAssumption, PaddedIs
<1>6. /\ RING \in Nat /\ RING > 0 /\ NDESC \in Nat /\ NDESC > 0 /\ INITS \in Nat
      /\ RX_BUFFER_SIZE \in Nat /\ RING =< RX_BUFFER_SIZE
  BY NetworkAssumption
<1>7. QED
  BY <1>1, <1>2, <1>3, <1>4, <1>5, <1>6 DEF Seen

\* What the driver finds: a frame that is there, or no frame.
LEMMA FoundIs ==
  ASSUME CardTypes, NEW f \in Found
  PROVE  /\ f \in Seen
         /\ LET p == NICDevice.current_packet_ptr
            IN  p < RING /\ rings[NICDevice.rx_buffer][p] # Nothing =>
                  f = rings[NICDevice.rx_buffer][p] /\ f \in Frames
<1> DEFINE p == NICDevice.current_packet_ptr
           c == rings[NICDevice.rx_buffer][p]
<1>1. p \in Nat /\ NICDevice.rx_buffer \in 0 .. INITS
  BY DEF CardTypes
<1>2. CASE p < RING /\ c # Nothing
  <2>1. f = c
    BY <1>2 DEF Found
  <2>2. p \in 0 .. RING - 1
    BY <1>1, <1>2, FrameFacts
  <2>3. c \in Frames \cup {Nothing}
    <3>1. rings \in [0 .. INITS -> [0 .. RING - 1 -> Frames \cup {Nothing}]]
      BY DEF CardTypes
    <3>2. rings[NICDevice.rx_buffer] \in [0 .. RING - 1 -> Frames \cup {Nothing}]
      BY <1>1, <3>1
    <3>3. QED
      BY <2>2, <3>2
  <2>4. QED
    BY <1>2, <2>1, <2>3 DEF Seen
<1>3. CASE ~(p < RING /\ c # Nothing)
  <2>1. PICK n \in GarbageLengths : f = [type |-> "garbage", len |-> n]
    BY <1>3 DEF Found
  <2>2. QED
    BY <1>3, <2>1, FrameFacts
<1>4. QED
  BY <1>2, <1>3

\* The next descriptor, as the driver and as the card counts.
LEMMA NextIs ==
  ASSUME NEW t \in 0 .. NDESC - 1
  PROVE  NextDescriptor(t) = (t + 1) % NDESC /\ NextDescriptor(t) \in 0 .. NDESC - 1
<1>1. NDESC \in Nat /\ NDESC > 0
  BY FrameFacts
<1>2. CASE t + 1 > NDESC - 1
  BY <1>1, <1>2 DEF NextDescriptor
<1>3. CASE ~(t + 1 > NDESC - 1)
  BY <1>1, <1>3 DEF NextDescriptor
<1>4. QED
  BY <1>2, <1>3

LEMMA RoundDesc ==
  ASSUME NEW c \in Nat, NEW i \in Nat
  PROVE  (c + i) % NDESC \in 0 .. NDESC - 1
BY FrameFacts

\* The largest member of a set of numbers below a bound.
LEMMA LargestIn ==
  ASSUME NEW N \in Nat, NEW S \in SUBSET (0 .. N), S # {}
  PROVE  Max(S) \in S /\ \A x \in S : x =< Max(S)
<1> DEFINE T == {m \in Nat : \A x \in S : x =< m}
<1>1. N \in T
  BY DEF T
<1>2. PICK m \in T : \A n \in T : m =< n
  <2>1. T \in SUBSET Nat /\ T # {}
    BY <1>1
  <2> HIDE DEF T
  <2>2. QED
    BY <2>1, Least
<1>3. m \in S
  <2>1. SUFFICES ASSUME m \notin S PROVE FALSE
    OBVIOUS
  <2>2. \A x \in S : x =< m - 1
    BY <1>2, <2>1
  <2>3. m # 0
    <3>1. PICK x \in S : TRUE
      OBVIOUS
    <3>2. x \in Nat /\ x =< m - 1
      BY <2>2, <3>1
    <3>3. QED
      BY <3>2
  <2>4. m - 1 \in T
    BY <1>2, <2>2, <2>3
  <2>5. QED
    BY <1>2, <2>4
<1>4. \E x \in S : \A y \in S : x >= y
  BY <1>2, <1>3
<1>5. Max(S) \in S /\ \A y \in S : Max(S) >= y
  BY <1>4 DEF Max
<1>6. QED
  BY <1>5

\* What the card sends stays in range.
LEMMA TransmitTypes ==
  ASSUME NEW d \in [0 .. NDESC - 1 -> {<<>>} \cup {<<e>> : e \in Ends}], curr \in 0 .. NDESC - 1,
         isr \subseteq Isrs, Transmit(d)
  PROVE  /\ desc' \in [0 .. NDESC - 1 -> {<<>>} \cup {<<e>> : e \in Ends}]
         /\ curr' \in 0 .. NDESC - 1
         /\ isr \subseteq isr' /\ isr' \subseteq isr \cup {"TOK"}
<1> DEFINE n == Max(Sendable(d))
<1>1. n \in Nat
  <2>1. 0 \in Sendable(d)
    BY FrameFacts DEF Sendable
  <2>2. Sendable(d) \in SUBSET (0 .. NDESC)
    BY DEF Sendable
  <2>3. n \in Sendable(d)
    <3>1. NDESC \in Nat /\ Sendable(d) # {}
      BY <2>1, FrameFacts
    <3>2. QED
      BY <2>2, <3>1, LargestIn, Zenon
  <2> HIDE DEF n
  <2>4. QED
    BY <2>2, <2>3
<1> HIDE DEF n
<1>2. /\ desc' = [i \in 0 .. NDESC - 1 |-> IF \E j \in 0 .. n - 1 : i = (curr + j) % NDESC
                                           THEN <<>> ELSE d[i]]
      /\ curr' = (curr + n) % NDESC
      /\ isr' = IF n > 0 THEN isr \cup {"TOK"} ELSE isr
  BY DEF Transmit, n
<1>3. desc' \in [0 .. NDESC - 1 -> {<<>>} \cup {<<e>> : e \in Ends}]
  BY <1>2
<1>4. curr' \in 0 .. NDESC - 1
  BY <1>1, <1>2, RoundDesc
<1>5. QED
  BY <1>2, <1>3, <1>4

\* Handling a frame leaves what Transmit leaves.
LEMMA HandleTypes ==
  ASSUME CardTypes, NEW f \in Seen, ethernet_handle_packet(f)
  PROVE  /\ desc' \in [0 .. NDESC - 1 -> {<<>>} \cup {<<e>> : e \in Ends}]
         /\ curr' \in 0 .. NDESC - 1
         /\ isr \subseteq isr' /\ isr' \subseteq isr \cup {"TOK"}
         /\ arp_table' = [ip |-> arp_table'.ip, mac |-> arp_table'.mac]
<1>1. arp_table' = [ip |-> arp_table'.ip, mac |-> arp_table'.mac]
  <2>1. CASE f.type = "ARP"
    BY <2>1 DEF ethernet_handle_packet, Learn
  <2>2. CASE f.type # "ARP"
    BY <2>2 DEF ethernet_handle_packet, Learn, arp, CardTypes
  <2>3. QED
    BY <2>1, <2>2
<1>2. CASE IsMine(f)
  <2>1. f \in Frames
    BY <1>2, FrameFacts DEF IsMine
  <2>2. Reply(f) \in Ends
    BY <2>1, FrameFacts DEF Reply, Ends
  <2>3. [desc EXCEPT ![NICDevice.tx_current] = <<Reply(f)>>]
          \in [0 .. NDESC - 1 -> {<<>>} \cup {<<e>> : e \in Ends}]
    BY <2>2 DEF CardTypes
  <2>4. Transmit([desc EXCEPT ![NICDevice.tx_current] = <<Reply(f)>>])
    BY <1>2 DEF ethernet_handle_packet, RTL8139_SEND_PACKET
  <2>5. curr \in 0 .. NDESC - 1 /\ isr \subseteq Isrs
    BY DEF CardTypes
  <2>6. QED
    BY <1>1, <2>3, <2>4, <2>5, TransmitTypes
<1>3. CASE ~IsMine(f)
  BY <1>1, <1>3 DEF ethernet_handle_packet, CardTypes
<1>4. QED
  BY <1>2, <1>3

-----------------------------------------------------------------------------
(* The card, the driver and its handler keep to their types.               *)

LEMMA NetTypesInit == ScanInit => NetTypes
<1>1. SUFFICES ASSUME NetInit PROVE NetTypes
  BY DEF ScanInit
<1>2. [b \in 0 .. INITS |-> Blank] \in [0 .. INITS -> [0 .. RING - 1 -> Frames \cup {Nothing}]]
  BY DEF Blank
<1>3. [tx_current |-> 0, rx_buffer |-> 0, ioaddr |-> FALSE, current_packet_ptr |-> 0]
        \in [tx_current : 0 .. NDESC - 1, rx_buffer : 0 .. INITS, ioaddr : BOOLEAN,
             current_packet_ptr : Nat]
  BY FrameFacts
<1>4. [d \in 0 .. NDESC - 1 |-> <<>>] \in [0 .. NDESC - 1 -> {<<>>} \cup {<<e>> : e \in Ends}]
  OBVIOUS
<1>5. CardTypes
  <2>1. /\ on \in BOOLEAN /\ isr \subseteq Isrs /\ status \subseteq Isrs
        /\ irq \in {"none", "receive", "ack"} /\ init \in Phases
    BY <1>1 DEF NetInit, Phases
  <2>2. /\ cardbuf \in 0 .. INITS /\ fresh \in 0 .. INITS
        /\ wp \in 0 .. RING - 1 /\ rp \in 0 .. RING - 1 /\ curr \in 0 .. NDESC - 1
        /\ merged \in Nat
    BY <1>1, FrameFacts DEF NetInit
  <2>3. received \in Seq(Frames) /\ handled \in Seq(Seen)
    BY <1>1 DEF NetInit
  <2>4. arp_table = [ip |-> arp_table.ip, mac |-> arp_table.mac]
    BY <1>1 DEF NetInit
  <2>5. QED
    BY <1>1, <1>2, <1>3, <1>4, <2>1, <2>2, <2>3, <2>4 DEF NetInit, CardTypes
<1>6. Counted
  BY <1>1 DEF NetInit, Counted
<1>7. QED
  BY <1>5, <1>6 DEF NetTypes

\* What is left of isr when the bits seen are acknowledged, and what is counted.
LEMMA NetTypesArrive ==
  ASSUME NetTypes, NEW f \in Frames, Arrive(f)
  PROVE  NetTypes'
<1> DEFINE need == Padded(f.len)
           row == [o \in 0 .. RING - 1 |->
                     IF o = wp THEN f
                     ELSE IF o \in wp .. wp + need - 1 THEN Nothing ELSE rings[cardbuf][o]]
<1>1. need \in Nat /\ wp \in 0 .. RING - 1 /\ RING \in Nat /\ RING > 0 /\ cardbuf \in 0 .. INITS
  BY FrameFacts DEF NetTypes, CardTypes
<1>2. rings' \in [0 .. INITS -> [0 .. RING - 1 -> Frames \cup {Nothing}]]
  <2>1. rings \in [0 .. INITS -> [0 .. RING - 1 -> Frames \cup {Nothing}]]
    BY DEF NetTypes, CardTypes
  <2>2. rings[cardbuf] \in [0 .. RING - 1 -> Frames \cup {Nothing}]
    BY <1>1, <2>1
  <2>3. row \in [0 .. RING - 1 -> Frames \cup {Nothing}]
    BY <2>2
  <2>4. rings' = [rings EXCEPT ![cardbuf] = row]
    BY DEF Arrive
  <2> HIDE DEF row
  <2>5. QED
    BY <1>1, <2>1, <2>3, <2>4
<1>3. wp' \in 0 .. RING - 1
  <2>1. wp' = (wp + need) % RING
    BY DEF Arrive
  <2> HIDE DEF need
  <2>2. QED
    BY <1>1, <2>1
<1>4. /\ received' = Append(received, f) /\ merged' = IF "ROK" \in isr THEN merged + 1 ELSE merged
      /\ isr' = isr \cup {"ROK"}
      /\ UNCHANGED <<on, cardbuf, rp, desc, curr, NICDevice, arp_table, irq, status, init, fresh,
                     handled>>
  BY DEF Arrive, arp, handler, booter
<1>5. received' \in Seq(Frames) /\ Len(received') = Len(received) + 1 /\ Len(received) \in Nat
  BY <1>4 DEF NetTypes, CardTypes
<1>6. CardTypes'
  BY <1>2, <1>3, <1>4, <1>5 DEF NetTypes, CardTypes, Isrs
<1>7. Counted'
  <2>1. Len(handled) \in Nat /\ merged \in Nat
    BY DEF NetTypes, CardTypes
  <2>2. irq' # "none" => status' \subseteq isr'
    BY <1>4 DEF NetTypes, Counted
  <2>3. irq' = "receive" => "ROK" \in status'
    BY <1>4 DEF NetTypes, Counted
  <2>4. "ROK" \in isr' /\ (irq = "ack" /\ "ROK" \in status => "ROK" \in isr)
    BY <1>4 DEF NetTypes, Counted
  <2>5. Len(received) = Len(handled) + merged
       + (IF "ROK" \in isr /\ ~(irq = "ack" /\ "ROK" \in status) THEN 1 ELSE 0)
    BY DEF NetTypes, Counted
  <2>6. irq' = irq /\ status' = status /\ handled' = handled
    BY <1>4
  <2>7. CASE "ROK" \in isr
    <3>1. merged' = merged + 1
      BY <1>4, <2>7
    <3>2. QED
      BY <1>5, <2>1, <2>2, <2>3, <2>4, <2>5, <2>6, <2>7, <3>1 DEF Counted
  <2>8. CASE "ROK" \notin isr
    <3>1. merged' = merged
      BY <1>4, <2>8
    <3>2. QED
      BY <1>5, <2>1, <2>2, <2>3, <2>4, <2>5, <2>6, <2>8, <3>1 DEF Counted
  <2>9. QED
    BY <2>7, <2>8
<1>8. QED
  BY <1>6, <1>7 DEF NetTypes

LEMMA NetTypesEnter ==
  ASSUME NetTypes, Enter
  PROVE  NetTypes'
<1>1. /\ irq = "none" /\ status' = isr /\ irq' = IF "ROK" \in isr THEN "receive" ELSE "ack"
      /\ UNCHANGED <<on, isr, cardbuf, wp, rp, desc, curr, rings, NICDevice, arp_table, init,
                     fresh, received, handled, merged>>
  BY DEF Enter, card, arp, booter, ghosts
<1>2. CardTypes'
  BY <1>1 DEF NetTypes, CardTypes
<1>3. Counted'
  BY <1>1 DEF NetTypes, Counted
<1>4. QED
  BY <1>2, <1>3 DEF NetTypes

LEMMA NetTypesReceive ==
  ASSUME NetTypes, RTL8139_RECEIVE_PACKET
  PROVE  NetTypes'
<1> USE DEF NetTypes
<1>1. PICK f \in Found :
        LET p == Advance(NICDevice.current_packet_ptr, f.len)
        IN  /\ irq = "receive" /\ irq' = "ack"
            /\ ethernet_handle_packet(f)
            /\ handled' = Append(handled, f)
            /\ NICDevice' = [NICDevice EXCEPT !.current_packet_ptr = p,
                               !.tx_current = IF IsMine(f) THEN NextDescriptor(@) ELSE @]
            /\ rp' = p % RING
            /\ early' = early \cup During
            /\ UNCHANGED <<on, cardbuf, wp, rings, status, booter, arrivals, received,
                           merged, irq_routines>>
  BY DEF RTL8139_RECEIVE_PACKET
<1> DEFINE p == Advance(NICDevice.current_packet_ptr, f.len)
<1>2. f \in Seen /\ f.len \in Nat
  BY FoundIs, FrameFacts
<1>3. NICDevice.current_packet_ptr \in Nat /\ NICDevice.tx_current \in 0 .. NDESC - 1
  BY DEF CardTypes
<1>4. p \in Nat
  BY <1>2, <1>3, AdvanceIs
<1>5. p % RING \in 0 .. RING - 1
  BY <1>4, FrameFacts
<1> HIDE DEF p
<1>6. NICDevice' \in [tx_current : 0 .. NDESC - 1, rx_buffer : 0 .. INITS, ioaddr : BOOLEAN,
                      current_packet_ptr : Nat]
  <2>1. NICDevice' = [NICDevice EXCEPT !.current_packet_ptr = p,
                               !.tx_current = IF IsMine(f) THEN NextDescriptor(@) ELSE @]
    BY <1>1 DEF p
  <2>2. NextDescriptor(NICDevice.tx_current) \in 0 .. NDESC - 1
    BY <1>3, NextIs
  <2>3. QED
    BY <1>3, <1>4, <2>1, <2>2 DEF CardTypes
<1>7. /\ desc' \in [0 .. NDESC - 1 -> {<<>>} \cup {<<e>> : e \in Ends}]
      /\ curr' \in 0 .. NDESC - 1
      /\ isr \subseteq isr' /\ isr' \subseteq isr \cup {"TOK"}
      /\ arp_table' = [ip |-> arp_table'.ip, mac |-> arp_table'.mac]
  BY <1>1, <1>2, HandleTypes
<1>8. /\ irq = "receive" /\ irq' = "ack" /\ handled' = Append(handled, f) /\ rp' = p % RING
      /\ UNCHANGED <<on, cardbuf, wp, rings, status, init, fresh, received, merged>>
  BY <1>1 DEF p, booter
<1>9. handled' \in Seq(Seen) /\ Len(handled') = Len(handled) + 1 /\ Len(handled) \in Nat
  BY <1>2, <1>8 DEF CardTypes
<1>10. CardTypes'
  BY <1>5, <1>6, <1>7, <1>8, <1>9 DEF CardTypes, Isrs
<1>11. Counted'
  <2>1. merged \in Nat /\ Len(received) \in Nat
    BY DEF CardTypes
  <2>2. "ROK" \in status /\ "ROK" \in isr /\ status \subseteq isr'
    BY <1>7, <1>8 DEF Counted
  <2>3. Len(received) = Len(handled) + merged + 1
    BY <1>8, <2>2 DEF Counted
  <2>4. QED
    BY <1>8, <1>9, <2>1, <2>2, <2>3 DEF Counted
<1>12. QED
  BY <1>10, <1>11

LEMMA NetTypesAcknowledge ==
  ASSUME NetTypes, Acknowledge
  PROVE  NetTypes'
<1>1. /\ irq = "ack" /\ irq' = "none" /\ isr' = isr \ status
      /\ UNCHANGED <<on, cardbuf, wp, rp, desc, curr, rings, NICDevice, arp_table, status, init,
                     fresh, received, handled, merged>>
  BY DEF Acknowledge, arp, booter, ghosts
<1>2. CardTypes'
  BY <1>1 DEF NetTypes, CardTypes
<1>3. Counted'
  BY <1>1 DEF NetTypes, Counted
<1>4. QED
  BY <1>2, <1>3 DEF NetTypes

LEMMA NetTypesReset ==
  ASSUME NetTypes, Reset
  PROVE  NetTypes'
<1>1. /\ init' = "enable" /\ fresh' = fresh + 1 /\ fresh < INITS
      /\ on' = FALSE /\ isr' = {} /\ wp' = 0 /\ rp' = 0
      /\ desc' = [d \in 0 .. NDESC - 1 |-> <<>>] /\ curr' = 0
      /\ received' = <<>> /\ handled' = <<>> /\ merged' = 0
      /\ irq = "none"
      /\ UNCHANGED <<cardbuf, rings, NICDevice, arp_table, irq, status>>
  BY DEF Reset, Boot, arp, handler
<1>2. desc' \in [0 .. NDESC - 1 -> {<<>>} \cup {<<e>> : e \in Ends}]
  BY <1>1
<1>3. /\ fresh' \in 0 .. INITS /\ wp' \in 0 .. RING - 1 /\ rp' \in 0 .. RING - 1
      /\ curr' \in 0 .. NDESC - 1
  <2>1. fresh \in 0 .. INITS
    BY DEF NetTypes, CardTypes
  <2>2. RING \in Nat \ {0} /\ NDESC \in Nat \ {0} /\ INITS \in Nat
    BY NetworkAssumption
  <2>3. 0 \in 0 .. RING - 1 /\ 0 \in 0 .. NDESC - 1
    BY <2>2
  <2>4. fresh + 1 \in 0 .. INITS
    BY <1>1, <2>1, <2>2
  <2>5. QED
    BY <1>1, <2>3, <2>4
<1>4. received' \in Seq(Frames) /\ handled' \in Seq(Seen) /\ Len(received') = 0 /\ Len(handled') = 0
  BY <1>1
<1>5. CardTypes'
  BY <1>1, <1>2, <1>3, <1>4 DEF NetTypes, CardTypes, Isrs, Phases
<1>6. Counted'
  BY <1>1, <1>4 DEF NetTypes, Counted
<1>7. QED
  BY <1>5, <1>6 DEF NetTypes

LEMMA NetTypesCopy ==
  ASSUME NetTypes, NEW from, NEW to \in Phases, NEW nic, Copy(from, to, nic),
         nic \in [tx_current : 0 .. NDESC - 1, rx_buffer : 0 .. INITS, ioaddr : BOOLEAN,
                  current_packet_ptr : Nat]
  PROVE  NetTypes'
<1>1. /\ init' = to /\ NICDevice' = nic
      /\ rings' = [b \in DOMAIN rings |-> IF b = nic.rx_buffer \/ b = fresh THEN rings[b] ELSE Blank]
      /\ UNCHANGED <<on, isr, cardbuf, wp, rp, desc, curr, arp_table, irq, status, fresh, received,
                     handled, merged>>
  BY DEF Copy, Boot, arp, handler, card, ghosts
<1>2. rings' \in [0 .. INITS -> [0 .. RING - 1 -> Frames \cup {Nothing}]]
  <2>1. rings \in [0 .. INITS -> [0 .. RING - 1 -> Frames \cup {Nothing}]]
    BY DEF NetTypes, CardTypes
  <2>2. Blank \in [0 .. RING - 1 -> Frames \cup {Nothing}]
    BY DEF Blank
  <2>3. QED
    BY <1>1, <2>1, <2>2
<1>3. CardTypes'
  BY <1>1, <1>2 DEF NetTypes, CardTypes
<1>4. Counted'
  BY <1>1 DEF NetTypes, Counted
<1>5. QED
  BY <1>3, <1>4 DEF NetTypes

LEMMA NetTypesTest ==
  ASSUME NetTypes, RTL8139_TEST
  PROVE  NetTypes'
<1>1. CASE Reset
  BY <1>1, NetTypesReset
<1>2. CASE Enable
  <2>1. /\ init' = "install" /\ cardbuf' = fresh /\ on' = TRUE
        /\ UNCHANGED <<isr, wp, rp, desc, curr, rings, NICDevice, arp_table, irq, status, fresh,
                       received, handled, merged>>
    BY <1>2 DEF Enable, Boot, arp, handler, ghosts
  <2>2. CardTypes'
    BY <2>1 DEF NetTypes, CardTypes, Phases
  <2>3. Counted'
    BY <2>1 DEF NetTypes, Counted
  <2>4. QED
    BY <2>2, <2>3 DEF NetTypes
<1>3. CASE InstallHandler
  <2>1. /\ init' = "copy_tx"
        /\ UNCHANGED <<on, isr, cardbuf, wp, rp, desc, curr, rings, NICDevice, arp_table, irq,
                       status, fresh, received, handled, merged>>
    BY <1>3 DEF InstallHandler, Boot, arp, handler, ghosts, card
  <2>2. CardTypes'
    BY <2>1 DEF NetTypes, CardTypes, Phases
  <2>3. Counted'
    BY <2>1 DEF NetTypes, Counted
  <2>4. QED
    BY <2>2, <2>3 DEF NetTypes
<1>4. CASE copyNIC
  <2> DEFINE Nics == [tx_current : 0 .. NDESC - 1, rx_buffer : 0 .. INITS, ioaddr : BOOLEAN,
                      current_packet_ptr : Nat]
  <2>1. NICDevice \in Nics /\ fresh \in 0 .. INITS
    BY DEF NetTypes, CardTypes
  <2>2. /\ [NICDevice EXCEPT !.tx_current = 0] \in Nics /\ [NICDevice EXCEPT !.rx_buffer = fresh] \in Nics
        /\ [NICDevice EXCEPT !.ioaddr = TRUE] \in Nics
        /\ [NICDevice EXCEPT !.current_packet_ptr = 0] \in Nics
    <3>1. 0 \in 0 .. NDESC - 1
      BY FrameFacts
    <3>2. PICK t \in 0 .. NDESC - 1, b \in 0 .. INITS, a \in BOOLEAN, c \in Nat :
            NICDevice = [tx_current |-> t, rx_buffer |-> b, ioaddr |-> a, current_packet_ptr |-> c]
      BY <2>1
    <3>3. [NICDevice EXCEPT !.tx_current = 0] \in Nics
      BY <3>1, <3>2
    <3>4. [NICDevice EXCEPT !.rx_buffer = fresh] \in Nics
      BY <2>1, <3>2
    <3>5. [NICDevice EXCEPT !.ioaddr = TRUE] \in Nics
      BY <3>2
    <3>6. [NICDevice EXCEPT !.current_packet_ptr = 0] \in Nics
      BY <3>2
    <3>7. QED
      BY <3>3, <3>4, <3>5, <3>6
  <2>3. {"copy_buffer", "copy_io", "copy_ptr", "arp_size"} \subseteq Phases
    BY DEF Phases
  <2>4. QED
    BY <1>4, <2>2, <2>3, NetTypesCopy DEF copyNIC
<1>5. CASE initalize
  <2>1. /\ init' \in {"arp_ip", "arp_mac", "idle"}
        /\ arp_table' \in {arp_table, [arp_table EXCEPT !.ip = Broadcast],
                           [arp_table EXCEPT !.mac = Broadcast]}
        /\ UNCHANGED <<on, isr, cardbuf, wp, rp, desc, curr, rings, NICDevice, irq,
                       status, fresh, received, handled, merged>>
    BY <1>5 DEF initalize, Entry, Boot, handler, ghosts, card
  <2>2. arp_table' = [ip |-> arp_table'.ip, mac |-> arp_table'.mac]
    <3>1. arp_table = [ip |-> arp_table.ip, mac |-> arp_table.mac]
      BY DEF NetTypes, CardTypes
    <3>2. PICK i, m : arp_table = [ip |-> i, mac |-> m]
      BY <3>1
    <3>3. QED
      BY <2>1, <3>2
  <2>3. CardTypes'
    BY <2>1, <2>2 DEF NetTypes, CardTypes, Phases
  <2>4. Counted'
    BY <2>1 DEF NetTypes, Counted
  <2>5. QED
    BY <2>3, <2>4 DEF NetTypes
<1>6. QED
  BY <1>1, <1>2, <1>3, <1>4, <1>5 DEF RTL8139_TEST

\* A step of the network is one of its actions; the scan leaves it alone, but
\* that a driver called may begin, and be installed.
LEMMA StepsOfScan ==
  ASSUME [ScanNext]_scanvars
  PROVE  \/ RTL8139_TEST /\ UNCHANGED <<machine, scan>>
         \/ RTL8139_HANDLER /\ UNCHANGED <<machine, scan>>
         \/ (\E f \in Frames : Arrive(f)) /\ UNCHANGED <<machine, scan>>
         \/ CallDriver \/ Advances \/ UNCHANGED scanvars
BY DEF ScanNext, checkAllBuses, Handler, Arrival

CardKept == UNCHANGED <<on, isr, cardbuf, wp, rp, desc, curr, rings, NICDevice, arp_table, irq, status,
                        fresh, received, handled, wire, merged, early>>

LEMMA ScanLeavesNet ==
  ASSUME CallDriver \/ Advances \/ UNCHANGED scanvars
  PROVE  /\ CardKept
         /\ init' = init \/ (init = "idle" /\ init' = "reset")
<1>1. CASE CallDriver
  BY <1>1 DEF CallDriver, CardKept, card, arp, handler, ghosts, Scanning, Unfinished
<1>2. CASE Advances
  BY <1>2 DEF Advances, CardKept, netvars, card, arp, handler, ghosts, booter
<1>3. CASE UNCHANGED scanvars
  BY <1>3 DEF scanvars, CardKept, netvars, card, arp, handler, ghosts, booter
<1>4. QED
  BY <1>1, <1>2, <1>3

LEMMA NetTypesStep ==
  ASSUME NetTypes, [ScanNext]_scanvars
  PROVE  NetTypes'
<1>1. CASE CallDriver \/ Advances \/ UNCHANGED scanvars
  <2>1. CardKept /\ (init' = init \/ (init = "idle" /\ init' = "reset"))
    BY <1>1, ScanLeavesNet
  <2>2. CardTypes'
    BY <2>1 DEF NetTypes, CardTypes, CardKept, Phases
  <2>3. Counted'
    BY <2>1 DEF NetTypes, Counted, CardKept
  <2>4. QED
    BY <2>2, <2>3 DEF NetTypes
<1>2. QED
  BY <1>1, StepsOfScan, NetTypesTest, NetTypesArrive, NetTypesEnter, NetTypesReceive,
     NetTypesAcknowledge DEF RTL8139_HANDLER

-----------------------------------------------------------------------------
(* The scan.                                                               *)

\* The first of the empty slots.
LEMMA FirstIs ==
  ASSUME NEW I \in SUBSET Slots, I # {}
  PROVE  First(I) \in I
<1>1. I \in SUBSET Nat
  BY IrqAssumption DEF Slots
<1>2. \E i \in I : \A j \in I : i =< j
  BY <1>1, Least
<1>3. QED
  BY <1>2 DEF First

LEMMA InstallOne ==
  ASSUME TableTypes, LinesConnected, NEW h \in Drivers, NEW l, irq_valid(l),
         irq_install_handler(l, h)
  PROVE  /\ TableTypes' /\ Installed(l, h)'
         /\ \A k : \A g \in Drivers : Installed(k, g) => Installed(k, g)'
<1>1. CASE Installed(l, h)
  <2>1. irq_routines' = irq_routines
    BY <1>1 DEF irq_install_handler
  <2>2. QED
    BY <1>1, <2>1 DEF TableTypes, Installed
<1>2. CASE ~Installed(l, h)
  <2> DEFINE i0 == First(Empty(l))
             r  == irq_routines[l]
  <2>1. l \in 0 .. IRQ_COUNT - 1 /\ h # NULL
    BY DEF irq_valid, LinesConnected, Drivers
  <2>2. \A i \in Slots : r[i] # h /\ r[i] \in Drivers \cup {NULL}
    BY <1>2, <2>1 DEF Installed, TableTypes, irq_valid
  <2>3. Empty(l) # {}
    <3>1. SUFFICES ASSUME Empty(l) = {} PROVE FALSE
      OBVIOUS
    <3>2. 0 \in Slots /\ 1 \in Slots
      BY IrqAssumption DEF Slots, LinesConnected
    <3>3. \A i \in Slots : r[i] # NULL
      BY <3>1 DEF Empty
    <3>4. r[0] = r[1] /\ r[0] # NULL
      BY <2>2, <3>2, <3>3 DEF Drivers
    <3>5. 0 = 1
      BY <2>1, <3>2, <3>4 DEF TableTypes
    <3>6. QED
      BY <3>5
  <2>4. i0 \in Empty(l)
    <3>1. Empty(l) \in SUBSET Slots
      BY DEF Empty
    <3>2. QED
      BY <2>3, <3>1, FirstIs
  <2> HIDE DEF i0
  <2>5. i0 \in Slots /\ r[i0] = NULL
    BY <2>4 DEF Empty
  <2>6. irq_routines' = [irq_routines EXCEPT ![l][i0] = h]
    BY <1>2, <2>1, <2>3 DEF irq_install_handler, irq_valid, i0
  <2>7. /\ irq_routines \in [0 .. IRQ_COUNT - 1 -> [Slots -> Drivers \cup {NULL}]]
        /\ r \in [Slots -> Drivers \cup {NULL}]
    BY <2>1 DEF TableTypes
  <2>8. irq_routines' \in [0 .. IRQ_COUNT - 1 -> [Slots -> Drivers \cup {NULL}]]
    BY <2>1, <2>5, <2>6, <2>7
  <2>9. /\ \A k \in 0 .. IRQ_COUNT - 1 : k # l => irq_routines'[k] = irq_routines[k]
        /\ \A i \in Slots : i # i0 => irq_routines'[l][i] = r[i]
        /\ irq_routines'[l][i0] = h
    BY <2>1, <2>5, <2>6, <2>7
  <2>10. ASSUME NEW k \in 0 .. IRQ_COUNT - 1, NEW i \in Slots, NEW j \in Slots,
                irq_routines'[k][i] = irq_routines'[k][j], irq_routines'[k][i] # NULL
         PROVE  i = j
    <3>1. \A m, n \in Slots : r[m] = r[n] /\ r[m] # NULL => m = n
      BY <2>1 DEF TableTypes
    <3>2. CASE k # l
      BY <2>9, <2>10, <3>2 DEF TableTypes
    <3>3. CASE k = l
      <4>1. CASE i # i0 /\ j # i0
        BY <2>9, <2>10, <3>1, <3>3, <4>1
      <4>2. CASE i = i0 \/ j = i0
        BY <2>2, <2>9, <2>10, <3>3, <4>2
      <4>3. QED
        BY <4>1, <4>2
    <3>4. QED
      BY <3>2, <3>3
  <2>11. TableTypes'
    BY <2>8, <2>10 DEF TableTypes
  <2>12. Installed(l, h)'
    BY <2>1, <2>5, <2>9 DEF Installed, irq_valid
  <2>13. ASSUME NEW k, NEW g \in Drivers, Installed(k, g) PROVE Installed(k, g)'
    <3>1. PICK i \in Slots : irq_routines[k][i] = g
      BY <2>13 DEF Installed
    <3>2. k \in 0 .. IRQ_COUNT - 1 /\ g # NULL
      BY <2>13 DEF Installed, irq_valid, LinesConnected, Drivers
    <3>3. irq_routines'[k][i] = g
      BY <2>5, <2>9, <3>1, <3>2
    <3>4. QED
      BY <3>1, <3>2, <3>3 DEF Installed, irq_valid
  <2>14. QED
    BY <2>11, <2>12, <2>13
<1>3. QED
  BY <1>1, <1>2

LEMMA SameTable ==
  ASSUME UNCHANGED irq_routines
  PROVE  /\ TableTypes => TableTypes'
         /\ \A k, g : Installed(k, g) => Installed(k, g)'
BY DEF TableTypes, Installed

\* The rows of the driver table.
LEMMA RowsFacts ==
  /\ \A name : Rows(name) \in Nat
  /\ Rows("RTL8139") > 0 /\ Rows("AC97") > 0
<1>1. DOMAIN pci_devices = 1 .. 5 /\ pci_devices[1] = "RTL8139" /\ pci_devices[4] = "AC97"
  <2>1. Len(pci_devices) = 5
    BY DEF pci_devices
  <2>2. pci_devices[1] = "RTL8139" /\ pci_devices[4] = "AC97"
    BY DEF pci_devices
  <2>3. pci_devices \in Seq({"RTL8139", "AC97", "VBE"})
    BY DEF pci_devices
  <2>4. DOMAIN pci_devices = 1 .. Len(pci_devices)
    BY <2>3
  <2>5. QED
    BY <2>1, <2>2, <2>4
<1>2. IsFiniteSet(1 .. 5)
  <2>1. 1 \in Int /\ 5 \in Int
    OBVIOUS
  <2>2. QED
    BY <2>1, FS_Interval, Zenon
<1>3. ASSUME NEW name PROVE Rows(name) \in Nat /\ IsFiniteSet({i \in DOMAIN pci_devices : pci_devices[i] = name})
  <2>1. {i \in DOMAIN pci_devices : pci_devices[i] = name} \subseteq 1 .. 5
    BY <1>1
  <2>2. IsFiniteSet({i \in DOMAIN pci_devices : pci_devices[i] = name})
    BY <1>2, <2>1, FS_Subset
  <2>3. QED
    BY <2>2, FS_CardinalityType DEF Rows
<1>4. ASSUME NEW name, NEW k \in 1 .. 5, pci_devices[k] = name PROVE Rows(name) > 0
  <2>1. {i \in DOMAIN pci_devices : pci_devices[i] = name} # {}
    BY <1>1, <1>4
  <2>2. PICK S : S = {i \in DOMAIN pci_devices : pci_devices[i] = name}
    OBVIOUS
  <2>3. IsFiniteSet(S) /\ S # {} /\ Rows(name) = Cardinality(S)
    BY <1>3, <2>1, <2>2 DEF Rows
  <2>4. Cardinality(S) # 0
    BY <2>3, FS_EmptySet
  <2>5. Rows(name) \in Nat
    BY <1>3
  <2>6. QED
    BY <2>3, <2>4, <2>5
<1>5. Rows("RTL8139") > 0
  <2>1. 1 \in 1 .. 5
    OBVIOUS
  <2>2. QED
    BY <1>1, <1>4, <2>1
<1>6. Rows("AC97") > 0
  <2>1. 4 \in 1 .. 5
    OBVIOUS
  <2>2. QED
    BY <1>1, <1>4, <2>1
<1>7. QED
  BY <1>3, <1>5, <1>6

LEMMA ScanInvInit == ScanInit => ScanInv
<1>1. SUFFICES ASSUME ScanInit PROVE ScanInv
  OBVIOUS
<1>2. /\ machine \in Machines /\ slot = (IF 0 \in Buses THEN 0 ELSE SLOTS) /\ function = 0
      /\ calls = [d \in DOMAIN machine |-> 0] /\ init = "idle"
      /\ irq_routines = [k \in 0 .. IRQ_COUNT - 1 |-> [i \in Slots |-> NULL]]
  BY <1>1 DEF ScanInit, NetInit, IrqInit
<1>3. TableTypes
  BY <1>2 DEF TableTypes
<1>4. CalledInstalled
  BY <1>2 DEF CalledInstalled
<1>5. SLOTS \in Nat \ {0} /\ FUNCTIONS \in Nat \ {0}
      /\ DOMAIN machine \subseteq (0 .. SLOTS - 1) \X (0 .. FUNCTIONS - 1)
  BY <1>2, DevicesAssumption
<1>6. ASSUME 0 \in Buses, NEW d \in DOMAIN machine PROVE ~Behind(d)
  <2>1. d[1] \in 0 .. SLOTS - 1 /\ d[2] \in 0 .. FUNCTIONS - 1
    BY <1>5
  <2>2. slot = 0 /\ function = 0
    BY <1>2, <1>6
  <2>3. QED
    BY <2>1, <2>2 DEF Behind
<1>7. ScanPlaces
  BY <1>2, <1>5, <1>6, RowsFacts DEF ScanPlaces
<1>8. QED
  BY <1>3, <1>4, <1>7 DEF ScanInv

\* Steps that leave the scan where it is.
LEMMA ScanStands ==
  ASSUME ScanPlaces, UNCHANGED <<machine, scan>>, init' = init \/ init # "idle"
  PROVE  ScanPlaces'
<1>1. UNCHANGED <<machine, slot, function, calls>>
  BY DEF scan
<1>2. slot = SLOTS => init = "idle"
  BY DEF ScanPlaces
<1>3. slot' = SLOTS => init' = "idle"
  BY <1>1, <1>2
<1>4. /\ \A d : Reachable(d)' = Reachable(d) /\ Behind(d)' = Behind(d)
      /\ Buses' = Buses
  BY <1>1 DEF Reachable, Behind, Buses, Present, Multi
<1>5. QED
  BY <1>1, <1>3, <1>4 DEF ScanPlaces

LEMMA ScanTest ==
  ASSUME LinesConnected, ScanInv, RTL8139_TEST, UNCHANGED <<machine, scan>>
  PROVE  ScanInv'
<1>1. init # "idle"
  BY DEF RTL8139_TEST, Reset, Enable, InstallHandler, copyNIC, Copy, initalize, Entry, Boot
<1>2. ScanPlaces'
  BY <1>1, ScanStands DEF ScanInv
<1>3. UNCHANGED <<machine, calls>>
  BY DEF scan
<1>4. CASE InstallHandler
  <2>1. irq_install_handler(LINE, "RTL8139_HANDLER") /\ init' = "copy_tx"
    BY <1>4 DEF InstallHandler, Boot
  <2>2. /\ TableTypes' /\ Installed(LINE, "RTL8139_HANDLER")'
        /\ \A k : \A g \in Drivers : Installed(k, g) => Installed(k, g)'
    BY <2>1, InstallOne DEF ScanInv, LinesConnected, Drivers
  <2>3. CalledInstalled'
    BY <1>3, <2>2 DEF CalledInstalled, ScanInv, Drivers
  <2>4. QED
    BY <1>2, <2>2, <2>3 DEF ScanInv
<1>5. CASE ~InstallHandler
  <2>1. UNCHANGED irq_routines
    BY <1>5 DEF RTL8139_TEST, Reset, Enable, copyNIC, Copy, initalize, Entry
  <2>2. init \in {"reset", "enable"} => init' \in {"enable", "install"}
    BY <1>5 DEF RTL8139_TEST, Reset, Enable, copyNIC, Copy, initalize, Entry, Boot
  <2>3. init # "install"
    BY <1>5 DEF RTL8139_TEST, Reset, Enable, copyNIC, Copy, initalize, Entry, Boot
  <2>4. CalledInstalled'
    BY <1>3, <2>1, <2>2, <2>3, SameTable DEF CalledInstalled, ScanInv
  <2>5. QED
    BY <1>2, <2>1, <2>4, SameTable DEF ScanInv
<1>6. QED
  BY <1>4, <1>5

LEMMA ScanQuiet ==
  ASSUME ScanInv, UNCHANGED <<machine, scan, init, irq_routines>>
  PROVE  ScanInv'
<1>1. ScanPlaces'
  BY ScanStands DEF ScanInv
<1>2. UNCHANGED <<machine, calls>>
  BY DEF scan
<1>3. CalledInstalled'
  BY <1>2, SameTable DEF CalledInstalled, ScanInv
<1>4. QED
  BY <1>1, <1>3, SameTable DEF ScanInv

LEMMA ScanCalls ==
  ASSUME LinesConnected, ScanInv, CallDriver
  PROVE  ScanInv'
<1>1. /\ slot < SLOTS /\ init = "idle" /\ Present(slot, function) /\ calls[Here] < Rows(machine[Here].name)
      /\ calls' = [calls EXCEPT ![Here] = @ + 1]
      /\ UNCHANGED <<machine, slot, function>>
  BY DEF CallDriver, Scanning, Unfinished
<1>2. Here \in DOMAIN machine
  BY <1>1 DEF Here, Present
<1>3. /\ calls \in [DOMAIN machine -> Nat] /\ calls' \in [DOMAIN machine -> Nat]
      /\ calls'[Here] = calls[Here] + 1
      /\ \A d \in DOMAIN machine : d # Here => calls'[d] = calls[d]
  BY <1>1, <1>2 DEF ScanInv, ScanPlaces
<1>4. /\ \A d : Reachable(d)' = Reachable(d) /\ Behind(d)' = Behind(d)
      /\ Buses' = Buses
  BY <1>1 DEF Reachable, Behind, Buses, Present, Multi
<1>5. ~Behind(Here)
  <2>1. slot \in Nat /\ function \in Nat
    BY DEF ScanInv, ScanPlaces
  <2>2. QED
    BY <2>1 DEF Behind, Here
<1>6. ScanPlaces'
  <2>1. slot \in 0 .. SLOTS /\ SLOTS \in Nat /\ slot # SLOTS
    BY <1>1, DevicesAssumption DEF ScanInv, ScanPlaces
  <2>2. \A d \in DOMAIN machine : calls'[d] <= Rows(machine[d].name)
    BY <1>1, <1>2, <1>3, RowsFacts DEF ScanInv, ScanPlaces
  <2>3. ASSUME 0 \in Buses, NEW d \in DOMAIN machine, Reachable(d), Behind(d)
        PROVE  calls'[d] = Rows(machine[d].name)
    BY <1>3, <1>5, <2>3 DEF ScanInv, ScanPlaces
  <2>4. QED
    BY <1>1, <1>3, <1>4, <2>1, <2>2, <2>3 DEF ScanInv, ScanPlaces
<1>7. CASE machine[Here].name = "RTL8139"
  <2>1. init' = "reset" /\ UNCHANGED irq_routines
    BY <1>7 DEF CallDriver
  <2>2. CalledInstalled'
    <3>1. ASSUME NEW d \in DOMAIN machine, calls'[d] > 0, machine[d].name = "AC97"
          PROVE  Installed(machine[d].line, "AC97_IRQ_HANDLER")
      BY <1>3, <1>7, <3>1 DEF CalledInstalled, ScanInv
    <3>2. QED
      BY <1>1, <2>1, <3>1, SameTable DEF CalledInstalled
  <2>3. QED
    BY <1>6, <2>1, <2>2, SameTable DEF ScanInv
<1>8. CASE machine[Here].name = "AC97"
  <2>1. irq_install_handler(machine[Here].line, "AC97_IRQ_HANDLER") /\ init' = init
    BY <1>8 DEF CallDriver
  <2>2. irq_valid(machine[Here].line)
    BY <1>2, <1>8 DEF LinesConnected, ScanInv, ScanPlaces
  <2> PICK h, l : h = Here /\ l = machine[h].line
    OBVIOUS
  <2>3. /\ TableTypes' /\ Installed(l, "AC97_IRQ_HANDLER")'
        /\ \A k : \A g \in Drivers : Installed(k, g) => Installed(k, g)'
    BY <2>1, <2>2, InstallOne DEF ScanInv, Drivers
  <2>4. ASSUME NEW d \in DOMAIN machine, calls'[d] > 0
        PROVE  /\ machine[d].name = "RTL8139" =>
                    init' \in {"reset", "enable", "install"} \/ Installed(LINE, "RTL8139_HANDLER")'
               /\ machine[d].name = "AC97" => Installed(machine[d].line, "AC97_IRQ_HANDLER")'
    <3>1. CASE d = Here
      BY <1>1, <1>8, <2>3, <3>1
    <3>2. CASE d # Here
      <4>1. calls[d] > 0
        BY <1>3, <2>4, <3>2
      <4>2. QED
        BY <1>1, <2>1, <2>3, <4>1 DEF CalledInstalled, ScanInv, Drivers
    <3>3. QED
      BY <3>1, <3>2
  <2>5. CalledInstalled'
    BY <1>1, <2>4 DEF CalledInstalled
  <2>6. QED
    BY <1>6, <2>3, <2>5 DEF ScanInv
<1>9. CASE machine[Here].name \notin {"RTL8139", "AC97"}
  <2>1. UNCHANGED <<init, irq_routines>>
    BY <1>9 DEF CallDriver
  <2>2. ASSUME NEW d \in DOMAIN machine, calls'[d] > 0, machine[d].name \in {"RTL8139", "AC97"}
        PROVE  calls[d] > 0
    BY <1>3, <1>9, <2>2
  <2>3. CalledInstalled'
    BY <1>1, <2>1, <2>2, SameTable DEF CalledInstalled, ScanInv
  <2>4. QED
    BY <1>6, <2>1, <2>3, SameTable DEF ScanInv
<1>10. QED
  BY <1>7, <1>8, <1>9

LEMMA ScanAdvances ==
  ASSUME ScanInv, Advances
  PROVE  ScanInv'
<1>1. /\ slot < SLOTS /\ init = "idle" /\ ~Unfinished
      /\ UNCHANGED <<machine, calls, init, irq_routines>>
  BY DEF Advances, Scanning, netvars, booter
<1>2. /\ slot \in 0 .. SLOTS /\ function \in 0 .. FUNCTIONS - 1
      /\ SLOTS \in Nat \ {0} /\ FUNCTIONS \in Nat \ {0}
      /\ DOMAIN machine \subseteq (0 .. SLOTS - 1) \X (0 .. FUNCTIONS - 1)
  BY DevicesAssumption DEF ScanInv, ScanPlaces
<1>3. /\ \A d : Reachable(d)' = Reachable(d)
      /\ Buses' = Buses
  BY <1>1 DEF Reachable, Buses, Present, Multi
<1>4. ASSUME 0 \in Buses, NEW d \in DOMAIN machine, Reachable(d), Behind(d)'
      PROVE  calls[d] = Rows(machine[d].name)
  <2>1. /\ d[1] \in 0 .. SLOTS - 1 /\ d[2] \in 0 .. FUNCTIONS - 1 /\ d = <<d[1], d[2]>>
    BY <1>2
  <2>2. CASE Behind(d)
    BY <1>4, <2>2 DEF ScanInv, ScanPlaces
  <2>3. CASE ~Behind(d)
    <3>1. d = Here
      <4>1. CASE Present(slot, 0) /\ Multi(slot) /\ function < FUNCTIONS - 1
        <5>1. function' = function + 1 /\ slot' = slot
          BY <4>1 DEF Advances
        <5>2. d[1] = slot /\ d[2] = function
          BY <1>2, <1>4, <2>1, <2>3, <5>1 DEF Behind
        <5>3. QED
          BY <2>1, <5>2 DEF Here
      <4>2. CASE ~(Present(slot, 0) /\ Multi(slot) /\ function < FUNCTIONS - 1)
        <5>1. function' = 0 /\ slot' = slot + 1
          BY <4>2 DEF Advances
        <5>2. d[1] = slot /\ d[2] >= function
          BY <1>2, <1>4, <2>1, <2>3, <5>1 DEF Behind
        <5>3. d[2] = function
          <6>1. CASE d[2] = 0
            BY <1>2, <5>2, <6>1
          <6>2. CASE d[2] # 0
            <7>1. Present(slot, 0) /\ Multi(slot)
              BY <1>4, <5>2, <6>2 DEF Reachable
            <7>2. ~(function < FUNCTIONS - 1)
              BY <4>2, <7>1
            <7>3. QED
              BY <1>2, <2>1, <5>2, <7>2
          <6>3. QED
            BY <6>1, <6>2
        <5>4. QED
          BY <2>1, <5>2, <5>3 DEF Here
      <4>3. QED
        BY <4>1, <4>2
    <3>2. ~(calls[d] < Rows(machine[d].name))
      BY <1>1, <3>1 DEF Unfinished, Here, Present
    <3>3. calls[d] \in Nat /\ Rows(machine[d].name) \in Nat /\ calls[d] <= Rows(machine[d].name)
      BY RowsFacts DEF ScanInv, ScanPlaces
    <3>4. QED
      BY <3>2, <3>3
  <2>4. QED
    BY <2>2, <2>3
<1>5. slot' \in 0 .. SLOTS /\ function' \in 0 .. FUNCTIONS - 1
  BY <1>1, <1>2 DEF Advances
<1>6. ScanPlaces'
  BY <1>1, <1>3, <1>4, <1>5 DEF ScanInv, ScanPlaces
<1>7. CalledInstalled'
  BY <1>1, SameTable DEF CalledInstalled, ScanInv
<1>8. QED
  BY <1>1, <1>6, <1>7, SameTable DEF ScanInv

LEMMA ScanInvStep ==
  ASSUME LinesConnected, ScanInv, [ScanNext]_scanvars
  PROVE  ScanInv'
<1>1. CASE RTL8139_TEST /\ UNCHANGED <<machine, scan>>
  BY <1>1, ScanTest
<1>2. CASE RTL8139_HANDLER /\ UNCHANGED <<machine, scan>>
  <2>1. UNCHANGED <<init, irq_routines>>
    BY <1>2 DEF RTL8139_HANDLER, Enter, RTL8139_RECEIVE_PACKET, Acknowledge, booter
  <2>2. QED
    BY <1>2, <2>1, ScanQuiet
<1>3. CASE (\E f \in Frames : Arrive(f)) /\ UNCHANGED <<machine, scan>>
  <2>1. UNCHANGED <<init, irq_routines>>
    BY <1>3 DEF Arrive, booter
  <2>2. QED
    BY <1>3, <2>1, ScanQuiet
<1>4. CASE UNCHANGED scanvars
  <2>1. UNCHANGED <<machine, scan, init, irq_routines>>
    BY <1>4 DEF scanvars, netvars, booter
  <2>2. QED
    BY <2>1, ScanQuiet
<1>5. QED
  BY <1>1, <1>2, <1>3, <1>4, ScanCalls, ScanAdvances, StepsOfScan

LEMMA ScanFinds ==
  ASSUME LinesConnected, ScanInv
  PROVE  ScanFindsAll
<1>1. SUFFICES ASSUME slot = SLOTS, 0 \in Buses, NEW d \in DOMAIN machine,
                      d[2] = 0 \/ (Present(d[1], 0) /\ Multi(d[1]))
               PROVE  /\ calls[d] = Rows(machine[d].name)
                      /\ machine[d].name = "RTL8139" =>
                           Cardinality({i \in Slots : irq_routines[LINE][i] = "RTL8139_HANDLER"}) = 1
                      /\ machine[d].name = "AC97" => Installed(machine[d].line, "AC97_IRQ_HANDLER")
  BY DEF ScanFindsAll
<1>2. init = "idle" /\ d[1] \in 0 .. SLOTS - 1 /\ SLOTS \in Nat
  BY <1>1, DevicesAssumption DEF ScanInv, ScanPlaces
<1>3. Reachable(d) /\ Behind(d)
  BY <1>1, <1>2 DEF Reachable, Behind
<1>4. calls[d] = Rows(machine[d].name)
  BY <1>1, <1>3 DEF ScanInv, ScanPlaces
<1>5. ASSUME machine[d].name = "RTL8139"
      PROVE  Cardinality({i \in Slots : irq_routines[LINE][i] = "RTL8139_HANDLER"}) = 1
  <2>1. calls[d] > 0
    BY <1>4, <1>5, RowsFacts
  <2>2. Installed(LINE, "RTL8139_HANDLER")
    BY <1>2, <1>5, <2>1 DEF ScanInv, CalledInstalled
  <2>3. PICK i0 \in Slots : irq_routines[LINE][i0] = "RTL8139_HANDLER"
    BY <2>2 DEF Installed
  <2>4. LINE \in 0 .. IRQ_COUNT - 1 /\ NULL # "RTL8139_HANDLER"
    BY DEF LinesConnected, irq_valid, Drivers
  <2>5. \A i, j \in Slots : irq_routines[LINE][i] = irq_routines[LINE][j] /\ irq_routines[LINE][i] # NULL => i = j
    BY <2>4 DEF ScanInv, TableTypes
  <2>6. {i \in Slots : irq_routines[LINE][i] = "RTL8139_HANDLER"} = {i0}
    BY <2>3, <2>4, <2>5
  <2>7. QED
    BY <2>6, FS_Singleton
<1>6. ASSUME machine[d].name = "AC97" PROVE Installed(machine[d].line, "AC97_IRQ_HANDLER")
  <2>1. calls[d] > 0
    BY <1>4, <1>6, RowsFacts
  <2>2. QED
    BY <1>6, <2>1 DEF ScanInv, CalledInstalled
<1>7. QED
  BY <1>4, <1>5, <1>6

\* However the scan and the network handler interleave, a function the scan has
\* left was called once for every row of its name, and a driver that was called
\* has its handler installed, or is about to, in one slot of its line (checkFunction,
\* irq_install_handler).
THEOREM ScanInvariant == LinesConnected => (ScanSpec => []ScanInv)
<1>1. SUFFICES ASSUME LinesConnected PROVE ScanSpec => []ScanInv
  OBVIOUS
<1>2. ScanInv /\ [ScanNext]_scanvars => ScanInv'
  BY <1>1, ScanInvStep
<1>3. QED
  BY <1>2, ScanInvInit, PTL DEF ScanSpec

\* At the end of the scan every device it can find has been started, and its
\* handler stands in one slot of its line.
THEOREM ScanFindsThemAll == LinesConnected => (ScanSpec => []ScanFindsAll)
<1>1. SUFFICES ASSUME LinesConnected PROVE ScanSpec => []ScanFindsAll
  OBVIOUS
<1>2. ScanInv => ScanFindsAll
  BY <1>1, ScanFinds
<1>3. ScanSpec => []ScanInv
  BY <1>1, ScanInvariant
<1>4. QED
  BY <1>2, <1>3, PTL

-----------------------------------------------------------------------------
(* What was answered, computed frame by frame.                             *)

\* A step for each place, taken one after the other from b.
Trace(f, N, b, s) == f[0] = b /\ \A n \in 1 .. N : f[n] = s[n][f[n - 1]]

LEMMA Traced ==
  ASSUME NEW X, NEW b \in X, NEW N \in Nat, NEW s \in [1 .. N -> [X -> X]]
  PROVE  \E f \in [0 .. N -> X] : Trace(f, N, b, s)
<1> DEFINE T == {q \in Nat : q =< N /\ ~ \E f \in [0 .. q -> X] : Trace(f, q, b, s)}
<1>1. SUFFICES ASSUME T # {} PROVE FALSE
  OBVIOUS
<1>2. PICK m \in T : \A q \in T : m =< q
  BY <1>1, Least
<1>3. m # 0
  <2>1. SUFFICES ASSUME m = 0 PROVE FALSE
    OBVIOUS
  <2>2. [q \in 0 .. 0 |-> b] \in [0 .. 0 -> X]
    OBVIOUS
  <2>3. Trace([q \in 0 .. 0 |-> b], 0, b, s)
    BY DEF Trace
  <2>4. QED
    BY <1>2, <2>1, <2>2, <2>3
<1>4. m \in Nat /\ m - 1 \in Nat /\ m - 1 =< N /\ m =< N /\ ~(m =< m - 1)
  BY <1>2, <1>3
<1>5. PICK f \in [0 .. m - 1 -> X] : Trace(f, m - 1, b, s)
  BY <1>2, <1>4
<1> DEFINE g == [q \in 0 .. m |-> IF q = m THEN s[m][f[m - 1]] ELSE f[q]]
<1>6. g \in [0 .. m -> X]
  <2>1. m \in 1 .. N /\ f[m - 1] \in X
    BY <1>4
  <2>2. s[m][f[m - 1]] \in X
    BY <2>1
  <2>3. ASSUME NEW q \in 0 .. m, q # m PROVE f[q] \in X
    BY <1>4, <2>3
  <2>4. QED
    BY <2>2, <2>3
<1>7. Trace(g, m, b, s)
  <2>1. f[0] = b /\ \A n \in 1 .. m - 1 : f[n] = s[n][f[n - 1]]
    BY <1>5 DEF Trace
  <2>2. g[0] = b
    BY <1>4, <2>1
  <2>3. ASSUME NEW n \in 1 .. m PROVE g[n] = s[n][g[n - 1]]
    <3>1. n - 1 \in 0 .. m /\ n - 1 # m /\ n \in 0 .. m
      BY <1>4
    <3>2. g[n - 1] = f[n - 1]
      BY <3>1
    <3>3. CASE n = m
      BY <3>1, <3>2, <3>3
    <3>4. CASE n # m
      <4>1. n \in 1 .. m - 1
        BY <1>4, <3>4
      <4>2. QED
        BY <2>1, <3>1, <3>2, <3>4, <4>1
    <3>5. QED
      BY <3>3, <3>4
  <2>4. QED
    BY <2>2, <2>3 DEF Trace
<1>8. QED
  BY <1>2, <1>6, <1>7

\* What holds at its start and is kept by its steps holds on the whole trace.
LEMMA TraceStays ==
  ASSUME NEW N \in Nat, NEW f, NEW P, f[0] \in P, \A n \in 1 .. N : f[n - 1] \in P => f[n] \in P
  PROVE  \A n \in 0 .. N : f[n] \in P
<1> DEFINE T == {q \in Nat : q =< N /\ f[q] \notin P}
<1>1. SUFFICES ASSUME T # {} PROVE FALSE
  OBVIOUS
<1>2. PICK m \in T : \A q \in T : m =< q
  BY <1>1, Least
<1>3. m \in 1 .. N /\ m - 1 \in Nat /\ m - 1 =< N /\ ~(m =< m - 1)
  BY <1>2
<1>4. f[m - 1] \in P
  BY <1>2, <1>3
<1>5. QED
  BY <1>2, <1>3, <1>4

LEMMA TraceKeeps ==
  ASSUME NEW N \in Nat, NEW f, NEW P, f[0] \in P[0],
         \A n \in 1 .. N : f[n - 1] \in P[n - 1] => f[n] \in P[n]
  PROVE  \A n \in 0 .. N : f[n] \in P[n]
<1> DEFINE T == {q \in Nat : q =< N /\ f[q] \notin P[q]}
<1>1. SUFFICES ASSUME T # {} PROVE FALSE
  OBVIOUS
<1>2. PICK m \in T : \A q \in T : m =< q
  BY <1>1, Least
<1>3. m \in 1 .. N /\ m - 1 \in Nat /\ m - 1 =< N /\ ~(m =< m - 1)
  BY <1>2
<1>4. f[m - 1] \in P[m - 1]
  BY <1>2, <1>3
<1>5. QED
  BY <1>2, <1>3, <1>4

-----------------------------------------------------------------------------
(* What the frames received come to, one frame at a time.                   *)

Answered(w, f) == IF IsMine(f) THEN Append(w, f.from) ELSE w

LEMMA AnswersTraced ==
  ASSUME NEW frames \in Seq(Seen)
  PROVE  LET w == AnswersTo(frames)
         IN  /\ w[0] = <<>>
             /\ \A n \in 1 .. Len(frames) : w[n] = Answered(w[n - 1], frames[n])
             /\ \A n \in 0 .. Len(frames) : w[n] \in Seq(Hosts)
<1> DEFINE N == Len(frames)
           X == Seq(Hosts)
           s == [n \in 1 .. N |-> [x \in X |-> Answered(x, frames[n])]]
           G(f) == [n \in 0 .. N |-> IF n = 0 THEN <<>>
                                     ELSE IF IsMine(frames[n]) THEN Append(f[n - 1], frames[n].from)
                                     ELSE f[n - 1]]
<1>1. N \in Nat /\ \A n \in 1 .. N : frames[n] \in Seen
  OBVIOUS
<1>2. <<>> \in X
  OBVIOUS
<1> HIDE DEF N
<1>3. ASSUME NEW n \in 1 .. N, NEW x \in X PROVE Answered(x, frames[n]) \in X
  <2>1. IsMine(frames[n]) => frames[n].from \in Hosts
    <3>1. frames[n] \in Seen
      BY <1>1
    <3>2. QED
      BY <3>1, FrameFacts DEF IsMine
  <2>2. QED
    BY <2>1, AppendProperties DEF Answered
<1> HIDE DEF X
<1>4. s \in [1 .. N -> [X -> X]]
  BY <1>3
<1>5. PICK f \in [0 .. N -> X] : Trace(f, N, <<>>, s)
  BY <1>1, <1>2, <1>4, Traced
<1>6. f = G(f)
  <2>1. f[0] = <<>> /\ \A n \in 1 .. N : f[n] = s[n][f[n - 1]]
    BY <1>5 DEF Trace
  <2>2. ASSUME NEW n \in 0 .. N PROVE f[n] = G(f)[n]
    <3>1. CASE n = 0
      BY <2>1, <3>1
    <3>2. CASE n # 0
      <4>1. n \in 1 .. N /\ n - 1 \in 0 .. N
        BY <1>1, <3>2
      <4>2. f[n - 1] \in X
        BY <4>1
      <4>3. f[n] = Answered(f[n - 1], frames[n])
        BY <2>1, <4>1, <4>2
      <4>4. QED
        BY <3>2, <4>3 DEF Answered
    <3>3. QED
      BY <3>1, <3>2
  <2>3. QED
    BY <2>2
<1> DEFINE g == CHOOSE g : g = G(g)
<1>7. g = G(g)
  BY <1>6
<1>8. AnswersTo(frames) = g
  BY Zenon DEF AnswersTo, N
<1> HIDE DEF g
<1>9. g[0] = <<>>
  BY <1>1, <1>7
<1>10. ASSUME NEW n \in 1 .. N PROVE g[n] = Answered(g[n - 1], frames[n])
  <2>1. n \in 0 .. N /\ n # 0
    BY <1>1
  <2>2. QED
    BY <1>7, <2>1 DEF Answered
<1>11. \A n \in 0 .. N : g[n] \in X
  <2>1. \A n \in 1 .. N : g[n - 1] \in X => g[n] \in X
    BY <1>3, <1>10
  <2>2. QED
    BY <1>1, <1>2, <1>9, <2>1, TraceStays
<1>12. QED
  BY <1>8, <1>9, <1>10, <1>11 DEF N, X

LEMMA AnswersMore ==
  ASSUME NEW frames \in Seq(Seen), NEW f \in Seen
  PROVE  LET more == Append(frames, f)
             w == AnswersTo(frames)[Len(frames)]
         IN  AnswersTo(more)[Len(more)] = Answered(w, f) /\ w \in Seq(Hosts)
<1> DEFINE L == Len(frames)
           more == Append(frames, f)
<1>1. /\ L \in Nat /\ more \in Seq(Seen) /\ Len(more) = L + 1
      /\ (\A q \in 1 .. L : more[q] = frames[q]) /\ more[L + 1] = f
  BY AppendProperties
<1> HIDE DEF more
<1>2. PICK g : /\ g = AnswersTo(more) /\ g[0] = <<>>
               /\ \A n \in 1 .. Len(more) : g[n] = Answered(g[n - 1], more[n])
  BY <1>1, AnswersTraced
<1>3. PICK w : /\ w = AnswersTo(frames) /\ w[0] = <<>>
               /\ \A n \in 1 .. L : w[n] = Answered(w[n - 1], frames[n])
               /\ \A n \in 0 .. L : w[n] \in Seq(Hosts)
  BY AnswersTraced
<1> HIDE DEF L
<1>4. \A n \in 1 .. L : g[n - 1] = w[n - 1] => g[n] = w[n]
  BY <1>1, <1>2, <1>3
<1>5. \A n \in 0 .. L : g[n] = w[n]
  <2> DEFINE T == {q \in Nat : q =< L /\ g[q] # w[q]}
  <2>1. g[0] = w[0] /\ L \in Nat
    BY <1>1, <1>2, <1>3
  <2>2. SUFFICES ASSUME T # {} PROVE FALSE
    BY <2>1
  <2>3. PICK m \in T : \A q \in T : m =< q
    BY <2>2, Least
  <2>4. m \in 1 .. L /\ m - 1 \in Nat /\ m - 1 =< L /\ ~(m =< m - 1)
    BY <2>1, <2>3
  <2>5. g[m - 1] = w[m - 1]
    BY <2>3, <2>4
  <2>6. QED
    BY <1>4, <2>3, <2>4, <2>5
<1>6. g[L + 1] = Answered(g[L], f)
  <2>1. L + 1 \in 1 .. Len(more) /\ (L + 1) - 1 = L
    BY <1>1
  <2>2. QED
    BY <1>1, <1>2, <2>1
<1>7. g[L] = w[L] /\ w[L] \in Seq(Hosts)
  BY <1>1, <1>3, <1>5
<1>8. QED
  BY <1>1, <1>2, <1>3, <1>6, <1>7 DEF L, more

LEMMA NothingAnswered == AnswersTo(<<>>)[Len(<<>>)] = <<>>
<1>1. <<>> \in Seq(Seen) /\ Len(<<>>) = 0
  OBVIOUS
<1>2. QED
  BY <1>1, AnswersTraced

LEMMA NobodyAnswered == <<>> \in Seq(Ends) /\ Recipients(<<>>) = AnswersTo(<<>>)[Len(<<>>)]
<1>1. Recipients(<<>>) = <<>>
  BY DEF Recipients
<1>2. QED
  BY <1>1, NothingAnswered

LEMMA OneMoreAnswered ==
  ASSUME NEW w \in Seq(Ends), NEW p \in Ends
  PROVE  Append(w, p) \in Seq(Ends) /\ Recipients(Append(w, p)) = Append(Recipients(w), p.to)
<1> DEFINE L == Len(w)
           more == Append(w, p)
           r == Recipients(w)
           s == Recipients(more)
<1>1. /\ L \in Nat /\ DOMAIN w = 1 .. L /\ \A i \in 1 .. L : w[i] \in Ends
      /\ more \in Seq(Ends) /\ DOMAIN more = 1 .. L + 1
      /\ (\A i \in 1 .. L : more[i] = w[i]) /\ more[L + 1] = p
  BY AppendProperties
<1> HIDE DEF L, more
<1>2. /\ r = [i \in 1 .. L |-> w[i].to] /\ s = [i \in 1 .. L + 1 |-> more[i].to]
      /\ p.to \in Hosts
  BY <1>1 DEF Recipients, Ends
<1>3. r \in Seq(Hosts) /\ s \in Seq(Hosts) /\ Len(r) = L /\ Len(s) = L + 1
  <2>1. r \in [1 .. L -> Hosts] /\ s \in [1 .. L + 1 -> Hosts]
    <3>1. \A i \in 1 .. L : w[i].to \in Hosts /\ more[i] = w[i]
      BY <1>1 DEF Ends
    <3>2. \A i \in 1 .. L + 1 : more[i].to \in Hosts
      BY <1>1, <1>2, <3>1
    <3>3. QED
      BY <1>2, <3>1, <3>2
  <2> HIDE DEF r, s
  <2>2. QED
    BY <1>1, <2>1
<1>4. \A i \in 1 .. L : s[i] = r[i]
  BY <1>1, <1>2
<1>5. s[L + 1] = p.to
  BY <1>1, <1>2
<1> HIDE DEF r, s
<1>6. s = Append(r, p.to)
  <2>1. PICK h \in Hosts, u \in Seq(Hosts) : h = p.to /\ u = r
    BY <1>2, <1>3
  <2>2. /\ Append(u, h) \in Seq(Hosts) /\ Len(Append(u, h)) = Len(u) + 1
        /\ (\A i \in 1 .. Len(u) : Append(u, h)[i] = u[i]) /\ Append(u, h)[Len(u) + 1] = h
    BY AppendProperties
  <2>3. \A i \in 1 .. L + 1 : s[i] = Append(u, h)[i]
    BY <1>1, <1>3, <1>4, <1>5, <2>1, <2>2
  <2>4. s = Append(u, h)
    BY <1>3, <2>1, <2>2, <2>3, SeqEqual
  <2>5. QED
    BY <2>1, <2>4
<1>7. QED
  BY <1>1, <1>6 DEF r, s, more

LEMMA NobodyHeard == LastHeard(<<>>) = Broadcast
<1>1. DOMAIN <<>> = {}
  OBVIOUS
<1>2. {i \in DOMAIN <<>> : <<>>[i].type = "ARP"} = {}
  BY <1>1
<1>3. QED
  BY <1>2 DEF LastHeard

LEMMA HeardMore ==
  ASSUME NEW frames \in Seq(Seen), NEW f \in Seen
  PROVE  LastHeard(Append(frames, f)) = IF f.type = "ARP" THEN f.from ELSE LastHeard(frames)
<1> DEFINE L == Len(frames)
           more == Append(frames, f)
           old == {i \in DOMAIN frames : frames[i].type = "ARP"}
           new == {i \in DOMAIN more : more[i].type = "ARP"}
<1>1. /\ L \in Nat /\ more \in Seq(Seen) /\ Len(more) = L + 1
      /\ (\A q \in 1 .. L : more[q] = frames[q]) /\ more[L + 1] = f
      /\ DOMAIN frames = 1 .. L /\ DOMAIN more = 1 .. L + 1
  BY AppendProperties
<1> HIDE DEF L, more
<1>2. new = old \cup (IF f.type = "ARP" THEN {L + 1} ELSE {})
  BY <1>1
<1>3. old \in SUBSET (0 .. L + 1) /\ new \in SUBSET (0 .. L + 1) /\ old \subseteq 1 .. L
  BY <1>1
<1>4. LastHeard(frames) = IF old = {} THEN Broadcast ELSE frames[Max(old)].from
  BY DEF LastHeard
<1>5. LastHeard(more) = IF new = {} THEN Broadcast ELSE more[Max(new)].from
  BY DEF LastHeard
<1> HIDE DEF old, new
<1>6. CASE f.type = "ARP"
  <2>1. new # {} /\ L + 1 \in new
    BY <1>2, <1>6
  <2>2. Max(new) \in new /\ \A x \in new : x =< Max(new)
    <3>1. L + 1 \in Nat
      BY <1>1
    <3>2. QED
      BY <1>3, <2>1, <3>1, LargestIn, Zenon
  <2> HIDE DEF new
  <2>3. Max(new) = L + 1
    <3>1. PICK m : m = Max(new)
      OBVIOUS
    <3>2. m \in 0 .. L + 1 /\ L + 1 =< m
      BY <1>3, <2>1, <2>2, <3>1
    <3>3. m = L + 1
      BY <1>1, <3>2
    <3>4. QED
      BY <3>1, <3>3
  <2>4. QED
    BY <1>1, <1>5, <1>6, <2>1, <2>3 DEF more
<1>7. CASE f.type # "ARP"
  <2>1. new = old
    BY <1>2, <1>7
  <2>2. CASE old = {}
    BY <1>4, <1>5, <1>7, <2>1, <2>2 DEF more
  <2>3. CASE old # {}
    <3>1. Max(old) \in old
      <4>1. L + 1 \in Nat
        BY <1>1
      <4>2. QED
        BY <1>3, <2>3, <4>1, LargestIn, Zenon
    <3>2. more[Max(old)] = frames[Max(old)]
      BY <1>1, <1>3, <3>1
    <3>3. QED
      BY <1>4, <1>5, <1>7, <2>1, <2>3, <3>2 DEF more
  <2>4. QED
    BY <2>2, <2>3
<1>8. QED
  BY <1>6, <1>7

-----------------------------------------------------------------------------
(* The answers and the ARP entry.                                          *)

\* An answer put into the card's next descriptor is sent at once.
LEMMA TransmitOne ==
  ASSUME NEW d, NEW t \in 0 .. NDESC - 1, NEW p, NEW e,
         d = [e EXCEPT ![t] = <<p>>], DOMAIN e = 0 .. NDESC - 1,
         \A i \in 0 .. NDESC - 1 : e[i] = <<>>,
         curr = t, wire \in Seq(Ends), p \in Ends, Transmit(d)
  PROVE  /\ wire' = Append(wire, p) /\ curr' = NextDescriptor(t)
         /\ \A i \in 0 .. NDESC - 1 : desc'[i] = <<>>
<1>1. NDESC \in Nat /\ NDESC > 0
  BY FrameFacts
<1>2. /\ DOMAIN d = 0 .. NDESC - 1 /\ d[t] = <<p>>
      /\ \A i \in 0 .. NDESC - 1 : i # t => d[i] = <<>>
  OBVIOUS
<1>3. (t + 0) % NDESC = t /\ (t + 1 - 1) % NDESC = t
  BY <1>1
<1>4. 1 \in Sendable(d)
  <2>1. \A i \in 0 .. 1 - 1 : d[(curr + i) % NDESC] # <<>>
    <3>1. SUFFICES ASSUME NEW i \in 0 .. 1 - 1 PROVE d[(curr + i) % NDESC] # <<>>
      OBVIOUS
    <3>2. i = 0
      OBVIOUS
    <3>3. (curr + i) % NDESC = t
      BY <1>3, <3>2
    <3>4. QED
      BY <1>2, <3>3
  <2>2. 1 \in 0 .. NDESC
    BY <1>1
  <2>3. QED
    BY <2>1, <2>2 DEF Sendable
<1>5. ASSUME NEW k \in Sendable(d) PROVE k =< 1
  <2>1. SUFFICES ASSUME k > 1 PROVE FALSE
    BY <1>1 DEF Sendable
  <2>2. k \in 0 .. NDESC /\ \A i \in 0 .. k - 1 : d[(t + i) % NDESC] # <<>>
    BY <1>5 DEF Sendable
  <2>3. 1 \in 0 .. k - 1 /\ NDESC > 1
    BY <1>1, <2>1, <2>2
  <2>4. d[(t + 1) % NDESC] # <<>>
    BY <2>2, <2>3
  <2>5. (t + 1) % NDESC # t /\ (t + 1) % NDESC \in 0 .. NDESC - 1
    <3>1. CASE t + 1 = NDESC
      <4>1. (t + 1) % NDESC = 0
        BY <1>1, <3>1
      <4>2. QED
        BY <1>1, <2>3, <3>1, <4>1
    <3>2. CASE t + 1 # NDESC
      <4>1. t + 1 \in 0 .. NDESC - 1
        BY <1>1, <3>2
      <4>2. (t + 1) % NDESC = t + 1
        BY <1>1, <4>1
      <4>3. QED
        BY <4>1, <4>2
    <3>3. QED
      BY <3>1, <3>2
  <2>6. QED
    BY <1>2, <2>4, <2>5
<1>6. Max(Sendable(d)) = 1
  <2>1. Sendable(d) \in SUBSET (0 .. NDESC) /\ Sendable(d) # {} /\ NDESC \in Nat
    BY <1>1, <1>4 DEF Sendable
  <2>2. Max(Sendable(d)) \in Sendable(d) /\ \A x \in Sendable(d) : x =< Max(Sendable(d))
    BY <2>1, LargestIn, Zenon
  <2>3. PICK m : m = Max(Sendable(d))
    OBVIOUS
  <2>4. m \in 0 .. NDESC /\ 1 =< m /\ m =< 1
    BY <1>4, <1>5, <2>1, <2>2, <2>3
  <2>5. QED
    BY <2>3, <2>4
<1>7. /\ wire' = wire \o [i \in 1 .. 1 |-> d[(curr + i - 1) % NDESC][1]]
      /\ desc' = [i \in 0 .. NDESC - 1 |-> IF \E j \in 0 .. 1 - 1 : i = (curr + j) % NDESC
                                           THEN <<>> ELSE d[i]]
      /\ curr' = (curr + 1) % NDESC
  BY <1>6 DEF Transmit
<1>8. [i \in 1 .. 1 |-> d[(curr + i - 1) % NDESC][1]] = <<p>>
  <2>1. d[(curr + 1 - 1) % NDESC][1] = p
    BY <1>2, <1>3
  <2>2. \A i \in 1 .. 1 : d[(curr + i - 1) % NDESC][1] = p
    BY <2>1
  <2>3. QED
    BY <2>2
<1>9. wire' = Append(wire, p)
  BY <1>7, <1>8, AppendIsConcat
<1>10. curr' = NextDescriptor(t)
  BY <1>7, NextIs
<1>11. ASSUME NEW i \in 0 .. NDESC - 1 PROVE desc'[i] = <<>>
  <2>1. CASE i = t
    <3>1. \E j \in 0 .. 1 - 1 : i = (curr + j) % NDESC
      BY <1>3, <2>1
    <3>2. QED
      BY <1>7, <3>1
  <2>2. CASE i # t
    BY <1>2, <1>7, <2>2
  <2>3. QED
    BY <2>1, <2>2
<1>12. QED
  BY <1>9, <1>10, <1>11

LEMMA AnswerInvInit == ScanInit => AnswerInv
<1>1. SUFFICES ASSUME NetInit PROVE AnswerInv
  BY DEF ScanInit
<1>2. /\ wire = <<>> /\ handled = <<>> /\ fresh = 0 /\ init = "idle" /\ curr = 0
      /\ NICDevice.tx_current = 0 /\ \A d \in 0 .. NDESC - 1 : desc[d] = <<>>
  BY <1>1 DEF NetInit
<1>3. Sending
  BY <1>2, NobodyAnswered DEF Sending
<1>4. Learning
  BY <1>2 DEF Learning
<1>5. QED
  BY <1>3, <1>4 DEF AnswerInv

\* Steps of the card and the scan that no answer depends on.
LEMMA AnswerQuiet ==
  ASSUME AnswerInv,
         UNCHANGED <<wire, desc, curr, NICDevice, arp_table, fresh, handled, early>>,
         init' = init \/ (init = "idle" /\ init' = "reset")
  PROVE  AnswerInv'
<1>1. Sending'
  BY DEF AnswerInv, Sending
<1>2. Learning'
  BY DEF AnswerInv, Learning
<1>3. QED
  BY <1>1, <1>2 DEF AnswerInv

LEMMA AnswerReceive ==
  ASSUME NetTypes, AnswerInv, RTL8139_RECEIVE_PACKET
  PROVE  AnswerInv'
<1>1. PICK f \in Found :
        /\ ethernet_handle_packet(f)
        /\ handled' = Append(handled, f)
        /\ NICDevice' = [NICDevice EXCEPT
                           !.current_packet_ptr = Advance(NICDevice.current_packet_ptr, f.len),
                           !.tx_current = IF IsMine(f) THEN NextDescriptor(@) ELSE @]
        /\ early' = early \cup During
        /\ UNCHANGED booter
  BY DEF RTL8139_RECEIVE_PACKET
<1>2. f \in Seen /\ handled \in Seq(Seen) /\ Len(handled) \in Nat /\ CardTypes
  BY FoundIs DEF NetTypes, CardTypes
<1>3. SUFFICES ASSUME early' = {} PROVE AnswerInv'
  BY DEF AnswerInv, Sending, Learning
<1>4. early = {} /\ During = {}
  BY <1>1, <1>3
<1>5. init = "idle" /\ init' = init /\ fresh' = fresh
  BY <1>1, <1>4 DEF During, booter
<1>6. /\ wire \in Seq(Ends) /\ Recipients(wire) = AnswersTo(handled)[Len(handled)]
      /\ \A d \in 0 .. NDESC - 1 : desc[d] = <<>>
      /\ NICDevice.tx_current = curr
  BY <1>4, <1>5 DEF AnswerInv, Sending
<1>7. AnswersTo(handled')[Len(handled')] = Answered(Recipients(wire), f)
  BY <1>1, <1>2, <1>6, AnswersMore
<1>8. /\ wire' \in Seq(Ends) /\ Recipients(wire') = Answered(Recipients(wire), f)
      /\ \A d \in 0 .. NDESC - 1 : desc'[d] = <<>>
      /\ NICDevice'.tx_current = curr'
  <2>1. /\ NICDevice \in [tx_current : 0 .. NDESC - 1, rx_buffer : 0 .. INITS, ioaddr : BOOLEAN,
                         current_packet_ptr : Nat]
        /\ curr \in 0 .. NDESC - 1
        /\ desc \in [0 .. NDESC - 1 -> {<<>>} \cup {<<e>> : e \in Ends}]
    BY <1>2 DEF CardTypes
  <2>2. NICDevice'.tx_current = IF IsMine(f) THEN NextDescriptor(NICDevice.tx_current)
                                ELSE NICDevice.tx_current
    BY <1>1, <2>1
  <2>3. CASE IsMine(f)
    <3>1. f \in Frames /\ Reply(f) \in Ends
      <4>1. f \in Frames
        BY <1>2, <2>3, FrameFacts DEF IsMine
      <4>2. QED
        BY <4>1, FrameFacts DEF Reply, Ends
    <3>21. PICK t \in 0 .. NDESC - 1 : t = curr
      BY <2>1
    <3>22. PICK e, d, p : e = desc /\ p = Reply(f) /\ d = [e EXCEPT ![t] = <<p>>]
      OBVIOUS
    <3>2. t = curr /\ e = desc /\ p = Reply(f) /\ d = [e EXCEPT ![t] = <<p>>]
      BY <3>21, <3>22
    <3>3. Transmit(d)
      <4>1. Transmit([desc EXCEPT ![NICDevice.tx_current] = <<Reply(f)>>])
        BY <1>1, <2>3 DEF ethernet_handle_packet, RTL8139_SEND_PACKET
      <4>2. d = [desc EXCEPT ![NICDevice.tx_current] = <<Reply(f)>>]
        BY <1>6, <3>2
      <4>3. QED
        BY <4>1, <4>2
    <3>4. /\ wire' = Append(wire, p) /\ curr' = NextDescriptor(t)
          /\ \A i \in 0 .. NDESC - 1 : desc'[i] = <<>>
      <4>1. /\ DOMAIN e = 0 .. NDESC - 1 /\ \A i \in 0 .. NDESC - 1 : e[i] = <<>>
            /\ p \in Ends /\ curr = t
        BY <1>6, <2>1, <3>1, <3>2
      <4>2. QED
        BY <1>6, <3>2, <3>3, <4>1, TransmitOne
    <3>5. wire' \in Seq(Ends) /\ Recipients(wire') = Append(Recipients(wire), f.from)
      <4>1. p \in Ends /\ p.to = f.from
        BY <3>1, <3>2 DEF Reply
      <4>2. QED
        BY <1>6, <3>4, <4>1, OneMoreAnswered
    <3>6. QED
      BY <1>6, <2>2, <2>3, <3>2, <3>4, <3>5 DEF Answered
  <2>4. CASE ~IsMine(f)
    BY <1>1, <1>6, <2>2, <2>4 DEF ethernet_handle_packet, Answered
  <2>5. QED
    BY <2>3, <2>4
<1>9. Sending'
  BY <1>5, <1>7, <1>8 DEF Sending
<1>10. Learning'
  <2>1. fresh > 0 => arp_table = [ip |-> LastHeard(handled), mac |-> LastHeard(handled)]
    BY <1>4, <1>5 DEF AnswerInv, Learning
  <2>2. LastHeard(handled') = IF f.type = "ARP" THEN f.from ELSE LastHeard(handled)
    BY <1>1, <1>2, HeardMore
  <2>3. arp_table' = IF f.type = "ARP" THEN [ip |-> f.from, mac |-> f.from] ELSE arp_table
    BY <1>1 DEF ethernet_handle_packet, Learn, arp
  <2>4. fresh' > 0 => arp_table' = [ip |-> LastHeard(handled'), mac |-> LastHeard(handled')]
    <3>1. CASE f.type = "ARP"
      BY <1>5, <2>2, <2>3, <3>1
    <3>2. CASE f.type # "ARP"
      BY <1>5, <2>1, <2>2, <2>3, <3>2
    <3>3. QED
      BY <3>1, <3>2
  <2>5. QED
    BY <1>5, <2>4 DEF Learning
<1>11. QED
  BY <1>9, <1>10 DEF AnswerInv

LEMMA AnswerTest ==
  ASSUME NetTypes, AnswerInv, RTL8139_TEST
  PROVE  AnswerInv'
<1>1. CASE Reset
  <2>1. /\ init' = "enable" /\ handled' = <<>> /\ wire' = <<>> /\ curr' = 0
        /\ \A d \in 0 .. NDESC - 1 : desc'[d] = <<>>
    BY <1>1 DEF Reset, Boot
  <2>2. QED
    BY <2>1, NobodyAnswered DEF AnswerInv, Sending, Learning
<1>2. CASE Enable \/ InstallHandler
  <2>1. /\ init \in {"enable", "install"} /\ init' \in {"install", "copy_tx"}
        /\ UNCHANGED <<wire, desc, curr, NICDevice, arp_table, fresh, handled, early>>
    BY <1>2 DEF Enable, InstallHandler, Boot, arp, ghosts, card
  <2>2. QED
    BY <2>1 DEF AnswerInv, Sending, Learning
<1>3. CASE copyNIC
  <2>1. /\ init \in {"copy_tx", "copy_buffer", "copy_io", "copy_ptr"}
        /\ init' \in {"copy_buffer", "copy_io", "copy_ptr", "arp_size"}
        /\ UNCHANGED <<wire, desc, curr, arp_table, fresh, handled, early>>
    BY <1>3 DEF copyNIC, Copy, Boot, arp, ghosts, card
  <2>2. NICDevice'.tx_current = IF init = "copy_tx" THEN 0 ELSE NICDevice.tx_current
    <3>1. NICDevice \in [tx_current : 0 .. NDESC - 1, rx_buffer : 0 .. INITS, ioaddr : BOOLEAN,
                         current_packet_ptr : Nat]
      BY DEF NetTypes, CardTypes
    <3>2. QED
      BY <1>3, <3>1 DEF copyNIC, Copy, Boot
  <2>3. QED
    BY <2>1, <2>2 DEF AnswerInv, Sending, Learning
<1>4. CASE initalize
  <2>1. /\ init \in Adding /\ init' \in {"arp_ip", "arp_mac", "idle"}
        /\ UNCHANGED <<wire, desc, curr, NICDevice, fresh, handled, early>>
    BY <1>4 DEF initalize, Entry, Boot, ghosts, card, Adding
  <2>2. /\ init' = "arp_mac" => arp_table' = [arp_table EXCEPT !.ip = Broadcast]
        /\ init' = "idle" => init = "arp_mac" /\ arp_table' = [arp_table EXCEPT !.mac = Broadcast]
    BY <1>4 DEF initalize, Entry, Boot
  <2>3. PICK i, m : arp_table = [ip |-> i, mac |-> m]
    BY DEF NetTypes, CardTypes
  <2>4. Sending'
    BY <2>1 DEF AnswerInv, Sending, Adding
  <2>5. ASSUME early = {}, init' = "idle" PROVE arp_table' = [ip |-> LastHeard(handled), mac |-> LastHeard(handled)]
    <3>1. handled = <<>> /\ arp_table.ip = Broadcast
      BY <2>1, <2>2, <2>5 DEF AnswerInv, Sending, Learning, Adding
    <3>2. i = Broadcast
      BY <2>3, <3>1
    <3>3. QED
      BY <2>2, <2>3, <2>5, <3>1, <3>2, NobodyHeard
  <2>6. init' = "arp_mac" => arp_table'.ip = Broadcast
    BY <2>2, <2>3
  <2>7. Learning'
    BY <2>1, <2>5, <2>6 DEF Learning
  <2>8. QED
    BY <2>4, <2>7 DEF AnswerInv
<1>5. QED
  BY <1>1, <1>2, <1>3, <1>4 DEF RTL8139_TEST

LEMMA AnswerInvStep ==
  ASSUME NetTypes, AnswerInv, [ScanNext]_scanvars
  PROVE  AnswerInv'
<1>1. CASE Enter \/ Acknowledge
  <2>1. UNCHANGED <<wire, desc, curr, NICDevice, arp_table, fresh, handled, early, init>>
    BY <1>1 DEF Enter, Acknowledge, card, arp, booter, ghosts
  <2>2. QED
    BY <2>1, AnswerQuiet
<1>2. CASE \E f \in Frames : Arrive(f)
  <2>1. UNCHANGED <<wire, desc, curr, NICDevice, arp_table, fresh, handled, early, init>>
    BY <1>2 DEF Arrive, arp, booter
  <2>2. QED
    BY <2>1, AnswerQuiet
<1>3. CASE CallDriver \/ Advances \/ UNCHANGED scanvars
  <2>1. CardKept /\ (init' = init \/ (init = "idle" /\ init' = "reset"))
    BY <1>3, ScanLeavesNet
  <2>2. QED
    BY <2>1, AnswerQuiet DEF CardKept
<1>4. QED
  BY <1>1, <1>2, <1>3, AnswerReceive, AnswerTest, StepsOfScan DEF RTL8139_HANDLER

\* What the card, its driver and its handler keep to at every step: the values
\* in range, the frames handled and merged counted against those received, no
\* answer waiting in a descriptor, the driver's next descriptor the card's, and
\* the ARP entry whole.
THEOREM NetworkInvariant == ScanSpec => [](NetTypes /\ AnswerInv)
<1>1. NetTypes /\ AnswerInv /\ [ScanNext]_scanvars => (NetTypes /\ AnswerInv)'
  BY NetTypesStep, AnswerInvStep
<1>2. QED
  BY <1>1, NetTypesInit, AnswerInvInit, PTL DEF ScanSpec

-----------------------------------------------------------------------------
(* The bytes the frames take.                                              *)

LEMMA BytesTraced ==
  ASSUME NEW frames \in Seq(Frames)
  PROVE  LET b == Bytes(frames)
         IN  /\ b[0] = 0
             /\ \A n \in 1 .. Len(frames) : b[n] = b[n - 1] + Padded(frames[n].len)
             /\ \A n \in 0 .. Len(frames) : b[n] \in Nat
<1> DEFINE N == Len(frames)
           s == [n \in 1 .. N |-> [x \in Nat |-> x + Padded(frames[n].len)]]
           G(f) == [n \in 0 .. N |-> IF n = 0 THEN 0 ELSE f[n - 1] + Padded(frames[n].len)]
<1>1. N \in Nat /\ \A n \in 1 .. N : Padded(frames[n].len) \in Nat
  <2>1. \A n \in 1 .. Len(frames) : frames[n] \in Frames
    OBVIOUS
  <2>2. QED
    BY <2>1, FrameFacts
<1> HIDE DEF N
<1>2. s \in [1 .. N -> [Nat -> Nat]]
  BY <1>1
<1>3. PICK f \in [0 .. N -> Nat] : Trace(f, N, 0, s)
  BY <1>1, <1>2, Traced
<1>4. f = G(f)
  <2>1. f[0] = 0 /\ \A n \in 1 .. N : f[n] = s[n][f[n - 1]]
    BY <1>3 DEF Trace
  <2>2. ASSUME NEW n \in 0 .. N PROVE f[n] = IF n = 0 THEN 0 ELSE f[n - 1] + Padded(frames[n].len)
    <3>1. CASE n = 0
      BY <2>1, <3>1
    <3>2. CASE n # 0
      <4>1. n \in 1 .. N /\ n - 1 \in 0 .. N
        BY <1>1, <3>2
      <4>2. f[n - 1] \in Nat
        BY <4>1
      <4>3. QED
        BY <2>1, <3>2, <4>1, <4>2
    <3>3. QED
      BY <3>1, <3>2
  <2>3. QED
    BY <2>2
<1> DEFINE g == CHOOSE g : g = G(g)
<1>5. g = G(g)
  BY <1>4
<1>6. Bytes(frames) = g
  BY Zenon DEF Bytes, N
<1> HIDE DEF g
<1>7. g[0] = 0
  BY <1>1, <1>5
<1>8. ASSUME NEW n \in 1 .. N PROVE g[n] = g[n - 1] + Padded(frames[n].len)
  <2>1. n \in 0 .. N /\ n # 0
    BY <1>1
  <2>2. QED
    BY <1>5, <2>1
<1>9. \A n \in 0 .. N : g[n] \in Nat
  <2>1. \A n \in 1 .. N : g[n - 1] \in Nat => g[n] \in Nat
    BY <1>1, <1>8
  <2>2. 0 \in Nat
    OBVIOUS
  <2>3. QED
    BY <1>1, <1>7, <2>1, <2>2, TraceStays
<1>10. QED
  BY <1>6, <1>7, <1>8, <1>9 DEF N

LEMMA BytesMore ==
  ASSUME NEW frames \in Seq(Frames), NEW f \in Frames
  PROVE  LET more == Append(frames, f)
             L == Len(frames)
         IN  /\ \A n \in 0 .. L : Bytes(more)[n] = Bytes(frames)[n]
             /\ Bytes(more)[L + 1] = Bytes(frames)[L] + Padded(f.len)
<1> DEFINE L == Len(frames)
           more == Append(frames, f)
<1>1. /\ L \in Nat /\ more \in Seq(Frames) /\ Len(more) = L + 1
      /\ (\A q \in 1 .. L : more[q] = frames[q]) /\ more[L + 1] = f
  BY AppendProperties
<1> HIDE DEF more
<1>2. PICK g : /\ g = Bytes(more) /\ g[0] = 0
               /\ \A n \in 1 .. Len(more) : g[n] = g[n - 1] + Padded(more[n].len)
  BY <1>1, BytesTraced
<1>3. PICK b : /\ b = Bytes(frames) /\ b[0] = 0
               /\ \A n \in 1 .. L : b[n] = b[n - 1] + Padded(frames[n].len)
  BY BytesTraced
<1> HIDE DEF L
<1>4. \A n \in 1 .. L : g[n - 1] = b[n - 1] => g[n] = b[n]
  BY <1>1, <1>2, <1>3
<1>5. \A n \in 0 .. L : g[n] = b[n]
  <2> DEFINE T == {q \in Nat : q =< L /\ g[q] # b[q]}
  <2>1. g[0] = b[0] /\ L \in Nat
    BY <1>1, <1>2, <1>3
  <2>2. SUFFICES ASSUME T # {} PROVE FALSE
    BY <2>1
  <2>3. PICK m \in T : \A q \in T : m =< q
    BY <2>2, Least
  <2>4. m \in 1 .. L /\ m - 1 \in Nat /\ m - 1 =< L /\ ~(m =< m - 1)
    BY <2>1, <2>3
  <2>5. g[m - 1] = b[m - 1]
    BY <2>3, <2>4
  <2>6. QED
    BY <1>4, <2>3, <2>4, <2>5
<1>6. g[L + 1] = g[L] + Padded(f.len)
  <2>1. L + 1 \in 1 .. Len(more) /\ (L + 1) - 1 = L
    BY <1>1
  <2>2. QED
    BY <1>1, <1>2, <2>1
<1>7. g[L] = b[L]
  BY <1>1, <1>5
<1>8. QED
  BY <1>2, <1>3, <1>5, <1>6, <1>7 DEF L, more

\* Each frame takes a multiple of four bytes, and some.
LEMMA BytesGrow ==
  ASSUME NEW frames \in Seq(Frames)
  PROVE  LET b == Bytes(frames)
         IN  \A n \in 0 .. Len(frames) :
               b[n] \in Nat /\ b[n] % 4 = 0 /\ \A i \in 0 .. n - 1 : b[i] < b[n]
<1>1. PICK b : /\ b = Bytes(frames) /\ b[0] = 0
               /\ \A n \in 1 .. Len(frames) : b[n] = b[n - 1] + Padded(frames[n].len)
               /\ \A n \in 0 .. Len(frames) : b[n] \in Nat
  BY BytesTraced
<1>2. PICK N \in Nat : N = Len(frames)
  OBVIOUS
<1> DEFINE P == [n \in 0 .. N |-> {x \in Nat : x % 4 = 0 /\ \A i \in 0 .. n - 1 : b[i] < x}]
<1>3. b[0] \in P[0]
  BY <1>1
<1>4. ASSUME NEW n \in 1 .. N, b[n - 1] \in P[n - 1] PROVE b[n] \in P[n]
  <2>1. n - 1 \in 0 .. N /\ n \in 0 .. N
    OBVIOUS
  <2>2. b[n - 1] \in Nat /\ b[n - 1] % 4 = 0 /\ \A i \in 0 .. (n - 1) - 1 : b[i] < b[n - 1]
    BY <1>4, <2>1
  <2>3. PICK k : k = Padded(frames[n].len) /\ k \in Nat /\ k >= 4 /\ k % 4 = 0
    <3>1. frames[n].len \in Nat
      <4>1. frames[n] \in Frames
        BY <1>2
      <4>2. QED
        BY <4>1, FrameFacts
    <3>2. QED
      BY <3>1, PaddedIs
  <2>4. b[n] = b[n - 1] + k
    BY <1>1, <1>2, <2>3
  <2>5. b[n] \in Nat /\ b[n] % 4 = 0 /\ b[n - 1] < b[n]
    BY <2>2, <2>3, <2>4
  <2>6. ASSUME NEW i \in 0 .. n - 1 PROVE b[i] < b[n]
    <3>1. b[i] \in Nat
      BY <1>1, <1>2
    <3>2. CASE i = n - 1
      BY <2>5, <3>2
    <3>3. CASE i # n - 1
      <4>1. b[i] < b[n - 1]
        BY <2>2, <3>3
      <4>2. QED
        BY <2>2, <2>5, <3>1, <4>1
    <3>4. QED
      BY <3>2, <3>3
  <2>7. QED
    BY <2>1, <2>5, <2>6
<1> HIDE DEF P
<1>5. \A n \in 0 .. N : b[n] \in P[n]
  BY <1>3, <1>4, TraceKeeps
<1>6. QED
  BY <1>1, <1>2, <1>5 DEF P

\* A frame that the card takes leaves less than a lap between its two sides, and
\* what it overwrites has been read.
LEMMA RoomInRing ==
  ASSUME NEW R \in Nat, NEW r \in Nat, NEW l \in Nat, NEW need \in Nat, NEW w \in Int,
         R > 0, r < R, r =< l, l - r < R, 4 =< need, need < R,
         w = (IF l < R THEN l ELSE l - R),
         (R + r - w) % R = 0 \/ need < (R + r - w) % R
  PROVE  /\ l + need - r < R
         /\ (w + need) % R = (IF l + need < R THEN l + need ELSE l + need - R)
         /\ l >= R => w + need - 1 < r
<1>1. CASE l < R
  <2>1. w = l
    BY <1>1
  <2>2. l + need - r < R
    <3>1. CASE r = l
      BY <3>1
    <3>2. CASE r # l
      <4>1. R + r - w \in 0 .. R - 1
        BY <1>1, <2>1, <3>2
      <4>2. (R + r - w) % R = R + r - w
        BY <4>1
      <4>3. R + r - w > 0
        BY <1>1, <2>1
      <4>4. QED
        BY <2>1, <4>2, <4>3
    <3>3. QED
      BY <3>1, <3>2
  <2>3. (w + need) % R = (IF l + need < R THEN l + need ELSE l + need - R)
    <3>1. CASE l + need < R
      BY <2>1, <3>1
    <3>2. CASE l + need >= R
      <4>1. w + need = R + (l + need - R) /\ l + need - R \in 0 .. R - 1
        BY <1>1, <2>1, <3>2
      <4>2. (w + need) % R = l + need - R
        BY <4>1
      <4>3. QED
        BY <3>2, <4>2
    <3>3. QED
      BY <3>1, <3>2
  <2>4. QED
    BY <1>1, <2>2, <2>3
<1>2. CASE l >= R
  <2>1. w = l - R
    BY <1>2
  <2>2. R + r - w = R + (R - (l - r)) /\ R - (l - r) \in 0 .. R - 1 /\ R - (l - r) > 0
    BY <1>2, <2>1
  <2>3. (R + r - w) % R = R - (l - r)
    BY <2>2
  <2>4. need < R - (l - r)
    BY <2>2, <2>3
  <2>5. w + need \in 0 .. R - 1 /\ w + need - 1 < r
    BY <1>2, <2>1, <2>4
  <2>6. (w + need) % R = w + need
    BY <2>5
  <2>7. QED
    BY <1>2, <2>1, <2>4, <2>5, <2>6
<1>3. QED
  BY <1>1, <1>2

-----------------------------------------------------------------------------
(* The ring.                                                               *)

Nics == [tx_current : 0 .. NDESC - 1, rx_buffer : 0 .. INITS, ioaddr : BOOLEAN,
         current_packet_ptr : Nat]

LEMMA RingInvInit == ScanInit => RingInv
<1>1. SUFFICES ASSUME NetInit PROVE RingInv
  BY DEF ScanInit
<1>2. /\ on = FALSE /\ cardbuf = 0 /\ wp = 0 /\ rp = 0 /\ init = "idle" /\ fresh = 0
      /\ received = <<>> /\ handled = <<>>
      /\ NICDevice.rx_buffer = 0 /\ NICDevice.current_packet_ptr = 0
  BY <1>1 DEF NetInit
<1>3. Buffers
  BY <1>2 DEF Buffers
<1>4. <<>> \in Seq(Frames) /\ Len(<<>>) = 0
  OBVIOUS
<1>5. Bytes(<<>>)[0] = 0
  BY <1>4, BytesTraced
<1>6. Places
  <2>1. 1 .. 0 = {} /\ 0 + 1 .. 0 = {}
    OBVIOUS
  <2>2. RING > 0 /\ RING \in Nat
    BY FrameFacts
  <2>3. QED
    BY <1>2, <1>4, <1>5, <2>1, <2>2 DEF Places
<1>7. QED
  BY <1>3, <1>6 DEF RingInv

\* Steps that leave the ring alone.
LEMMA RingQuietStep ==
  ASSUME RingInv,
         UNCHANGED <<on, cardbuf, fresh, wp, rp, rings, NICDevice, received, handled, early>>,
         init' = init \/ (init = "idle" /\ init' = "reset") \/ (init \in Adding /\ init' \in Adding \cup {"idle"})
  PROVE  RingInv'
<1>1. Buffers'
  BY DEF RingInv, Buffers, Working, Adding
<1>2. "copyNIC" \notin early' => Places'
  <2>1. SUFFICES ASSUME "copyNIC" \notin early PROVE Places'
    OBVIOUS
  <2>2. init \in Working <=> init' \in Working
    BY DEF Working, Adding
  <2>3. QED
    BY <2>1, <2>2 DEF RingInv, Places
<1>3. QED
  BY <1>1, <1>2 DEF RingInv

LEMMA RingArrive ==
  ASSUME NetTypes, RingInv, NEW f \in Frames, Arrive(f)
  PROVE  RingInv'
<1>1. /\ on /\ received' = Append(received, f)
      /\ UNCHANGED <<on, cardbuf, rp, NICDevice, init, fresh, handled, early>>
  BY DEF Arrive, booter
<1>2. Buffers'
  BY <1>1 DEF RingInv, Buffers
<1>3. SUFFICES ASSUME "copyNIC" \notin early PROVE Places'
  BY <1>1, <1>2 DEF RingInv
<1>4. Places
  BY <1>3 DEF RingInv
<1>5. received \in Seq(Frames) /\ handled \in Seq(Seen)
  BY DEF NetTypes, CardTypes
<1>6. PICK n \in Nat, L \in Nat, need \in Nat, c \in 0 .. INITS :
        n = Len(handled) /\ L = Len(received) /\ need = Padded(f.len) /\ c = cardbuf
  <2>1. Len(handled) \in Nat /\ Len(received) \in Nat
    BY <1>5
  <2>2. Padded(f.len) \in Nat
    BY FrameFacts
  <2>3. cardbuf \in 0 .. INITS
    BY DEF NetTypes, CardTypes
  <2>4. QED
    BY <2>1, <2>2, <2>3
<1>61. PICK B : B = Bytes(received)
  OBVIOUS
<1>62. PICK C : C = Bytes(Append(received, f))
  OBVIOUS
<1>7. n =< L
  <2>1. PICK m : m = merged
    OBVIOUS
  <2>2. m \in Nat
    BY <2>1 DEF NetTypes, CardTypes
  <2>3. PICK one \in {0, 1} : Len(received) = Len(handled) + merged + one
    <3>1. Len(received) = Len(handled) + merged
            + (IF "ROK" \in isr /\ ~(irq = "ack" /\ "ROK" \in status) THEN 1 ELSE 0)
      BY DEF NetTypes, Counted
    <3>2. QED
      BY <3>1
  <2>4. L = n + m + one
    BY <1>6, <2>1, <2>3
  <2>5. QED
    BY <2>2, <2>4
<1>8. /\ \A k \in 0 .. L : C[k] = B[k]
      /\ C[L + 1] = B[L] + need
  BY <1>5, <1>6, <1>61, <1>62, BytesMore
<1>9. \A k \in 0 .. L : B[k] \in Nat /\ \A i \in 0 .. k - 1 : B[i] < B[k]
  BY <1>5, <1>6, <1>61, <1>62, BytesGrow
<1>10. /\ Len(received') = L + 1 /\ \A i \in 1 .. L : received'[i] = received[i]
       /\ received'[L + 1] = f
  BY <1>1, <1>5, <1>6
<1>11. Bytes(received') = C /\ Len(handled') = n
  BY <1>1, <1>6, <1>61, <1>62
<1>12. init' \notin Working => handled' = <<>>
  BY <1>1, <1>4 DEF Places
<1>13. ASSUME NEW i \in 1 .. n, C[i - 1] < RING PROVE handled'[i] = received'[i]
  <2>1. i \in 1 .. L /\ i - 1 \in 0 .. L
    BY <1>7
  <2>2. B[i - 1] < RING
    BY <1>8, <1>13, <2>1
  <2>3. handled[i] = received[i]
    BY <1>4, <1>6, <1>61, <2>2 DEF Places
  <2>4. QED
    BY <1>1, <1>10, <2>1, <2>3
<1>14. ASSUME C[n] < RING
       PROVE  /\ init' \in Working => NICDevice'.current_packet_ptr = C[n]
              /\ rp' = C[n] /\ C[L + 1] - C[n] < RING
              /\ wp' = (IF C[L + 1] < RING THEN C[L + 1] ELSE C[L + 1] - RING)
              /\ \A i \in n + 1 .. L + 1 : C[i - 1] < RING => rings'[cardbuf'][C[i - 1]] = received'[i]
  <2>1. n \in 0 .. L /\ L \in 0 .. L /\ C[n] = B[n] /\ B[n] \in Nat /\ B[L] \in Nat
    BY <1>7, <1>8, <1>9
  <2>2. /\ init \in Working => NICDevice.current_packet_ptr = B[n]
        /\ rp = B[n] /\ B[L] - B[n] < RING
        /\ wp = (IF B[L] < RING THEN B[L] ELSE B[L] - RING)
        /\ \A i \in n + 1 .. L : B[i - 1] < RING => rings[cardbuf][B[i - 1]] = received[i]
    BY <1>4, <1>6, <1>61, <1>14, <2>1 DEF Places
  <2>3. PICK r \in Nat, l \in Nat, w \in Nat : r = B[n] /\ l = B[L] /\ w = wp
    <3>1. wp \in 0 .. RING - 1
      BY DEF NetTypes, CardTypes
    <3>2. wp \in Nat
      BY <3>1, FrameFacts
    <3>3. QED
      BY <2>1, <3>2
  <2>4. r =< l
    <3>1. CASE n = L
      BY <2>3, <3>1
    <3>2. CASE n # L
      <4>1. n \in 0 .. L - 1
        BY <1>7, <3>2
      <4>2. B[n] < B[L]
        BY <1>9, <2>1, <4>1
      <4>3. QED
        BY <2>3, <4>2
    <3>3. QED
      BY <3>1, <3>2
  <2>5. /\ RING \in Nat /\ RING > 0 /\ need < RING /\ need >= 4
    BY <1>6, FrameFacts
  <2>6. (RING + r - w) % RING = 0 \/ need < (RING + r - w) % RING
    BY <1>6, <2>2, <2>3 DEF Arrive
  <2>7. /\ l + need - r < RING
        /\ (w + need) % RING = (IF l + need < RING THEN l + need ELSE l + need - RING)
        /\ l >= RING => w + need - 1 < r
    <3>1. r < RING /\ l - r < RING /\ w = (IF l < RING THEN l ELSE l - RING)
      BY <1>14, <2>1, <2>2, <2>3
    <3>2. QED
      BY <2>4, <2>5, <2>6, <3>1, RoomInRing
  <2>8. wp' = (w + need) % RING
    BY <1>6, <2>3 DEF Arrive
  <2>9. C[L + 1] = l + need /\ C[n] = r
    BY <1>8, <2>1, <2>3
  <2>10. ASSUME NEW i \in n + 1 .. L + 1, C[i - 1] < RING
         PROVE  rings'[cardbuf'][C[i - 1]] = received'[i]
    <3> DEFINE row == [o \in 0 .. RING - 1 |->
                         IF o = wp THEN f
                         ELSE IF o \in wp .. wp + need - 1 THEN Nothing ELSE rings[c][o]]
    <3>1. rings \in [0 .. INITS -> [0 .. RING - 1 -> Frames \cup {Nothing}]]
      BY DEF NetTypes, CardTypes
    <3>2. rings' = [rings EXCEPT ![c] = row]
      BY <1>6 DEF Arrive
    <3>3. rings'[cardbuf'] = row
      <4> HIDE DEF row
      <4>1. QED
        BY <1>1, <1>6, <3>1, <3>2
    <3>4. PICK o : o = C[i - 1]
      OBVIOUS
    <3>5. i - 1 \in 0 .. L /\ o = B[i - 1] /\ o \in Nat
      BY <1>8, <1>9, <3>4
    <3>6. o \in 0 .. RING - 1
      BY <2>5, <2>10, <3>4, <3>5
    <3>7. row[o] = IF o = w THEN f ELSE IF o \in w .. w + need - 1 THEN Nothing ELSE rings[c][o]
      BY <2>3, <3>6
    <3> HIDE DEF row
    <3>8. r =< o
      <4>1. CASE i - 1 = n
        BY <2>3, <3>5, <4>1
      <4>2. CASE i - 1 # n
        <5>1. n \in 0 .. (i - 1) - 1
          BY <4>2
        <5>2. B[n] < B[i - 1]
          BY <1>9, <3>5, <5>1
        <5>3. QED
          BY <2>3, <3>5, <5>2
      <4>3. QED
        BY <4>1, <4>2
    <3>9. CASE i = L + 1
      <4>1. o = l
        BY <2>3, <3>5, <3>9
      <4>2. o = w
        BY <2>2, <2>3, <2>10, <3>4, <4>1
      <4>3. QED
        BY <1>10, <3>3, <3>4, <3>7, <3>9, <4>2
    <3>10. CASE i # L + 1
      <4>1. i \in n + 1 .. L /\ i \in 1 .. L
        BY <3>10
      <4>2. rings[c][o] = received[i]
        BY <1>6, <2>2, <2>10, <3>4, <3>5, <4>1
      <4>3. o < l
        <5>1. i - 1 \in 0 .. L - 1
          BY <4>1
        <5>2. B[i - 1] < B[L]
          BY <1>9, <2>1, <5>1
        <5>3. QED
          BY <2>3, <3>5, <5>2
      <4>4. o # w /\ o \notin w .. w + need - 1
        <5>1. CASE l < RING
          BY <2>2, <2>3, <4>3, <5>1
        <5>2. CASE l >= RING
          BY <2>5, <2>7, <3>8, <5>2
        <5>3. QED
          BY <2>5, <5>1, <5>2
      <4>5. QED
        BY <1>10, <3>3, <3>4, <3>7, <4>1, <4>2, <4>4
    <3>11. QED
      BY <3>9, <3>10
  <2>11. rp' = r /\ (init' \in Working => NICDevice'.current_packet_ptr = r)
    BY <1>1, <2>2, <2>3
  <2>12. PICK u, v : u = C[L + 1] /\ v = C[n]
    OBVIOUS
  <2>121. u = l + need /\ v = r
    BY <2>9, <2>12
  <2>122. u - v < RING
    BY <2>7, <2>121
  <2>123. wp' = (IF l + need < RING THEN l + need ELSE l + need - RING)
    BY <2>7, <2>8, Zenon
  <2>13. wp' = (IF u < RING THEN u ELSE u - RING)
    BY <2>5, <2>121, <2>123
  <2>14. rp' = C[n] /\ (init' \in Working => NICDevice'.current_packet_ptr = C[n])
    BY <2>9, <2>11
  <2>15. QED
    BY <2>10, <2>12, <2>122, <2>13, <2>14
<1>15. QED
  BY <1>10, <1>11, <1>12, <1>13, <1>14 DEF Places

LEMMA RingReceive ==
  ASSUME NetTypes, RingInv, RTL8139_RECEIVE_PACKET
  PROVE  RingInv'
<1>1. PICK f \in Found :
        /\ irq = "receive" /\ handled' = Append(handled, f)
        /\ NICDevice' = [NICDevice EXCEPT
                           !.current_packet_ptr = Advance(NICDevice.current_packet_ptr, f.len),
                           !.tx_current = IF IsMine(f) THEN NextDescriptor(@) ELSE @]
        /\ rp' = Advance(NICDevice.current_packet_ptr, f.len) % RING
        /\ early' = early \cup During
        /\ UNCHANGED <<on, cardbuf, wp, rings, init, fresh, received>>
  BY DEF RTL8139_RECEIVE_PACKET, booter
<1>2. CardTypes /\ NICDevice \in Nics /\ f \in Seen
  BY FoundIs DEF NetTypes, CardTypes, Nics
<1>3. /\ NICDevice'.rx_buffer = NICDevice.rx_buffer
      /\ NICDevice'.current_packet_ptr = Advance(NICDevice.current_packet_ptr, f.len)
  BY <1>1, <1>2 DEF Nics
<1>4. Buffers'
  BY <1>1, <1>3 DEF RingInv, Buffers
<1>5. SUFFICES ASSUME "copyNIC" \notin early' PROVE Places'
  BY <1>4 DEF RingInv
<1>6. "copyNIC" \notin early /\ "copyNIC" \notin During
  BY <1>1, <1>5
<1>7. init \in Working /\ Places
  <2>1. init = "idle" \/ init \in Adding
    BY <1>6 DEF During, Adding
  <2>2. QED
    BY <1>6, <2>1 DEF Working, RingInv
<1>8. received \in Seq(Frames) /\ handled \in Seq(Seen)
  BY DEF NetTypes, CardTypes
<1>91. PICK n \in Nat, L \in Nat : n = Len(handled) /\ L = Len(received)
  BY <1>8
<1>92. PICK B, p, c : B = Bytes(received) /\ p = NICDevice.current_packet_ptr /\ c = cardbuf
  OBVIOUS
<1>9. /\ n = Len(handled) /\ L = Len(received) /\ B = Bytes(received)
      /\ p = NICDevice.current_packet_ptr /\ c = cardbuf
  BY <1>91, <1>92
<1>10. n + 1 =< L
  <2>1. merged \in Nat
    BY DEF NetTypes, CardTypes
  <2>2. L = n + merged + 1
    BY <1>1, <1>9 DEF NetTypes, Counted
  <2>3. QED
    BY <2>1, <2>2
<1>11. \A k \in 0 .. L : B[k] \in Nat /\ B[k] % 4 = 0 /\ \A i \in 0 .. k - 1 : B[i] < B[k]
  BY <1>8, <1>9, BytesGrow
<1>12. n \in 0 .. L /\ n + 1 \in 0 .. L /\ n + 1 \in 1 .. L /\ n \in 0 .. (n + 1) - 1
  BY <1>10
<1>13. B[n + 1] = B[n] + Padded(received[n + 1].len)
  <2>1. (n + 1) - 1 = n
    OBVIOUS
  <2>2. \A k \in 1 .. L : B[k] = B[k - 1] + Padded(received[k].len)
    BY <1>8, <1>9, BytesTraced
  <2>3. QED
    BY <1>12, <2>1, <2>2
<1>14. B[n] \in Nat /\ B[n] % 4 = 0 /\ B[n + 1] \in Nat /\ B[n] < B[n + 1]
  BY <1>11, <1>12
<1>15. received[n + 1] \in Frames /\ received[n + 1].len \in Nat
  <2>1. received[n + 1] \in Frames
    BY <1>8, <1>9, <1>12
  <2>2. QED
    BY <2>1, FrameFacts
<1>16. /\ Len(handled') = n + 1 /\ handled'[n + 1] = f
       /\ \A i \in 1 .. n : handled'[i] = handled[i]
  BY <1>1, <1>2, <1>8, <1>9
<1>17. ASSUME B[n] < RING
       PROVE  /\ f = received[n + 1] /\ p = B[n] /\ B[L] - B[n] < RING
              /\ wp = (IF B[L] < RING THEN B[L] ELSE B[L] - RING)
              /\ \A i \in n + 1 .. L : B[i - 1] < RING => rings[c][B[i - 1]] = received[i]
  <2>1. /\ p = B[n] /\ B[L] - B[n] < RING
        /\ wp = (IF B[L] < RING THEN B[L] ELSE B[L] - RING)
        /\ \A i \in n + 1 .. L : B[i - 1] < RING => rings[c][B[i - 1]] = received[i]
    BY <1>7, <1>9, <1>17 DEF Places
  <2>2. rings[c][p] = received[n + 1]
    <3>1. n + 1 \in n + 1 .. L /\ (n + 1) - 1 = n
      BY <1>10
    <3>2. QED
      BY <1>17, <2>1, <3>1
  <2>3. NICDevice.rx_buffer = c
    BY <1>7, <1>9 DEF RingInv, Buffers
  <2>4. rings[NICDevice.rx_buffer][p] # Nothing /\ p < RING
    BY <1>15, <1>17, <2>1, <2>2, <2>3, FrameFacts
  <2>5. f = rings[NICDevice.rx_buffer][p]
    BY <1>2, <1>9, <2>4, FoundIs
  <2>6. QED
    BY <2>1, <2>2, <2>3, <2>5
<1>18. ASSUME NEW i \in 1 .. n + 1, B[i - 1] < RING PROVE handled'[i] = received'[i]
  <2>1. CASE i = n + 1
    <3>1. B[n] < RING
      BY <1>18, <2>1
    <3>2. QED
      BY <1>1, <1>16, <1>17, <2>1, <3>1
  <2>2. CASE i # n + 1
    <3>1. i \in 1 .. n
      BY <2>2
    <3>2. handled[i] = received[i]
      BY <1>7, <1>9, <1>18, <3>1 DEF Places
    <3>3. QED
      BY <1>1, <1>16, <3>1, <3>2
  <2>3. QED
    BY <2>1, <2>2
<1>19. ASSUME B[n + 1] < RING
       PROVE  /\ init' \in Working => NICDevice'.current_packet_ptr = B[n + 1]
              /\ rp' = B[n + 1] /\ B[L] - B[n + 1] < RING
              /\ wp' = (IF B[L] < RING THEN B[L] ELSE B[L] - RING)
              /\ \A i \in (n + 1) + 1 .. L : B[i - 1] < RING => rings'[cardbuf'][B[i - 1]] = received'[i]
  <2>1. RING \in Nat /\ RING > 0 /\ RX_BUFFER_SIZE \in Nat /\ RING =< RX_BUFFER_SIZE
    BY FrameFacts
  <2>2. B[n] < RING
    BY <1>14, <1>19, <2>1
  <2>3. /\ f = received[n + 1] /\ p = B[n] /\ B[L] - B[n] < RING
        /\ wp = (IF B[L] < RING THEN B[L] ELSE B[L] - RING)
        /\ \A i \in n + 1 .. L : B[i - 1] < RING => rings[c][B[i - 1]] = received[i]
    BY <1>17, <2>2
  <2>4. Padded(p + f.len) = B[n + 1]
    BY <1>13, <1>14, <1>15, <2>3, PaddedIs
  <2>5. Advance(p, f.len) = B[n + 1]
    BY <1>14, <1>19, <2>1, <2>4 DEF Advance
  <2>6. B[n + 1] % RING = B[n + 1]
    BY <1>14, <1>19, <2>1
  <2>7. B[L] \in Nat
    <3>1. L \in 0 .. L
      OBVIOUS
    <3>2. QED
      BY <1>11, <3>1
  <2>8. B[L] - B[n + 1] < RING
    BY <1>14, <2>1, <2>3, <2>7
  <2>9. rp' = B[n + 1] /\ NICDevice'.current_packet_ptr = B[n + 1]
    BY <1>1, <1>3, <1>9, <2>5, <2>6
  <2>10. \A i \in (n + 1) + 1 .. L : B[i - 1] < RING => rings'[cardbuf'][B[i - 1]] = received'[i]
    BY <1>1, <1>9, <2>3
  <2>11. QED
    BY <1>1, <2>3, <2>8, <2>9, <2>10
<1>20. Bytes(received') = B /\ Len(received') = L /\ init' \in Working
  BY <1>1, <1>7, <1>9
<1>21. QED
  BY <1>16, <1>18, <1>19, <1>20 DEF Places

LEMMA RingReset ==
  ASSUME RingInv, Reset
  PROVE  RingInv'
<1>1. /\ init' = "enable" /\ on' = FALSE /\ wp' = 0 /\ rp' = 0 /\ received' = <<>> /\ handled' = <<>>
  BY DEF Reset, Boot
<1>2. Buffers'
  BY <1>1 DEF Buffers, Working, Adding
<1>3. <<>> \in Seq(Frames) /\ Len(<<>>) = 0
  OBVIOUS
<1>4. Bytes(<<>>)[0] = 0
  BY <1>3, BytesTraced
<1>5. Places'
  <2>1. 1 .. 0 = {} /\ 0 + 1 .. 0 = {} /\ "enable" \notin Working
    BY DEF Working, Adding
  <2>2. RING > 0 /\ RING \in Nat
    BY FrameFacts
  <2>3. QED
    BY <1>1, <1>3, <1>4, <2>1, <2>2 DEF Places
<1>6. QED
  BY <1>2, <1>5 DEF RingInv

LEMMA RingEnable ==
  ASSUME RingInv, Enable
  PROVE  RingInv'
<1>1. /\ init = "enable" /\ init' = "install" /\ cardbuf' = fresh
      /\ UNCHANGED <<wp, rp, rings, NICDevice, fresh, received, handled, early>>
  BY DEF Enable, Boot, ghosts
<1>2. received = <<>>
  BY <1>1 DEF RingInv, Buffers
<1>3. Buffers'
  BY <1>1 DEF Buffers, Working, Adding
<1>4. ASSUME "copyNIC" \notin early PROVE Places'
  <2>1. Places
    BY <1>4 DEF RingInv
  <2>2. handled = <<>>
    BY <1>1, <2>1 DEF Places, Working, Adding
  <2>3. /\ Len(<<>>) = 0 /\ 0 + 1 .. 0 = {} /\ 1 .. 0 = {} /\ "install" \notin Working
    BY DEF Working, Adding
  <2>4. QED
    BY <1>1, <1>2, <2>1, <2>2, <2>3 DEF Places
<1>5. QED
  BY <1>1, <1>3, <1>4 DEF RingInv

LEMMA RingInstall ==
  ASSUME RingInv, InstallHandler
  PROVE  RingInv'
<1>1. /\ init = "install" /\ init' = "copy_tx"
      /\ UNCHANGED <<on, cardbuf, wp, rp, rings, NICDevice, fresh, received, handled, early>>
  BY DEF InstallHandler, Boot, ghosts, card
<1>2. Buffers'
  BY <1>1 DEF RingInv, Buffers, Working, Adding
<1>3. ASSUME "copyNIC" \notin early PROVE Places'
  <2>1. Places
    BY <1>3 DEF RingInv
  <2>2. init \notin Working /\ init' \notin Working
    BY <1>1 DEF Working, Adding
  <2>3. QED
    BY <1>1, <2>1, <2>2 DEF Places
<1>4. QED
  BY <1>1, <1>2, <1>3 DEF RingInv

LEMMA RingCopy ==
  ASSUME NetTypes, RingInv, copyNIC
  PROVE  RingInv'
<1>1. /\ init \in {"copy_tx", "copy_buffer", "copy_io", "copy_ptr"}
      /\ init = "copy_tx" => init' = "copy_buffer"
      /\ init = "copy_buffer" => init' = "copy_io"
      /\ init = "copy_io" => init' = "copy_ptr"
      /\ init = "copy_ptr" => init' = "arp_size"
      /\ UNCHANGED <<on, cardbuf, wp, rp, fresh, received, handled, early>>
      /\ rings' = [b \in DOMAIN rings |-> IF b = NICDevice'.rx_buffer \/ b = fresh THEN rings[b] ELSE Blank]
  <2> DEFINE Same == /\ UNCHANGED <<on, cardbuf, wp, rp, fresh, received, handled, early>>
                     /\ rings' = [b \in DOMAIN rings |->
                          IF b = NICDevice'.rx_buffer \/ b = fresh THEN rings[b] ELSE Blank]
  <2>1. ASSUME NEW from, NEW to, NEW nic, Copy(from, to, nic)
        PROVE  init = from /\ init' = to /\ Same
    BY <2>1 DEF Copy, Boot, ghosts, card
  <2> HIDE DEF Same
  <2>2. \/ init = "copy_tx" /\ init' = "copy_buffer" /\ Same
        \/ init = "copy_buffer" /\ init' = "copy_io" /\ Same
        \/ init = "copy_io" /\ init' = "copy_ptr" /\ Same
        \/ init = "copy_ptr" /\ init' = "arp_size" /\ Same
    BY <2>1 DEF copyNIC
  <2>3. Same
    BY <2>2
  <2>4. QED
    BY <2>2, <2>3 DEF Same
<1>2. NICDevice \in Nics
  BY DEF NetTypes, CardTypes, Nics
<1>3. /\ NICDevice'.rx_buffer = IF init = "copy_buffer" THEN fresh ELSE NICDevice.rx_buffer
      /\ init = "copy_ptr" => NICDevice'.current_packet_ptr = 0
  BY <1>2 DEF copyNIC, Copy, Boot, Nics
<1>4. cardbuf = fresh /\ cardbuf \in 0 .. INITS /\ cardbuf \in DOMAIN rings
  BY <1>1 DEF RingInv, Buffers, NetTypes, CardTypes
<1>5. rings'[cardbuf] = rings[cardbuf]
  BY <1>1, <1>4
<1>6. init \notin Working
  BY <1>1 DEF Working, Adding
<1>7. Buffers'
  <2>1. init' # "enable"
    BY <1>1
  <2>2. init' \in {"copy_io", "copy_ptr"} => NICDevice'.rx_buffer = fresh
    BY <1>1, <1>3 DEF RingInv, Buffers
  <2>3. init' \in Working => init = "copy_ptr"
    BY <1>1 DEF Working, Adding
  <2>4. init = "copy_ptr" => NICDevice'.rx_buffer = fresh
    BY <1>3 DEF RingInv, Buffers
  <2>5. QED
    BY <1>1, <1>4, <2>1, <2>2, <2>3, <2>4 DEF Buffers
<1>8. ASSUME "copyNIC" \notin early PROVE Places'
  <2>1. Places /\ handled = <<>>
    BY <1>6, <1>8 DEF RingInv, Places
  <2>2. Bytes(received)[0] = 0
    <3>1. received \in Seq(Frames)
      BY DEF NetTypes, CardTypes
    <3>2. QED
      BY <3>1, BytesTraced
  <2>3. Len(handled) = 0
    BY <2>1
  <2>4. init' \in Working => init = "copy_ptr"
    BY <1>1 DEF Working, Adding
  <2>5. init' \in Working => NICDevice'.current_packet_ptr = Bytes(received)[Len(handled)]
    BY <1>3, <2>2, <2>3, <2>4
  <2>6. QED
    BY <1>1, <1>5, <2>1, <2>5 DEF Places
<1>9. QED
  BY <1>1, <1>7, <1>8 DEF RingInv

LEMMA RingInvStep ==
  ASSUME NetTypes, RingInv, [ScanNext]_scanvars
  PROVE  RingInv'
<1>1. CASE Enter \/ Acknowledge
  <2>1. UNCHANGED <<on, cardbuf, fresh, wp, rp, rings, NICDevice, received, handled, early, init>>
    BY <1>1 DEF Enter, Acknowledge, card, booter, ghosts
  <2>2. QED
    BY <2>1, RingQuietStep
<1>2. CASE initalize
  <2>1. UNCHANGED <<on, cardbuf, fresh, wp, rp, rings, NICDevice, received, handled, early>>
    BY <1>2 DEF initalize, Entry, ghosts, card
  <2>2. init \in Adding /\ init' \in Adding \cup {"idle"}
    BY <1>2 DEF initalize, Entry, Boot, Adding
  <2>3. QED
    BY <2>1, <2>2, RingQuietStep
<1>3. CASE CallDriver \/ Advances \/ UNCHANGED scanvars
  <2>1. CardKept /\ (init' = init \/ (init = "idle" /\ init' = "reset"))
    BY <1>3, ScanLeavesNet
  <2>2. QED
    BY <2>1, RingQuietStep DEF CardKept
<1>4. QED
  BY <1>1, <1>2, <1>3, RingArrive, RingReceive, RingReset, RingEnable, RingInstall, RingCopy,
     StepsOfScan DEF RTL8139_HANDLER, RTL8139_TEST

\* The places of the two sides in the ring, at every step.
THEOREM RingInvariant == ScanSpec => []RingInv
<1>1. NetTypes /\ RingInv /\ [ScanNext]_scanvars => RingInv'
  BY RingInvStep
<1>2. ScanInit => RingInv
  BY RingInvInit
<1>3. QED
  BY <1>1, <1>2, NetworkInvariant, PTL DEF ScanSpec

LEMMA RingStays == RingInv => RingInStep
<1>1. SUFFICES ASSUME RingInv, "copyNIC" \notin early, NEW i \in DOMAIN handled \cap FirstLap
               PROVE  handled[i] = received[i]
  BY DEF RingInStep
<1>2. Places /\ Bytes(received)[i - 1] < RING
  BY <1>1 DEF RingInv, FirstLap
<1>3. QED
  BY <1>1, <1>2 DEF Places

\* The driver takes the frames of the card's first lap as they were received,
\* however the card and the handler interleave (RTL8139_RECEIVE_PACKET).
THEOREM FramesTakenInOrder == ScanSpec => []RingInStep
BY RingInvariant, RingStays, PTL

-----------------------------------------------------------------------------
(* Both together: what was taken is what the card stored.                   *)

LEMMA AnswersAll == NetTypes /\ AnswerInv /\ RingInStep => AnswersArp
<1>1. SUFFICES ASSUME NetTypes, AnswerInv, RingInStep, early = {}, DOMAIN handled \subseteq FirstLap
               PROVE  /\ Recipients(wire) = AnswersTo(Taken)[Len(Taken)]
                      /\ init = "idle" /\ fresh > 0 =>
                           arp_table = [ip |-> LastHeard(Taken), mac |-> LastHeard(Taken)]
  BY DEF AnswersArp
<1>2. handled \in Seq(Seen) /\ received \in Seq(Frames)
  BY <1>1 DEF NetTypes, CardTypes
<1>3. Len(handled) \in Nat /\ DOMAIN handled = 1 .. Len(handled)
      /\ Len(received) \in Nat /\ DOMAIN received = 1 .. Len(received)
  BY <1>2
<1>4. \A i \in 1 .. Len(handled) : i \in DOMAIN received /\ handled[i] = received[i]
  <2>1. \A i \in DOMAIN handled : handled[i] = received[i]
    BY <1>1 DEF RingInStep
  <2>2. FirstLap \subseteq DOMAIN received
    BY DEF FirstLap
  <2>3. QED
    BY <1>1, <1>3, <2>1, <2>2
<1>5. Len(handled) =< Len(received)
  <2>1. CASE Len(handled) = 0
    BY <1>3, <2>1
  <2>2. CASE Len(handled) # 0
    <3>1. Len(handled) \in 1 .. Len(handled)
      BY <1>3, <2>2
    <3>2. QED
      BY <1>3, <1>4, <3>1
  <2>3. QED
    BY <2>1, <2>2
<1>6. /\ Taken \in Seq(Frames) /\ Len(Taken) = Len(handled)
      /\ \A i \in 1 .. Len(handled) : Taken[i] = received[i]
  <2>1. PICK n \in Nat : n = Len(handled)
    BY <1>3
  <2>2. SubSeq(received, 1, n) \in Seq(Frames) /\ Len(SubSeq(received, 1, n)) = n
        /\ \A i \in 1 .. n : SubSeq(received, 1, n)[i] = received[i]
    BY <1>2, <1>3, <1>5, <2>1
  <2>3. QED
    BY <2>1, <2>2 DEF Taken
<1>7. Taken = handled
  <2>1. Taken \in Seq(Seen)
    BY <1>6 DEF Seen
  <2>2. \A i \in 1 .. Len(handled) : Taken[i] = handled[i]
    BY <1>4, <1>6
  <2>3. QED
    BY <1>2, <1>6, <2>1, <2>2, SeqEqual
<1>8. QED
  BY <1>1, <1>7 DEF AnswerInv, Sending, Learning

\* On the card's first lap, of the frames received, as many as the handler had
\* turns for are answered if they are requests, in their order and to the one who
\* asked, and the ARP entry names who was heard last (RTL8139_SEND_PACKET, lookupAdd).
THEOREM RequestsAreAnswered == ScanSpec => []AnswersArp
BY NetworkInvariant, FramesTakenInOrder, AnswersAll, PTL
=============================================================================
