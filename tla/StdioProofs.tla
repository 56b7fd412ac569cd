---------------------------- MODULE StdioProofs ----------------------------
(***************************************************************************)
(* Proofs about Stdio for any files, streams, descriptors and sizes.  Type *)
(* correctness and the ownership of descriptors hold for every mode, "w"   *)
(* included, the refinement of FileStore for the modes other than "w".     *)
(* Then about what kernel_main does with the standard library's other      *)
(* parts in Console: the table of key callbacks, the log, and the terminal *)
(* it is shown on.                                                         *)
(***************************************************************************)
EXTENDS Stdio, Console, SequenceTheorems, FiniteSetTheorems, WellFoundedInduction, TLAPS

LEMMA SmallerOf ==
  ASSUME NEW a \in Int, NEW b \in Int
  PROVE  Min({a, b}) \in Int /\ Min({a, b}) =< a /\ Min({a, b}) =< b
         /\ (Min({a, b}) = a \/ Min({a, b}) = b)
<1>1. \E x \in {a, b} : \A y \in {a, b} : x =< y
  OBVIOUS
<1>2. Min({a, b}) \in {a, b} /\ \A y \in {a, b} : Min({a, b}) =< y
  BY <1>1 DEF Min
<1>3. QED
  BY <1>2

LEMMA LargerOf ==
  ASSUME NEW a \in Int, NEW b \in Int
  PROVE  Max({a, b}) \in {a, b}
<1>1. \E x \in {a, b} : \A y \in {a, b} : x >= y
  OBVIOUS
<1>2. QED
  BY <1>1 DEF Max

LEMMA LargerAbove ==
  ASSUME NEW a \in Int, NEW b \in Int
  PROVE  Max({a, b}) >= a /\ Max({a, b}) >= b
<1>1. \E x \in {a, b} : \A y \in {a, b} : x >= y
  OBVIOUS
<1>2. \A y \in {a, b} : Max({a, b}) >= y
  BY <1>1 DEF Max
<1>3. QED
  BY <1>2

StreamsInv == TypeOK /\ DescriptorsOwned

LEMMA StreamsInit == Init => StreamsInv
<1> SUFFICES ASSUME Init PROVE StreamsInv
  OBVIOUS
<1>1. Zero \in Bytes
  BY StdioAssumption DEF Zero
<1>2. TypeOK
  BY <1>1, StdioAssumption DEF Init, TypeOK, ClosedEntry
<1>3. DescriptorsOwned
  BY DEF Init, DescriptorsOwned, ClosedEntry
<1>4. QED
  BY <1>2, <1>3 DEF StreamsInv

\* What an open FILE is, by the invariant.
LEMMA OpenStream ==
  ASSUME StreamsInv, NEW s \in Streams, stream[s] # NULL
  PROVE  /\ stream[s] \in [fd : Fd, position : 0 .. RAMFS_MAX_FILE_SIZE]
         /\ Entry(s) \in [in_use : BOOLEAN, node : Names \cup {NULL},
                          position : 0 .. RAMFS_MAX_FILE_SIZE]
         /\ Entry(s).in_use /\ Entry(s).node \in Names /\ Entry(s).node \in there
         /\ \A t \in Streams : stream[t] # NULL /\ stream[t].fd = stream[s].fd => t = s
<1>1. stream[s] \in [fd : Fd, position : 0 .. RAMFS_MAX_FILE_SIZE]
  BY DEF StreamsInv, TypeOK
<1>2. QED
  BY <1>1 DEF StreamsInv, TypeOK, DescriptorsOwned, Entry

\* Looking a file up, or creating it, keeps files what they are.
LEMMA LookupTypes ==
  ASSUME StreamsInv, NEW f \in Names, NEW mode \in Modes, Found(f, mode) \/ Created(f, mode)
  PROVE  /\ there' \subseteq Names /\ f \in there' /\ there \subseteq there'
         /\ file_size' \in [Names -> 0 .. RAMFS_MAX_FILE_SIZE]
         /\ data' \in [Names -> [Place -> Bytes]]
<1>1. CASE Found(f, mode)
  BY <1>1 DEF Found, StreamsInv, TypeOK
<1>2. CASE Created(f, mode)
  <2>1. Zero \in Bytes
    BY StdioAssumption DEF Zero
  <2>2. 0 \in 0 .. RAMFS_MAX_FILE_SIZE
    BY StdioAssumption
  <2>3. [p \in Place |-> Zero] \in [Place -> Bytes]
    BY <2>1
  <2>4. file_size' \in [Names -> 0 .. RAMFS_MAX_FILE_SIZE]
    BY <1>2, <2>2 DEF Created, StreamsInv, TypeOK
  <2>5. data' \in [Names -> [Place -> Bytes]]
    BY <1>2, <2>3 DEF Created, StreamsInv, TypeOK
  <2>6. QED
    BY <1>2, <2>4, <2>5 DEF Created, StreamsInv, TypeOK
<1>3. QED
  BY <1>1, <1>2

\* A new FILE and the descriptor that was free.
LEMMA OpenPreserves ==
  ASSUME StreamsInv, NEW f \in Names, NEW mode \in Modes, NEW s \in Streams, fopen(f, mode, s)
  PROVE  StreamsInv'
<1> DEFINE position == IF mode = "a" THEN node_size[f] ELSE 0
<1>1. PICK fd \in Fd :
        /\ ~file_table[fd].in_use
        /\ file_table' = [file_table EXCEPT ![fd] = [in_use |-> TRUE, node |-> f, position |-> position]]
        /\ stream' = [stream EXCEPT ![s] = [fd |-> fd, position |-> position]]
  BY DEF fopen, Opened, FreeFds
<1>2. position \in 0 .. RAMFS_MAX_FILE_SIZE
  BY StdioAssumption DEF StreamsInv, TypeOK
<1>3. there' \subseteq Names /\ f \in there' /\ there \subseteq there'
  BY LookupTypes DEF fopen
<1>4. node_size' \in [Names -> 0 .. RAMFS_MAX_FILE_SIZE]
  BY StdioAssumption DEF fopen, Opened, Truncated, StreamsInv, TypeOK
<1>5. /\ file_size' \in [Names -> 0 .. RAMFS_MAX_FILE_SIZE]
      /\ data' \in [Names -> [Place -> Bytes]]
  BY LookupTypes DEF fopen
<1> DEFINE new == [fd |-> fd, position |-> position]
<1>6. /\ new \in [fd : Fd, position : 0 .. RAMFS_MAX_FILE_SIZE] /\ new # NULL
      /\ new.fd = fd /\ new.position = position
  BY <1>2, StdioAssumption
<1>7. stream' = [stream EXCEPT ![s] = new]
  BY <1>1
<1> HIDE DEF position, new
<1>8. TypeOK'
  BY <1>1, <1>2, <1>3, <1>4, <1>5, <1>6, <1>7 DEF StreamsInv, TypeOK
<1>9. \A t \in Streams : t # s => stream'[t] = stream[t]
  BY <1>7 DEF StreamsInv, TypeOK
<1>10. stream'[s] = new
  BY <1>7 DEF StreamsInv, TypeOK
<1>11. \A t \in Streams : stream[t] # NULL =>
         /\ stream[t].fd \in Fd /\ stream[t].fd # fd
         /\ file_table'[stream[t].fd] = file_table[stream[t].fd]
  BY <1>1, OpenStream DEF Entry, StreamsInv, TypeOK
<1>12. file_table'[fd] = [in_use |-> TRUE, node |-> f, position |-> position]
  BY <1>1 DEF StreamsInv, TypeOK
<1>13. \A t \in Streams : stream'[t] # NULL =>
         /\ file_table'[stream'[t].fd].in_use
         /\ file_table'[stream'[t].fd].node \in there'
         /\ file_table'[stream'[t].fd].position = stream'[t].position
  <2>1. TAKE t \in Streams
  <2>2. HAVE stream'[t] # NULL
  <2>3. CASE t = s
    BY <1>3, <1>6, <1>10, <1>12, <2>3
  <2>4. CASE t # s
    BY <1>3, <1>9, <1>11, <2>2, <2>4 DEF StreamsInv, DescriptorsOwned, Entry
  <2>5. QED
    BY <2>3, <2>4
<1>14. \A t, u \in Streams :
         stream'[t] # NULL /\ stream'[u] # NULL /\ stream'[u].fd = stream'[t].fd => u = t
  BY <1>6, <1>9, <1>10, <1>11 DEF StreamsInv, DescriptorsOwned
<1>15. \A d \in Fd : file_table'[d].in_use =>
         \E t \in Streams : stream'[t] # NULL /\ stream'[t].fd = d
  <2>1. TAKE d \in Fd
  <2>2. HAVE file_table'[d].in_use
  <2>3. CASE d = fd
    BY <1>6, <1>10, <2>3
  <2>4. CASE d # fd
    <3>1. file_table[d].in_use
      BY <1>1, <2>2, <2>4 DEF StreamsInv, TypeOK
    <3>2. PICK t \in Streams : stream[t] # NULL /\ stream[t].fd = d
      BY <3>1 DEF StreamsInv, DescriptorsOwned
    <3>3. t # s
      BY <3>2 DEF fopen
    <3>4. QED
      BY <1>9, <3>2, <3>3
  <2>5. QED
    BY <2>3, <2>4
<1>16. QED
  BY <1>8, <1>13, <1>14, <1>15 DEF StreamsInv, DescriptorsOwned, Entry

\* A file may be there afterwards all the same.
LEMMA OpenFailsPreserves ==
  ASSUME StreamsInv, NEW f \in Names, NEW mode \in Modes, fopen_fails(f, mode)
  PROVE  StreamsInv'
<1>1. UNCHANGED <<file_table, stream, node_size>>
  BY DEF fopen_fails, files
<1>2. /\ there' \subseteq Names /\ there \subseteq there'
      /\ file_size' \in [Names -> 0 .. RAMFS_MAX_FILE_SIZE]
      /\ data' \in [Names -> [Place -> Bytes]]
  <2>1. CASE UNCHANGED files
    BY <2>1 DEF files, StreamsInv, TypeOK
  <2>2. CASE Found(f, mode) \/ Created(f, mode)
    BY <2>2, LookupTypes
  <2>3. QED
    BY <2>1, <2>2 DEF fopen_fails
<1>3. TypeOK'
  BY <1>1, <1>2 DEF StreamsInv, TypeOK
<1>4. DescriptorsOwned'
  BY <1>1, <1>2 DEF StreamsInv, DescriptorsOwned, Entry
<1>5. QED
  BY <1>3, <1>4 DEF StreamsInv

\* A FILE goes, and the descriptor it owned is free.
LEMMA ClosePreserves ==
  ASSUME StreamsInv, NEW s \in Streams, fclose(s)
  PROVE  StreamsInv'
<1>1. stream[s] # NULL /\ UNCHANGED <<there, node_size, file_size, data>>
  BY DEF fclose, files
<1> DEFINE fd == stream[s].fd
<1>2. fd \in Fd /\ \A t \in Streams : stream[t] # NULL /\ stream[t].fd = fd => t = s
  BY <1>1, OpenStream
<1>3. /\ file_table' \in [Fd -> [in_use : BOOLEAN, node : Names \cup {NULL},
                                  position : 0 .. RAMFS_MAX_FILE_SIZE]]
      /\ \A d \in Fd : d # fd => file_table'[d] = file_table[d]
      /\ ~file_table'[fd].in_use
  BY <1>2 DEF fclose, StreamsInv, TypeOK
<1>4. stream' = [stream EXCEPT ![s] = NULL]
  BY DEF fclose
<1> HIDE DEF fd
<1>5. TypeOK'
  BY <1>1, <1>3, <1>4 DEF StreamsInv, TypeOK
<1>6. stream'[s] = NULL /\ \A t \in Streams : t # s => stream'[t] = stream[t]
  BY <1>4 DEF StreamsInv, TypeOK
<1>7. \A t \in Streams : t # s /\ stream[t] # NULL => stream[t].fd \in Fd /\ stream[t].fd # fd
  BY <1>2, OpenStream
<1>8. \A d \in Fd : file_table'[d].in_use =>
        \E t \in Streams : stream'[t] # NULL /\ stream'[t].fd = d
  <2>1. TAKE d \in Fd
  <2>2. HAVE file_table'[d].in_use
  <2>3. d # fd /\ file_table[d].in_use
    BY <1>3, <2>2
  <2>4. PICK t \in Streams : stream[t] # NULL /\ stream[t].fd = d
    BY <2>3 DEF StreamsInv, DescriptorsOwned
  <2>5. t # s
    BY <2>3, <2>4 DEF fd
  <2>6. QED
    BY <1>6, <2>4, <2>5
<1>9. \A t \in Streams : stream'[t] # NULL =>
        /\ file_table'[stream'[t].fd].in_use
        /\ file_table'[stream'[t].fd].node \in there'
        /\ file_table'[stream'[t].fd].position = stream'[t].position
  BY <1>1, <1>3, <1>6, <1>7 DEF StreamsInv, DescriptorsOwned, Entry
<1>10. \A t, u \in Streams :
         stream'[t] # NULL /\ stream'[u] # NULL /\ stream'[u].fd = stream'[t].fd => u = t
  BY <1>6 DEF StreamsInv, DescriptorsOwned
<1>11. QED
  BY <1>5, <1>8, <1>9, <1>10 DEF StreamsInv, DescriptorsOwned, Entry

\* A move takes the FILE's place and the descriptor's along.
LEMMA MovePreserves ==
  ASSUME StreamsInv, NEW s \in Streams, stream[s] # NULL,
         NEW to \in 0 .. RAMFS_MAX_FILE_SIZE, Moved(s, to), UNCHANGED there,
         node_size' \in [Names -> 0 .. RAMFS_MAX_FILE_SIZE],
         file_size' \in [Names -> 0 .. RAMFS_MAX_FILE_SIZE],
         data' \in [Names -> [Place -> Bytes]]
  PROVE  StreamsInv'
<1> DEFINE fd == stream[s].fd
           new == [stream[s] EXCEPT !.position = to]
<1>1. fd \in Fd /\ \A t \in Streams : stream[t] # NULL /\ stream[t].fd = fd => t = s
  BY OpenStream
<1>2. /\ new \in [fd : Fd, position : 0 .. RAMFS_MAX_FILE_SIZE] /\ new # NULL
      /\ new.fd = fd /\ new.position = to
  BY OpenStream, StdioAssumption
<1>3. stream' = [stream EXCEPT ![s] = new]
  BY DEF Moved
<1>4. /\ file_table' \in [Fd -> [in_use : BOOLEAN, node : Names \cup {NULL},
                                  position : 0 .. RAMFS_MAX_FILE_SIZE]]
      /\ \A d \in Fd : d # fd => file_table'[d] = file_table[d]
      /\ file_table'[fd].in_use = file_table[fd].in_use
      /\ file_table'[fd].node = file_table[fd].node
      /\ file_table'[fd].position = to
  BY <1>1 DEF Moved, StreamsInv, TypeOK
<1> HIDE DEF fd, new
<1>5. TypeOK'
  BY <1>2, <1>3, <1>4 DEF StreamsInv, TypeOK
<1>6. stream'[s] = new /\ \A t \in Streams : t # s => stream'[t] = stream[t]
  BY <1>3 DEF StreamsInv, TypeOK
<1>7. \A t \in Streams : t # s /\ stream[t] # NULL => stream[t].fd \in Fd /\ stream[t].fd # fd
  BY <1>1, OpenStream
<1>8. file_table[fd].in_use /\ file_table[fd].node \in there
  BY OpenStream DEF Entry, fd
<1>9. \A t \in Streams : stream'[t] # NULL =>
        /\ file_table'[stream'[t].fd].in_use
        /\ file_table'[stream'[t].fd].node \in there'
        /\ file_table'[stream'[t].fd].position = stream'[t].position
  <2>1. TAKE t \in Streams
  <2>2. HAVE stream'[t] # NULL
  <2>3. CASE t = s
    BY <1>2, <1>4, <1>6, <1>8, <2>3
  <2>4. CASE t # s
    BY <1>4, <1>6, <1>7, <2>2, <2>4 DEF StreamsInv, DescriptorsOwned, Entry
  <2>5. QED
    BY <2>3, <2>4
<1>10. \A t, u \in Streams :
         stream'[t] # NULL /\ stream'[u] # NULL /\ stream'[u].fd = stream'[t].fd => u = t
  BY <1>2, <1>6, <1>7 DEF StreamsInv, DescriptorsOwned
<1>11. \A d \in Fd : file_table'[d].in_use =>
         \E t \in Streams : stream'[t] # NULL /\ stream'[t].fd = d
  <2>1. TAKE d \in Fd
  <2>2. HAVE file_table'[d].in_use
  <2>3. CASE d = fd
    BY <1>2, <1>6, <2>3
  <2>4. CASE d # fd
    <3>1. PICK t \in Streams : stream[t] # NULL /\ stream[t].fd = d
      BY <1>4, <2>2, <2>4 DEF StreamsInv, DescriptorsOwned
    <3>2. t # s
      BY <2>4, <3>1 DEF fd
    <3>3. QED
      BY <1>6, <3>1, <3>2
  <2>5. QED
    BY <2>3, <2>4
<1>12. QED
  BY <1>5, <1>9, <1>10, <1>11 DEF StreamsInv, DescriptorsOwned, Entry

\* A call that changes nothing of files and streams.
LEMMA NothingPreserves ==
  ASSUME StreamsInv, UNCHANGED <<files, file_table, stream>>
  PROVE  StreamsInv'
<1>1. TypeOK'
  BY DEF StreamsInv, TypeOK, files
<1>2. DescriptorsOwned'
  BY DEF StreamsInv, DescriptorsOwned, Entry, files
<1>3. QED
  BY <1>1, <1>2 DEF StreamsInv

\* The place a seek goes to lies in the file.
LEMMA SeekPreserves ==
  ASSUME StreamsInv, NEW s \in Streams, NEW offset \in Offsets,
         NEW whence \in {"set", "cur", "end"}, fseek(s, offset, whence)
  PROVE  StreamsInv'
<1> DEFINE to == SeekTarget(s, offset, whence)
<1>1. stream[s] # NULL /\ UNCHANGED files
  BY DEF fseek
<1>2. CASE CanSeek(s, to)
  <2>1. node_size[Entry(s).node] \in 0 .. RAMFS_MAX_FILE_SIZE
        /\ Entry(s).position \in 0 .. RAMFS_MAX_FILE_SIZE /\ offset \in Int
    BY <1>1, OpenStream, StdioAssumption DEF StreamsInv, TypeOK
  <2>2. to \in Int
    BY <2>1, StdioAssumption DEF SeekTarget
  <2>3. to \in 0 .. RAMFS_MAX_FILE_SIZE
    BY <1>2, <2>1, <2>2, StdioAssumption DEF CanSeek
  <2>4. Moved(s, to)
    BY <1>2 DEF fseek
  <2>5. QED
    BY <1>1, <2>3, <2>4, MovePreserves DEF files, StreamsInv, TypeOK
<1>3. CASE ~CanSeek(s, to)
  BY <1>1, <1>3, NothingPreserves DEF fseek
<1>4. QED
  BY <1>2, <1>3

\* A read ends at the end of the file at the latest.
LEMMA ReadPreserves ==
  ASSUME StreamsInv, NEW s \in Streams, NEW count \in Counts, fread(s, count)
  PROVE  StreamsInv'
<1> DEFINE f == Entry(s).node
           from == Entry(s).position
           bytes == ReadLen(f, from, count)
<1>1. stream[s] # NULL /\ UNCHANGED files /\ Moved(s, from + bytes)
  BY DEF fread
<1>2. f \in Names /\ from \in 0 .. RAMFS_MAX_FILE_SIZE
  BY <1>1, OpenStream
<1>3. file_size[f] \in 0 .. RAMFS_MAX_FILE_SIZE /\ count \in Nat
  BY <1>2, StdioAssumption DEF StreamsInv, TypeOK
<1>4. from + bytes \in 0 .. RAMFS_MAX_FILE_SIZE
  <2> HIDE DEF f, from
  <2>1. CASE from >= file_size[f]
    BY <1>2, <2>1, StdioAssumption DEF ReadLen
  <2>2. CASE ~(from >= file_size[f])
    <3>1. bytes = Min({count, file_size[f] - from})
      BY <2>2 DEF ReadLen
    <3> DEFINE rest == file_size[f] - from
    <3>2. count \in Int /\ count >= 0 /\ rest \in Int /\ rest > 0
      BY <1>2, <1>3, <2>2, StdioAssumption
    <3> HIDE DEF bytes
    <3>3. bytes \in Int /\ bytes =< rest /\ bytes >= 0
      <4> HIDE DEF rest
      <4>1. bytes = Min({count, rest})
        BY <3>1 DEF rest
      <4>2. /\ Min({count, rest}) \in Int
            /\ Min({count, rest}) =< count /\ Min({count, rest}) =< rest
            /\ Min({count, rest}) = count \/ Min({count, rest}) = rest
        BY <3>2, SmallerOf, Zenon
      <4>3. QED
        BY <3>2, <4>1, <4>2
    <3>4. QED
      BY <1>2, <1>3, <3>3, StdioAssumption
  <2>3. QED
    BY <2>1, <2>2
<1>5. QED
  BY <1>1, <1>4, MovePreserves DEF files, StreamsInv, TypeOK

\* A write ends at the end of the room at the latest.
LEMMA WritePreserves ==
  ASSUME StreamsInv, NEW s \in Streams, NEW text \in Texts, fwrite(s, text)
  PROVE  StreamsInv'
<1> DEFINE f == Entry(s).node
           from == Entry(s).position
           bytes == WriteLen(f, from, Len(text))
<1>1. stream[s] # NULL /\ UNCHANGED there /\ Moved(s, from + bytes)
  BY DEF fwrite
<1>2. f \in Names /\ from \in 0 .. RAMFS_MAX_FILE_SIZE
  BY <1>1, OpenStream
<1>3. /\ file_size[f] \in 0 .. RAMFS_MAX_FILE_SIZE /\ node_size[f] \in 0 .. RAMFS_MAX_FILE_SIZE
      /\ data[f] \in [Place -> Bytes] /\ text \in Seq(Bytes) /\ Len(text) \in Nat
  BY <1>2, StdioAssumption DEF StreamsInv, TypeOK
<1>4. /\ from + bytes \in 0 .. RAMFS_MAX_FILE_SIZE
      /\ bytes \in Nat /\ bytes =< Len(text)
  <2> HIDE DEF f, from
  <2>1. CASE from >= RAMFS_MAX_FILE_SIZE
    BY <1>2, <1>3, <2>1, StdioAssumption DEF WriteLen
  <2>2. CASE ~(from >= RAMFS_MAX_FILE_SIZE)
    <3>1. bytes = Min({Len(text), RAMFS_MAX_FILE_SIZE - from})
      BY <2>2 DEF WriteLen
    <3> DEFINE rest == RAMFS_MAX_FILE_SIZE - from
    <3>2. Len(text) \in Int /\ Len(text) >= 0 /\ rest \in Int /\ rest > 0
      BY <1>2, <1>3, <2>2, StdioAssumption
    <3> HIDE DEF bytes
    <3>3. bytes \in Int /\ bytes =< rest /\ bytes =< Len(text) /\ bytes >= 0
      <4> HIDE DEF rest
      <4>1. bytes = Min({Len(text), rest})
        BY <3>1 DEF rest
      <4>2. /\ Min({Len(text), rest}) \in Int
            /\ Min({Len(text), rest}) =< Len(text) /\ Min({Len(text), rest}) =< rest
            /\ Min({Len(text), rest}) = Len(text) \/ Min({Len(text), rest}) = rest
        BY <3>2, SmallerOf, Zenon
      <4>3. QED
        BY <3>2, <4>1, <4>2
    <3>4. QED
      BY <1>2, <3>3, StdioAssumption
  <2>3. QED
    BY <2>1, <2>2
<1>5. /\ node_size' \in [Names -> 0 .. RAMFS_MAX_FILE_SIZE]
      /\ file_size' \in [Names -> 0 .. RAMFS_MAX_FILE_SIZE]
      /\ data' \in [Names -> [Place -> Bytes]]
  <2>1. CASE from >= RAMFS_MAX_FILE_SIZE
    <3>1. /\ UNCHANGED <<data, file_size>>
          /\ node_size' = [node_size EXCEPT ![f] = Max({node_size[f], from})]
      BY <2>1 DEF fwrite
    <3>2. Max({node_size[f], from}) \in 0 .. RAMFS_MAX_FILE_SIZE
      <4> HIDE DEF f, from
      <4>1. QED
        BY <1>2, <1>3, LargerOf
    <3>3. QED
      BY <3>1, <3>2 DEF StreamsInv, TypeOK
  <2>2. CASE ~(from >= RAMFS_MAX_FILE_SIZE)
    <3> DEFINE written == [p \in Place |-> IF from < p /\ p <= from + bytes
                                           THEN text[p - from] ELSE data[f][p]]
               size == Max({file_size[f], from + bytes})
    <3>1. /\ data' = [data EXCEPT ![f] = written]
          /\ file_size' = [file_size EXCEPT ![f] = size]
          /\ node_size' = [node_size EXCEPT ![f] = file_size'[f]]
      BY <2>2 DEF fwrite
    <3>2. size \in 0 .. RAMFS_MAX_FILE_SIZE
      <4> HIDE DEF f, from, bytes
      <4>1. QED
        BY <1>3, <1>4, LargerOf
    <3>3. written \in [Place -> Bytes]
      <4> HIDE DEF f, from, bytes
      <4>1. ASSUME NEW p \in Place, from < p, p <= from + bytes
            PROVE  text[p - from] \in Bytes
        <5>1. p - from \in 1 .. Len(text)
          BY <1>2, <1>3, <1>4, <4>1 DEF Place
        <5>2. QED
          BY <1>3, <5>1
      <4>2. QED
        BY <1>3, <4>1
    <3> HIDE DEF written, size
    <3>4. data' \in [Names -> [Place -> Bytes]]
      BY <3>1, <3>3 DEF StreamsInv, TypeOK
    <3>5. file_size' \in [Names -> 0 .. RAMFS_MAX_FILE_SIZE]
      BY <3>1, <3>2 DEF StreamsInv, TypeOK
    <3>6. file_size'[f] \in 0 .. RAMFS_MAX_FILE_SIZE
      BY <1>2, <3>5
    <3>7. node_size' \in [Names -> 0 .. RAMFS_MAX_FILE_SIZE]
      BY <3>1, <3>6 DEF StreamsInv, TypeOK
    <3>8. QED
      BY <3>4, <3>5, <3>7
  <2>3. QED
    BY <2>1, <2>2
<1> HIDE DEF f, from, bytes
<1>6. QED
  BY <1>1, <1>4, <1>5, MovePreserves

LEMMA StreamsStep == StreamsInv /\ [Next]_vars => StreamsInv'
<1> SUFFICES ASSUME StreamsInv, [Next]_vars PROVE StreamsInv'
  OBVIOUS
<1>1. ASSUME NEW f \in Names, NEW mode \in Modes, fopen_fails(f, mode) PROVE StreamsInv'
  BY <1>1, OpenFailsPreserves
<1>2. ASSUME NEW f \in Names, NEW mode \in Modes, NEW s \in Streams, fopen(f, mode, s)
      PROVE  StreamsInv'
  BY <1>2, OpenPreserves
<1>3. ASSUME NEW s \in Streams, fclose(s) PROVE StreamsInv'
  BY <1>3, ClosePreserves
<1>4. ASSUME NEW s \in Streams, NEW offset \in Offsets, NEW whence \in {"set", "cur", "end"},
             fseek(s, offset, whence)
      PROVE  StreamsInv'
  BY <1>4, SeekPreserves
<1>5. ASSUME NEW s \in Streams, NEW count \in Counts, fread(s, count) PROVE StreamsInv'
  BY <1>5, ReadPreserves
<1>6. ASSUME NEW s \in Streams, NEW text \in Texts, fwrite(s, text) PROVE StreamsInv'
  BY <1>6, WritePreserves
<1>7. CASE UNCHANGED vars
  BY <1>7, NothingPreserves DEF vars
<1>8. QED
  BY <1>1, <1>2, <1>3, <1>4, <1>5, <1>6, <1>7 DEF Next

\* Every size, position and byte stays in the room of a file, whatever is
\* written, read and sought (ramfs.cpp:18-46, stdio.cpp:79-122).
THEOREM StreamsTyped == Spec => []TypeOK
<1>1. StreamsInv => TypeOK
  BY DEF StreamsInv
<1>2. QED
  BY <1>1, StreamsInit, StreamsStep, PTL DEF Spec

\* An open FILE has a descriptor of its own, on a file that is there, and no
\* descriptor is lost, for any number of clients and calls (stdio.cpp:43, 70).
THEOREM DescriptorsStayOwned == Spec => []DescriptorsOwned
<1>1. StreamsInv => DescriptorsOwned
  BY DEF StreamsInv
<1>2. QED
  BY <1>1, StreamsInit, StreamsStep, PTL DEF Spec
-----------------------------------------------------------------------------
(* Stdio implements FileStore when no client opens to write ("w").         *)

\* The two sizes of a file are one, and no FILE lies beyond it.
SizesAgree ==
  \A f \in Names : node_size[f] = file_size[f] /\ (f \notin there => file_size[f] = 0)
PlacesInFile ==
  \A s \in Streams : stream[s] # NULL => Entry(s).position =< file_size[Entry(s).node]
FilesInv == StreamsInv /\ SizesAgree /\ PlacesInFile

LEMMA FilesInit == Init => FilesInv
<1>1. Init => SizesAgree /\ PlacesInFile
  BY DEF Init, SizesAgree, PlacesInFile
<1>2. QED
  BY <1>1, StreamsInit DEF FilesInv

\* What a file holds: the first bytes of its room.
LEMMA FirstBytes ==
  ASSUME NEW room \in [Place -> Bytes], NEW n \in 0 .. RAMFS_MAX_FILE_SIZE
  PROVE  /\ SubSeq(room, 1, n) \in Seq(Bytes)
         /\ Len(SubSeq(room, 1, n)) = n
         /\ \A i \in 1 .. n : SubSeq(room, 1, n)[i] = room[i]
<1>1. n \in Int /\ 0 =< n /\ \A i \in 1 .. n : room[i] \in Bytes
  BY StdioAssumption DEF Place
<1>2. QED
  BY <1>1

\* What the abstract state holds of a file and of a stream.
LEMMA ContentsOf ==
  ASSUME TypeOK, NEW f \in there
  PROVE  /\ Contents[f] = SubSeq(data[f], 1, file_size[f])
         /\ Contents[f] \in Seq(Bytes) /\ Contents[f] # NULL
         /\ Len(Contents[f]) = file_size[f]
         /\ \A i \in 1 .. file_size[f] : Contents[f][i] = data[f][i]
<1>1. f \in Names /\ file_size[f] \in 0 .. RAMFS_MAX_FILE_SIZE /\ data[f] \in [Place -> Bytes]
  BY DEF TypeOK
<1>2. Contents[f] = SubSeq(data[f], 1, file_size[f])
  BY <1>1 DEF Contents
<1> DEFINE room == data[f]
           n == file_size[f]
<1>3. room \in [Place -> Bytes] /\ n \in 0 .. RAMFS_MAX_FILE_SIZE
  BY <1>1
<1> HIDE DEF room, n
<1>4. /\ SubSeq(room, 1, n) \in Seq(Bytes)
      /\ Len(SubSeq(room, 1, n)) = n
      /\ \A i \in 1 .. n : SubSeq(room, 1, n)[i] = room[i]
  BY <1>3, FirstBytes
<1>5. QED
  BY <1>2, <1>4, StdioAssumption DEF room, n

LEMMA NoContents ==
  ASSUME NEW f \in Names, f \notin there
  PROVE  Contents[f] = NULL
BY DEF Contents

LEMMA HandleOf ==
  ASSUME StreamsInv, NEW s \in Streams, stream[s] # NULL
  PROVE  /\ Handles[s] = [file |-> Entry(s).node, at |-> Entry(s).position]
         /\ Handles[s] # NULL
<1>1. Handles[s] = [file |-> Entry(s).node, at |-> Entry(s).position]
  BY DEF Handles
<1>2. Handles[s] \in [file : Names, at : 0 .. RAMFS_MAX_FILE_SIZE]
  BY <1>1, OpenStream
<1>3. QED
  BY <1>1, <1>2, StdioAssumption

LEMMA NoHandle ==
  ASSUME NEW s \in Streams, stream[s] = NULL
  PROVE  Handles[s] = NULL
BY DEF Handles

\* A file that is made is empty, and looking one up changes nothing.
LEMMA LookupMaps ==
  ASSUME FilesInv, NEW f \in Names, NEW mode \in Modes, Found(f, mode) \/ Created(f, mode),
         UNCHANGED node_size
  PROVE  /\ SizesAgree' /\ \A g \in there : file_size'[g] = file_size[g]
         /\ \/ f \in there /\ UNCHANGED Contents
            \/ f \notin there /\ mode \in {"a", "w"} /\ Contents' = [Contents EXCEPT ![f] = <<>>]
<1>1. CASE Found(f, mode)
  BY <1>1 DEF Found, FilesInv, SizesAgree, Contents
<1>2. CASE Created(f, mode)
  <2>1. /\ f \notin there /\ mode \in {"a", "w"} /\ there' = there \cup {f}
        /\ file_size' = [file_size EXCEPT ![f] = 0]
        /\ data' = [data EXCEPT ![f] = [p \in Place |-> Zero]]
    BY <1>2 DEF Created
  <2>2. /\ file_size'[f] = 0 /\ \A g \in Names : g # f => file_size'[g] = file_size[g]
        /\ \A g \in Names : g # f => data'[g] = data[g]
    BY <2>1 DEF FilesInv, StreamsInv, TypeOK
  <2>3. SizesAgree'
    BY <2>1, <2>2 DEF FilesInv, SizesAgree
  <2>4. Contents'[f] = <<>>
    <3>1. Contents'[f] = SubSeq(data'[f], 1, 0)
      BY <2>1, <2>2 DEF Contents
    <3>2. QED
      BY <3>1, SubSeqEmpty
  <2>5. \A g \in Names : g # f => Contents'[g] = Contents[g]
    BY <2>1, <2>2 DEF Contents
  <2>6. Contents' = [Contents EXCEPT ![f] = <<>>]
    BY <2>4, <2>5 DEF Contents
  <2>7. QED
    BY <2>1, <2>2, <2>3, <2>6 DEF FilesInv, StreamsInv, TypeOK
<1>3. QED
  BY <1>1, <1>2

LEMMA OpenMaps ==
  ASSUME FilesInv, NEW f \in Names, NEW mode \in Modes, mode # "w", NEW s \in Streams,
         fopen(f, mode, s)
  PROVE  FilesInv' /\ Abstract!Open(f, mode, s)
<1> DEFINE position == IF mode = "a" THEN node_size[f] ELSE 0
<1>1. PICK fd \in Fd :
        /\ ~file_table[fd].in_use
        /\ file_table' = [file_table EXCEPT ![fd] = [in_use |-> TRUE, node |-> f, position |-> position]]
        /\ stream' = [stream EXCEPT ![s] = [fd |-> fd, position |-> position]]
        /\ node_size' = [node_size EXCEPT ![f] = IF mode = "w" THEN 0 ELSE @]
  BY DEF fopen, Opened, FreeFds, Truncated
<1>2. stream[s] = NULL /\ (Found(f, mode) \/ Created(f, mode))
  BY DEF fopen
<1>3. StreamsInv' /\ StreamsInv
  BY OpenPreserves DEF FilesInv
<1>4. UNCHANGED node_size
  BY <1>1, <1>3 DEF StreamsInv, TypeOK
<1>5. /\ SizesAgree' /\ \A g \in there : file_size'[g] = file_size[g]
      /\ \/ f \in there /\ UNCHANGED Contents
         \/ f \notin there /\ mode \in {"a", "w"} /\ Contents' = [Contents EXCEPT ![f] = <<>>]
  BY <1>2, <1>4, LookupMaps
<1> DEFINE new == [fd |-> fd, position |-> position]
<1>6. new # NULL /\ new.fd = fd
  <2>1. position \in 0 .. RAMFS_MAX_FILE_SIZE
    BY <1>3, StdioAssumption DEF StreamsInv, TypeOK
  <2>2. new \in [fd : Fd, position : 0 .. RAMFS_MAX_FILE_SIZE]
    BY <2>1
  <2>3. QED
    BY <2>2, StdioAssumption
<1>7. stream'[s] = new /\ \A t \in Streams : t # s => stream'[t] = stream[t]
  BY <1>1, <1>3 DEF StreamsInv, TypeOK
<1>8. file_table'[fd].node = f /\ file_table'[fd].position = position
  BY <1>1, <1>3 DEF StreamsInv, TypeOK
<1> HIDE DEF new
<1>9. \A t \in Streams : stream[t] # NULL =>
         /\ stream[t].fd \in Fd /\ stream[t].fd # fd
         /\ file_table'[stream[t].fd] = file_table[stream[t].fd]
  BY <1>1, <1>3, OpenStream DEF Entry, StreamsInv, TypeOK
<1>10. PlacesInFile'
  <2>1. SUFFICES ASSUME NEW t \in Streams, stream'[t] # NULL
                 PROVE  file_table'[stream'[t].fd].position
                          =< file_size'[file_table'[stream'[t].fd].node]
    BY DEF PlacesInFile, Entry
  <2>2. CASE t = s
    <3>1. node_size[f] = file_size'[f] /\ 0 =< file_size'[f]
      BY <1>3, <1>4, <1>5 DEF SizesAgree, StreamsInv, TypeOK
    <3>2. position =< file_size'[f]
      BY <3>1, <1>3, StdioAssumption DEF StreamsInv, TypeOK
    <3>3. QED
      BY <3>2, <2>2, <1>6, <1>7, <1>8
  <2>3. CASE t # s
    <3>1. stream[t] # NULL /\ stream'[t] = stream[t]
      BY <1>7, <2>1, <2>3
    <3>2. Entry(t).node \in there /\ Entry(t).position =< file_size[Entry(t).node]
      BY <3>1, OpenStream, <1>3 DEF FilesInv, PlacesInFile
    <3>3. QED
      BY <3>1, <3>2, <1>5, <1>9 DEF Entry
  <2>4. QED
    BY <2>2, <2>3
<1>11. Handles' = [Handles EXCEPT ![s] = [file |-> f, at |-> position]]
  <2>1. Handles'[s] = [file |-> f, at |-> position]
    BY <1>6, <1>7, <1>8 DEF Handles, Entry
  <2>2. \A t \in Streams : t # s => Handles'[t] = Handles[t]
    BY <1>7, <1>9 DEF Handles, Entry
  <2>3. QED
    BY <2>1, <2>2 DEF Handles
<1>12. mode = "a" => position = Len(Contents'[f])
  <2>1. f \in there' /\ TypeOK'
    BY <1>2, <1>3, LookupTypes DEF StreamsInv
  <2>2. /\ file_size'[f] \in 0 .. RAMFS_MAX_FILE_SIZE /\ data'[f] \in [Place -> Bytes]
        /\ Contents'[f] = SubSeq(data'[f], 1, file_size'[f])
    BY <2>1 DEF TypeOK, Contents
  <2>3. QED
    BY <2>2, <1>4, <1>5, FirstBytes DEF SizesAgree
<1>13. /\ ~Abstract!IsOpen(s)
       /\ f \in there <=> Abstract!Exists(f)
  <2>1. Handles[s] = NULL
    BY <1>2, NoHandle
  <2>2. f \in there => Contents[f] # NULL
    BY <1>3, ContentsOf DEF StreamsInv
  <2>3. f \notin there => Contents[f] = NULL
    BY NoContents
  <2>4. QED
    BY <2>1, <2>2, <2>3 DEF Abstract!IsOpen, Abstract!Exists
<1>14. Abstract!Returns(<<"fopen", f, mode>>, s, 0, <<>>)
  BY DEF fopen, Opened, Returns, Abstract!Returns
<1>15. Handles' = [Handles EXCEPT ![s] =
                     [file |-> f, at |-> IF mode = "a" THEN Len(Contents'[f]) ELSE 0]]
  BY <1>11, <1>12
<1>16. Abstract!Open(f, mode, s)
  BY <1>5, <1>13, <1>14, <1>15 DEF Abstract!Open
<1>17. QED
  BY <1>3, <1>5, <1>10, <1>16 DEF FilesInv

LEMMA OpenFailsMaps ==
  ASSUME FilesInv, NEW f \in Names, NEW mode \in Modes, fopen_fails(f, mode)
  PROVE  FilesInv' /\ Abstract!OpenFails(f, mode)
<1>1. UNCHANGED <<file_table, stream, node_size>> /\ StreamsInv /\ StreamsInv'
  BY OpenFailsPreserves DEF fopen_fails, files, FilesInv
<1>2. /\ SizesAgree' /\ \A g \in there : file_size'[g] = file_size[g]
      /\ \/ UNCHANGED Contents
         \/ f \notin there /\ mode \in {"a", "w"} /\ Contents' = [Contents EXCEPT ![f] = <<>>]
  <2>1. CASE UNCHANGED files
    BY <2>1 DEF files, FilesInv, SizesAgree, Contents
  <2>2. CASE Found(f, mode) \/ Created(f, mode)
    BY <1>1, <2>2, LookupMaps
  <2>3. QED
    BY <2>1, <2>2 DEF fopen_fails
<1>3. PlacesInFile'
  <2>1. \A s \in Streams : stream[s] # NULL =>
          Entry(s).node \in there /\ Entry(s).position =< file_size[Entry(s).node]
    BY <1>1, OpenStream DEF FilesInv, PlacesInFile
  <2>2. QED
    BY <1>1, <1>2, <2>1 DEF PlacesInFile, Entry
<1>4. UNCHANGED Handles
  BY <1>1 DEF Handles, Entry
<1>5. f \notin there => ~Abstract!Exists(f)
  BY NoContents DEF Abstract!Exists
<1>6. Abstract!Returns(<<"fopen", f, mode>>, NULL, 0, <<>>)
  BY DEF fopen_fails, Returns, Abstract!Returns
<1>7. QED
  BY <1>1, <1>2, <1>3, <1>4, <1>5, <1>6 DEF FilesInv, Abstract!OpenFails

LEMMA CloseMaps ==
  ASSUME FilesInv, NEW s \in Streams, fclose(s)
  PROVE  FilesInv' /\ Abstract!Close(s)
<1>1. /\ stream[s] # NULL /\ UNCHANGED <<there, node_size, file_size, data>>
      /\ StreamsInv /\ StreamsInv'
  BY ClosePreserves DEF fclose, files, FilesInv
<1> DEFINE fd == stream[s].fd
<1>2. fd \in Fd /\ \A t \in Streams : stream[t] # NULL /\ stream[t].fd = fd => t = s
  BY <1>1, OpenStream
<1>3. \A d \in Fd : d # fd => file_table'[d] = file_table[d]
  BY <1>1, <1>2 DEF fclose, StreamsInv, TypeOK
<1>4. stream'[s] = NULL /\ \A t \in Streams : t # s => stream'[t] = stream[t]
  BY <1>1 DEF fclose, StreamsInv, TypeOK
<1> HIDE DEF fd
<1>5. \A t \in Streams : t # s /\ stream[t] # NULL =>
        stream[t].fd \in Fd /\ file_table'[stream[t].fd] = file_table[stream[t].fd]
  BY <1>1, <1>2, <1>3, OpenStream
<1>6. SizesAgree' /\ UNCHANGED Contents
  BY <1>1 DEF FilesInv, SizesAgree, Contents
<1>7. PlacesInFile'
  BY <1>1, <1>4, <1>5 DEF FilesInv, PlacesInFile, Entry
<1>8. Handles' = [Handles EXCEPT ![s] = NULL]
  <2>1. Handles'[s] = NULL
    BY <1>4 DEF Handles
  <2>2. \A t \in Streams : t # s => Handles'[t] = Handles[t]
    BY <1>4, <1>5 DEF Handles, Entry
  <2>3. QED
    BY <2>1, <2>2 DEF Handles
<1>9. Abstract!IsOpen(s)
  BY <1>1, HandleOf DEF Abstract!IsOpen
<1>10. Abstract!Returns(<<"fclose", s>>, NULL, 0, <<>>)
  BY DEF fclose, Returns, Abstract!Returns
<1>11. QED
  BY <1>1, <1>6, <1>7, <1>8, <1>9, <1>10 DEF FilesInv, Abstract!Close

\* A FILE that moves within its file moves the abstract stream, and no other.
LEMMA MoveMaps ==
  ASSUME FilesInv, NEW s \in Streams, stream[s] # NULL, NEW to \in 0 .. RAMFS_MAX_FILE_SIZE,
         Moved(s, to), file_size' \in [Names -> 0 .. RAMFS_MAX_FILE_SIZE],
         \A g \in Names : file_size[g] =< file_size'[g],
         to =< file_size'[Entry(s).node]
  PROVE  PlacesInFile' /\ Handles' = [Handles EXCEPT ![s].at = to]
<1> DEFINE fd == stream[s].fd
           new == [stream[s] EXCEPT !.position = to]
<1>1. StreamsInv /\ fd \in Fd /\ \A t \in Streams : stream[t] # NULL /\ stream[t].fd = fd => t = s
  BY OpenStream DEF FilesInv
<1>2. /\ new \in [fd : Fd, position : 0 .. RAMFS_MAX_FILE_SIZE] /\ new # NULL
      /\ new.fd = fd
  BY <1>1, OpenStream, StdioAssumption
<1>3. stream' = [stream EXCEPT ![s] = new]
  BY DEF Moved
<1>4. /\ \A d \in Fd : d # fd => file_table'[d] = file_table[d]
      /\ file_table'[fd].node = file_table[fd].node
      /\ file_table'[fd].position = to
  BY <1>1 DEF Moved, StreamsInv, TypeOK
<1> HIDE DEF fd, new
<1>5. stream'[s] = new /\ \A t \in Streams : t # s => stream'[t] = stream[t]
  BY <1>1, <1>3 DEF StreamsInv, TypeOK
<1>6. \A t \in Streams : t # s /\ stream[t] # NULL =>
        stream[t].fd \in Fd /\ file_table'[stream[t].fd] = file_table[stream[t].fd]
  BY <1>1, <1>4, OpenStream
<1>7. PlacesInFile'
  <2>1. SUFFICES ASSUME NEW t \in Streams, stream'[t] # NULL
                 PROVE  file_table'[stream'[t].fd].position
                          =< file_size'[file_table'[stream'[t].fd].node]
    BY DEF PlacesInFile, Entry
  <2>2. CASE t = s
    BY <1>2, <1>4, <1>5, <2>2 DEF Entry, fd
  <2>3. CASE t # s
    <3>1. stream[t] # NULL /\ stream'[t] = stream[t]
      BY <1>5, <2>1, <2>3
    <3>2. /\ Entry(t).node \in Names /\ Entry(t).position \in 0 .. RAMFS_MAX_FILE_SIZE
          /\ Entry(t).position =< file_size[Entry(t).node]
      BY <1>1, <3>1, OpenStream DEF FilesInv, PlacesInFile
    <3>3. /\ file_size[Entry(t).node] \in 0 .. RAMFS_MAX_FILE_SIZE
          /\ file_size'[Entry(t).node] \in 0 .. RAMFS_MAX_FILE_SIZE
      BY <1>1, <3>2 DEF StreamsInv, TypeOK
    <3>4. Entry(t).position =< file_size'[Entry(t).node]
      BY <3>2, <3>3, StdioAssumption
    <3>5. QED
      BY <3>1, <3>4, <1>6, <2>3 DEF Entry
  <2>4. QED
    BY <2>2, <2>3
<1>8. Handles' = [Handles EXCEPT ![s].at = to]
  <2>1. Handles'[s] = [file |-> Entry(s).node, at |-> to]
    BY <1>2, <1>4, <1>5 DEF Handles, Entry, fd
  <2>2. Handles[s] = [file |-> Entry(s).node, at |-> Entry(s).position]
    BY <1>1, HandleOf
  <2>3. [Handles[s] EXCEPT !.at = to] = [file |-> Entry(s).node, at |-> to]
    BY <2>2
  <2>4. \A t \in Streams : t # s => Handles'[t] = Handles[t]
    BY <1>5, <1>6 DEF Handles, Entry
  <2>5. QED
    BY <2>1, <2>3, <2>4 DEF Handles
<1>9. QED
  BY <1>7, <1>8

\* A seek, within the file or refused.
LEMMA SeekMaps ==
  ASSUME FilesInv, NEW s \in Streams, NEW offset \in Offsets,
         NEW whence \in {"set", "cur", "end"}, fseek(s, offset, whence)
  PROVE  FilesInv' /\ Abstract!Seek(s, offset, whence)
<1> DEFINE to == SeekTarget(s, offset, whence)
           f == Entry(s).node
<1>1. /\ stream[s] # NULL /\ UNCHANGED <<there, node_size, file_size, data>>
      /\ StreamsInv /\ StreamsInv'
  BY SeekPreserves DEF fseek, files, FilesInv
<1>2. /\ f \in there /\ f \in Names /\ Entry(s).position \in 0 .. RAMFS_MAX_FILE_SIZE
      /\ node_size[f] = file_size[f] /\ file_size[f] \in 0 .. RAMFS_MAX_FILE_SIZE
      /\ offset \in Int
  BY <1>1, OpenStream, StdioAssumption DEF FilesInv, SizesAgree, StreamsInv, TypeOK
<1>3. /\ Handles[s].file = f /\ Handles[s].at = Entry(s).position
      /\ Len(Contents[f]) = file_size[f]
  <2>1. Handles[s] = [file |-> f, at |-> Entry(s).position]
    BY <1>1, HandleOf
  <2>2. Len(Contents[f]) = file_size[f]
    BY <1>1, <1>2, ContentsOf DEF StreamsInv
  <2>3. QED
    BY <2>1, <2>2
<1>4. Abstract!Target(s, offset, whence) = to
  BY <1>2, <1>3 DEF SeekTarget, Abstract!Target, Abstract!Size
<1>5. (0 <= to /\ to <= Abstract!Size(Handles[s].file)) <=> CanSeek(s, to)
  BY <1>2, <1>3 DEF CanSeek, Abstract!Size
<1>6. UNCHANGED Contents /\ SizesAgree'
  BY <1>1 DEF FilesInv, SizesAgree, Contents
<1>7. /\ Handles' = [Handles EXCEPT ![s].at = IF CanSeek(s, to) THEN to ELSE @]
      /\ PlacesInFile'
  <2>1. CASE CanSeek(s, to)
    <3>1. to \in Int
      BY <1>2, StdioAssumption DEF SeekTarget
    <3>2. to \in 0 .. RAMFS_MAX_FILE_SIZE /\ to =< file_size'[f]
      BY <1>1, <1>2, <2>1, <3>1, StdioAssumption DEF CanSeek
    <3>3. /\ Moved(s, to) /\ file_size' \in [Names -> 0 .. RAMFS_MAX_FILE_SIZE]
          /\ \A g \in Names : file_size[g] =< file_size'[g]
      BY <1>1, <2>1, StdioAssumption DEF fseek, StreamsInv, TypeOK
    <3> HIDE DEF to
    <3>4. PlacesInFile' /\ Handles' = [Handles EXCEPT ![s].at = to]
      BY <1>1, <3>2, <3>3, MoveMaps
    <3>5. QED
      BY <2>1, <3>4
  <2>2. CASE ~CanSeek(s, to)
    <3>1. UNCHANGED <<file_table, stream, there, file_size>>
      BY <1>1, <2>2 DEF fseek
    <3>2. PlacesInFile' /\ UNCHANGED Handles
      BY <3>1 DEF FilesInv, PlacesInFile, Entry, Handles
    <3>3. Handles = [Handles EXCEPT ![s].at = @]
      BY <1>1, HandleOf DEF Handles
    <3>4. QED
      BY <2>2, <3>2, <3>3
  <2>3. QED
    BY <2>1, <2>2
<1>8. Abstract!IsOpen(s)
  BY <1>1, HandleOf DEF Abstract!IsOpen
<1>9. Abstract!Returns(<<"fseek", s, offset, whence>>, NULL, IF CanSeek(s, to) THEN 0 ELSE -1, <<>>)
  BY DEF fseek, Returns, Abstract!Returns
<1> HIDE DEF to
<1>10. Abstract!Seek(s, offset, whence)
  BY <1>4, <1>5, <1>6, <1>7, <1>8, <1>9 DEF Abstract!Seek
<1>11. QED
  BY <1>1, <1>6, <1>7, <1>10 DEF FilesInv

\* What is read: the bytes from the place on.
LEMMA ReadBytes ==
  ASSUME NEW room \in [Place -> Bytes], NEW size \in 0 .. RAMFS_MAX_FILE_SIZE,
         NEW from \in 0 .. size, NEW n \in 0 .. size - from
  PROVE  SubSeq(SubSeq(room, 1, size), from + 1, from + n) = [i \in 1 .. n |-> room[from + i]]
<1> DEFINE old == SubSeq(room, 1, size)
           part == SubSeq(old, from + 1, from + n)
           bytes == [i \in 1 .. n |-> room[from + i]]
<1>1. /\ old \in Seq(Bytes) /\ Len(old) = size
      /\ \A i \in 1 .. size : old[i] = room[i] /\ room[i] \in Bytes
  BY FirstBytes, StdioAssumption DEF Place
<1>2. size \in Int /\ from \in Int /\ n \in Nat /\ 0 =< from /\ from + n =< size
  BY StdioAssumption
<1> HIDE DEF old
<1>3. \A i \in from + 1 .. from + n : old[i] \in Bytes
  BY <1>1, <1>2
<1>4. part \in Seq(Bytes) /\ Len(part) = n /\ \A i \in 1 .. n : part[i] = old[from + i]
  BY <1>2, <1>3
<1>5. bytes \in Seq(Bytes) /\ Len(bytes) = n /\ \A i \in 1 .. n : bytes[i] = room[from + i]
  BY <1>1, <1>2
<1>6. \A i \in 1 .. n : part[i] = bytes[i]
  BY <1>1, <1>2, <1>4, <1>5
<1> HIDE DEF part, bytes
<1>7. part = bytes
  BY <1>4, <1>5, <1>6, SeqEqual
<1>8. QED
  BY <1>7 DEF part, bytes, old

LEMMA ReadMaps ==
  ASSUME FilesInv, NEW s \in Streams, NEW count \in Counts, fread(s, count)
  PROVE  FilesInv' /\ Abstract!Read(s, count)
<1> DEFINE f == Entry(s).node
           from == Entry(s).position
           size == file_size[f]
           n == Abstract!Smaller(count, size - from)
<1>1. /\ stream[s] # NULL /\ UNCHANGED <<there, node_size, file_size, data>>
      /\ StreamsInv /\ StreamsInv'
  BY ReadPreserves DEF fread, files, FilesInv
<1>2. /\ f \in there /\ f \in Names /\ size \in 0 .. RAMFS_MAX_FILE_SIZE
      /\ data[f] \in [Place -> Bytes] /\ count \in Nat
      /\ from \in 0 .. RAMFS_MAX_FILE_SIZE /\ from =< size
  BY <1>1, OpenStream, StdioAssumption DEF FilesInv, PlacesInFile, StreamsInv, TypeOK
<1>3. n \in 0 .. size - from /\ from \in 0 .. size
  BY <1>2, StdioAssumption DEF Abstract!Smaller
<1>4. ReadLen(f, from, count) = n
  <2> HIDE DEF f, from
  <2>1. CASE from >= file_size[f]
    BY <1>2, <2>1, StdioAssumption DEF ReadLen, Abstract!Smaller
  <2>2. CASE ~(from >= file_size[f])
    <3> DEFINE rest == file_size[f] - from
    <3>1. ReadLen(f, from, count) = Min({count, rest})
      BY <2>2 DEF ReadLen
    <3>2. count \in Int /\ rest \in Int
      BY <1>2, StdioAssumption
    <3> HIDE DEF rest
    <3>3. /\ Min({count, rest}) \in Int
          /\ Min({count, rest}) =< count /\ Min({count, rest}) =< rest
          /\ Min({count, rest}) = count \/ Min({count, rest}) = rest
      BY <3>2, SmallerOf, Zenon
    <3>4. Min({count, rest}) = Abstract!Smaller(count, rest)
      BY <3>2, <3>3 DEF Abstract!Smaller
    <3>5. QED
      BY <3>1, <3>4 DEF rest
  <2>3. QED
    BY <2>1, <2>2
<1> HIDE DEF n
<1>5. /\ Handles[s].file = f /\ Handles[s].at = from
      /\ Abstract!Size(f) = size /\ Contents[f] = SubSeq(data[f], 1, size)
  <2>1. Handles[s] = [file |-> f, at |-> from]
    BY <1>1, HandleOf
  <2>2. Len(Contents[f]) = size /\ Contents[f] = SubSeq(data[f], 1, size)
    BY <1>1, <1>2, ContentsOf DEF StreamsInv
  <2>3. QED
    BY <2>1, <2>2 DEF Abstract!Size
<1>6. SubSeq(Contents[f], from + 1, from + n) = [i \in 1 .. n |-> data[f][from + i]]
  <2> DEFINE room == data[f]
  <2>1. room \in [Place -> Bytes]
    BY <1>2
  <2> HIDE DEF room, from, size
  <2>2. SubSeq(SubSeq(room, 1, size), from + 1, from + n) = [i \in 1 .. n |-> room[from + i]]
    BY <1>2, <1>3, <2>1, ReadBytes
  <2>3. QED
    BY <1>5, <2>2 DEF room
<1>7. Moved(s, from + n)
  BY <1>4 DEF fread
<1>8. PlacesInFile' /\ Handles' = [Handles EXCEPT ![s].at = from + n]
  <2>1. /\ file_size' \in [Names -> 0 .. RAMFS_MAX_FILE_SIZE]
        /\ \A g \in Names : file_size[g] =< file_size'[g]
    BY <1>1, StdioAssumption DEF StreamsInv, TypeOK
  <2>2. from + n \in 0 .. RAMFS_MAX_FILE_SIZE /\ from + n =< file_size'[f]
    BY <1>1, <1>2, <1>3, StdioAssumption
  <2>3. QED
    BY <1>1, <1>7, <2>1, <2>2, MoveMaps
<1>9. UNCHANGED Contents /\ SizesAgree'
  BY <1>1 DEF FilesInv, SizesAgree, Contents
<1>10. Abstract!IsOpen(s)
  BY <1>1, HandleOf DEF Abstract!IsOpen
<1>11. Abstract!Returns(<<"fread", s, count>>, NULL, n, SubSeq(Contents[f], from + 1, from + n))
  BY <1>4, <1>6 DEF fread, Returns, Abstract!Returns
<1>12. n = Abstract!Smaller(count, Abstract!Size(f) - from)
  BY <1>5 DEF n
<1> HIDE DEF f, from, size
<1>13. Abstract!Read(s, count)
  BY <1>5, <1>8, <1>9, <1>10, <1>11, <1>12 DEF Abstract!Read
<1>14. QED
  BY <1>1, <1>8, <1>9, <1>13 DEF FilesInv

\* text[1 .. n] is written at from, into a room that held size bytes and then
\* holds longer.
Overwrites(written, room, size, from, text, n, longer) ==
  /\ room \in [Place -> Bytes] /\ written \in [Place -> Bytes] /\ text \in Seq(Bytes)
  /\ size \in 0 .. RAMFS_MAX_FILE_SIZE /\ from \in 0 .. size /\ n \in 0 .. Len(text)
  /\ from + n =< RAMFS_MAX_FILE_SIZE
  /\ longer \in {size, from + n} /\ longer >= size /\ longer >= from + n
  /\ \A p \in Place : written[p] = IF from < p /\ p <= from + n THEN text[p - from] ELSE room[p]

\* The same in FileStore's terms.
Spliced(contents, from, text, n) ==
  SubSeq(contents, 1, from) \o SubSeq(text, 1, n) \o SubSeq(contents, from + n + 1, Len(contents))

\* What a write leaves: the bytes before the place, those written, those after.
LEMMA WriteBytes ==
  ASSUME NEW room, NEW size, NEW from, NEW text, NEW n, NEW longer, NEW written,
         Overwrites(written, room, size, from, text, n, longer)
  PROVE  SubSeq(written, 1, longer) = Spliced(SubSeq(room, 1, size), from, text, n)
<1> DEFINE old    == SubSeq(room, 1, size)
           before == SubSeq(old, 1, from)
           added  == SubSeq(text, 1, n)
           rest   == SubSeq(old, from + n + 1, size)
           left   == IF from + n < size THEN size - (from + n) ELSE 0
           new    == SubSeq(written, 1, longer)
<1>1. /\ size \in Int /\ from \in Int /\ n \in Int /\ longer \in Int /\ 0 =< from /\ from =< size
      /\ 0 =< n /\ n =< Len(text) /\ size =< RAMFS_MAX_FILE_SIZE /\ longer =< RAMFS_MAX_FILE_SIZE
      /\ RAMFS_MAX_FILE_SIZE \in Nat /\ Len(text) \in Nat /\ longer = from + n + left
      /\ left \in Nat
  BY StdioAssumption DEF Overwrites
<1>2. /\ old \in Seq(Bytes) /\ Len(old) = size
      /\ \A i \in 1 .. size : old[i] = room[i] /\ room[i] \in Bytes
  BY <1>1, FirstBytes DEF Overwrites, Place
<1>3. /\ new \in Seq(Bytes) /\ Len(new) = longer
      /\ \A i \in 1 .. longer : new[i] = written[i]
  <2>1. written \in [Place -> Bytes] /\ longer \in 0 .. RAMFS_MAX_FILE_SIZE
    BY <1>1 DEF Overwrites
  <2>2. QED
    BY <2>1, FirstBytes
<1> HIDE DEF old, new
<1>4. before \in Seq(Bytes) /\ Len(before) = from /\ \A i \in 1 .. from : before[i] = old[i]
  BY <1>1, <1>2
<1>5. added \in Seq(Bytes) /\ Len(added) = n /\ \A i \in 1 .. n : added[i] = text[i]
  BY <1>1 DEF Overwrites
<1>6. /\ rest \in Seq(Bytes) /\ Len(rest) = left
      /\ \A i \in 1 .. left : rest[i] = old[from + n + i]
  <2>1. \A i \in from + n + 1 .. size : old[i] \in Bytes
    BY <1>1, <1>2
  <2>2. QED
    BY <1>1, <2>1
<1> HIDE DEF before, added, rest, left
<1> DEFINE start == before \o added
           all  == start \o rest
<1>7. /\ start \in Seq(Bytes) /\ Len(start) = from + n
      /\ \A i \in 1 .. from + n : start[i] = IF i <= from THEN before[i] ELSE added[i - from]
  <2>1. /\ before \o added \in Seq(Bytes)
        /\ Len(before \o added) = Len(before) + Len(added)
        /\ \A i \in 1 .. Len(before) + Len(added) : (before \o added)[i] =
             IF i <= Len(before) THEN before[i] ELSE added[i - Len(before)]
    BY <1>4, <1>5, ConcatProperties, Zenon
  <2>2. QED
    BY <1>4, <1>5, <2>1
<1> HIDE DEF start
<1>8. /\ all \in Seq(Bytes) /\ Len(all) = longer
      /\ \A i \in 1 .. longer : all[i] = IF i <= from + n THEN start[i] ELSE rest[i - (from + n)]
  <2>1. /\ start \o rest \in Seq(Bytes)
        /\ Len(start \o rest) = Len(start) + Len(rest)
        /\ \A i \in 1 .. Len(start) + Len(rest) : (start \o rest)[i] =
             IF i <= Len(start) THEN start[i] ELSE rest[i - Len(start)]
    BY <1>6, <1>7, ConcatProperties, Zenon
  <2>2. QED
    BY <1>1, <1>6, <1>7, <2>1
<1> HIDE DEF all
<1>9. ASSUME NEW i \in 1 .. longer PROVE all[i] = new[i]
  <2>1. /\ i \in Place /\ new[i] = written[i]
        /\ written[i] = IF from < i /\ i <= from + n THEN text[i - from] ELSE room[i]
    BY <1>1, <1>3 DEF Overwrites, Place
  <2>2. CASE i <= from
    <3>1. all[i] = old[i]
      BY <1>1, <1>4, <1>7, <1>8, <2>2
    <3>2. QED
      BY <1>1, <1>2, <2>1, <2>2, <3>1
  <2>3. CASE from < i /\ i <= from + n
    <3>1. i - from \in 1 .. n /\ i \in 1 .. from + n
      BY <1>1, <2>3
    <3>2. all[i] = text[i - from]
      BY <1>1, <1>5, <1>7, <1>8, <2>3, <3>1
    <3>3. QED
      BY <2>1, <2>3, <3>2
  <2>4. CASE from + n < i
    <3>1. i - (from + n) \in 1 .. left /\ i \in 1 .. size
      BY <1>1, <2>4 DEF left
    <3>2. all[i] = old[from + n + (i - (from + n))]
      BY <1>1, <1>6, <1>8, <2>4, <3>1
    <3>3. all[i] = room[i]
      BY <1>1, <1>2, <3>1, <3>2
    <3>4. QED
      BY <1>1, <2>1, <2>4, <3>3
  <2>5. QED
    BY <1>1, <2>2, <2>3, <2>4
<1>10. new = all
  BY <1>3, <1>8, <1>9, SeqEqual
<1>11. QED
  BY <1>2, <1>10 DEF new, all, start, before, added, rest, old, Spliced

LEMMA WriteMaps ==
  ASSUME FilesInv, NEW s \in Streams, NEW text \in Texts, fwrite(s, text)
  PROVE  FilesInv' /\ Abstract!Write(s, text)
<1> DEFINE f == Entry(s).node
           from == Entry(s).position
           size == file_size[f]
           n == Abstract!Smaller(Len(text), RAMFS_MAX_FILE_SIZE - from)
           longer == Max({size, from + n})
           result == Spliced(Contents[f], from, text, n)
<1>1. stream[s] # NULL /\ UNCHANGED there /\ StreamsInv /\ StreamsInv'
  BY WritePreserves DEF fwrite, FilesInv
<1>2. /\ f \in there /\ f \in Names /\ size \in 0 .. RAMFS_MAX_FILE_SIZE /\ node_size[f] = size
      /\ data[f] \in [Place -> Bytes] /\ text \in Seq(Bytes) /\ Len(text) \in Nat
      /\ from \in 0 .. RAMFS_MAX_FILE_SIZE /\ from =< size
  BY <1>1, OpenStream, StdioAssumption DEF FilesInv, SizesAgree, PlacesInFile, StreamsInv, TypeOK
<1>3. n \in 0 .. Len(text) /\ from \in 0 .. size /\ from + n =< RAMFS_MAX_FILE_SIZE
  BY <1>2, StdioAssumption DEF Abstract!Smaller
<1>4. WriteLen(f, from, Len(text)) = n
  <2> HIDE DEF f, from
  <2>1. CASE from >= RAMFS_MAX_FILE_SIZE
    BY <1>2, <2>1, StdioAssumption DEF WriteLen, Abstract!Smaller
  <2>2. CASE ~(from >= RAMFS_MAX_FILE_SIZE)
    <3> DEFINE count == Len(text)
               rest == RAMFS_MAX_FILE_SIZE - from
    <3>1. WriteLen(f, from, count) = Min({count, rest})
      BY <2>2 DEF WriteLen
    <3>2. count \in Int /\ rest \in Int
      BY <1>2, StdioAssumption
    <3> HIDE DEF count, rest
    <3>3. /\ Min({count, rest}) \in Int
          /\ Min({count, rest}) =< count /\ Min({count, rest}) =< rest
          /\ Min({count, rest}) = count \/ Min({count, rest}) = rest
      BY <3>2, SmallerOf, Zenon
    <3>4. Min({count, rest}) = Abstract!Smaller(count, rest)
      BY <3>2, <3>3 DEF Abstract!Smaller
    <3>5. QED
      BY <3>1, <3>4 DEF rest, count
  <2>3. QED
    BY <2>1, <2>2
<1> HIDE DEF n
<1>5. longer \in {size, from + n} /\ longer >= size /\ longer >= from + n
  <2> DEFINE end == from + n
  <2>1. size \in Int /\ end \in Int
    BY <1>2, <1>3
  <2> HIDE DEF size, end
  <2>2. Max({size, end}) \in {size, end} /\ Max({size, end}) >= size /\ Max({size, end}) >= end
    BY <2>1, LargerOf, LargerAbove, Zenon
  <2>3. QED
    BY <2>2 DEF end
<1> HIDE DEF longer
<1>6. longer \in 0 .. RAMFS_MAX_FILE_SIZE
  BY <1>2, <1>3, <1>5, StdioAssumption
<1>7. Handles[s].file = f /\ Handles[s].at = from /\ Abstract!Size(f) = size
  <2>1. Handles[s] = [file |-> f, at |-> from]
    BY <1>1, HandleOf
  <2>2. Len(Contents[f]) = size
    BY <1>1, <1>2, ContentsOf DEF StreamsInv
  <2>3. QED
    BY <2>1, <2>2 DEF Abstract!Size
<1>8. /\ file_size' = [file_size EXCEPT ![f] = longer]
      /\ node_size' = [node_size EXCEPT ![f] = longer]
      /\ data' = [data EXCEPT ![f] = [p \in Place |-> IF from < p /\ p <= from + n
                                                      THEN text[p - from] ELSE @[p]]]
  <2>1. CASE from >= RAMFS_MAX_FILE_SIZE
    <3>1. /\ UNCHANGED <<data, file_size>>
          /\ node_size' = [node_size EXCEPT ![f] = Max({node_size[f], from})]
      BY <2>1 DEF fwrite
    <3>2. n = 0 /\ from = size
      BY <1>2, <1>3, <2>1, StdioAssumption DEF n, Abstract!Smaller
    <3>3. longer = size
      BY <1>2, <1>5, <3>2
    <3>4. Max({node_size[f], from}) = longer
      <4>1. node_size[f] = size /\ from = from + n
        BY <1>2, <3>2
      <4> HIDE DEF size, from
      <4>2. QED
        BY <4>1, Zenon DEF longer
    <3>5. data[f] = [p \in Place |-> IF from < p /\ p <= from + n THEN text[p - from] ELSE data[f][p]]
      BY <1>2, <3>2, StdioAssumption DEF Place
    <3>6. QED
      BY <1>1, <1>2, <3>1, <3>3, <3>4, <3>5 DEF StreamsInv, TypeOK
  <2>2. CASE ~(from >= RAMFS_MAX_FILE_SIZE)
    <3>1. /\ data' = [data EXCEPT ![f] =
                        [p \in Place |-> IF from < p /\ p <= from + n THEN text[p - from] ELSE @[p]]]
          /\ file_size' = [file_size EXCEPT ![f] = Max({@, from + n})]
          /\ node_size' = [node_size EXCEPT ![f] = file_size'[f]]
      BY <1>4, <2>2 DEF fwrite
    <3>2. file_size' = [file_size EXCEPT ![f] = longer]
      BY <3>1 DEF longer
    <3>3. file_size'[f] = longer
      BY <1>1, <1>2, <3>2 DEF StreamsInv, TypeOK
    <3>4. QED
      BY <3>1, <3>2, <3>3
  <2>3. QED
    BY <2>1, <2>2
<1>9. SizesAgree'
  BY <1>1, <1>2, <1>8 DEF FilesInv, SizesAgree, StreamsInv, TypeOK
<1>10. PlacesInFile' /\ Handles' = [Handles EXCEPT ![s].at = from + n]
  <2>1. Moved(s, from + n)
    BY <1>4 DEF fwrite
  <2>2. file_size' \in [Names -> 0 .. RAMFS_MAX_FILE_SIZE]
    BY <1>1 DEF StreamsInv, TypeOK
  <2>3. \A g \in Names : file_size[g] =< file_size'[g]
    BY <1>1, <1>2, <1>5, <1>8, StdioAssumption DEF StreamsInv, TypeOK
  <2>4. from + n \in 0 .. RAMFS_MAX_FILE_SIZE /\ from + n =< file_size'[f]
    BY <1>1, <1>2, <1>3, <1>5, <1>8, StdioAssumption DEF StreamsInv, TypeOK
  <2>5. QED
    BY <1>1, <2>1, <2>2, <2>3, <2>4, MoveMaps
<1>11. Contents' = [Contents EXCEPT ![f] = result]
  <2> DEFINE room == data[f]
             written == data'[f]
  <2>1. room \in [Place -> Bytes] /\ written \in [Place -> Bytes]
    BY <1>1, <1>2 DEF StreamsInv, TypeOK
  <2>2. \A p \in Place :
          written[p] = IF from < p /\ p <= from + n THEN text[p - from] ELSE room[p]
    BY <1>1, <1>2, <1>8 DEF StreamsInv, TypeOK
  <2>3. Contents[f] = SubSeq(room, 1, size)
    BY <1>2 DEF Contents
  <2>4. Contents'[f] = SubSeq(written, 1, longer)
    BY <1>1, <1>2, <1>8 DEF Contents, StreamsInv, TypeOK
  <2>5. \A g \in Names : g # f => Contents'[g] = Contents[g]
    BY <1>1, <1>2, <1>8 DEF Contents, StreamsInv, TypeOK
  <2>6. Contents'[f] = result
    <3> HIDE DEF room, written, from, size
    <3>1. SubSeq(written, 1, longer) = Spliced(SubSeq(room, 1, size), from, text, n)
      <4>1. Overwrites(written, room, size, from, text, n, longer)
        BY <1>2, <1>3, <1>5, <2>1, <2>2 DEF Overwrites
      <4>2. QED
        BY <4>1, WriteBytes
    <3>2. QED
      BY <2>3, <2>4, <3>1
  <2> HIDE DEF result
  <2>7. QED
    BY <2>5, <2>6 DEF Contents
<1>12. Abstract!IsOpen(s)
  BY <1>1, HandleOf DEF Abstract!IsOpen
<1>13. Abstract!Returns(<<"fwrite", s, text>>, NULL, n, <<>>)
  BY <1>4 DEF fwrite, Returns, Abstract!Returns
<1>14. n = Abstract!Smaller(Len(text), RAMFS_MAX_FILE_SIZE - from)
  BY DEF n
<1> HIDE DEF f, from, size
<1>15. Abstract!Write(s, text)
  BY <1>7, <1>10, <1>11, <1>12, <1>13, <1>14 DEF Abstract!Write, Abstract!Size, Spliced
<1>16. QED
  BY <1>1, <1>9, <1>10, <1>15 DEF FilesInv

\* Each call of Stdio is the call of FileStore of the same name.
LEMMA FilesStep ==
  ASSUME "w" \notin Modes
  PROVE  FilesInv /\ [Next]_vars => FilesInv' /\ [Abstract!Next]_<<Contents, Handles, returned>>
<1> SUFFICES ASSUME FilesInv, [Next]_vars
             PROVE  FilesInv' /\ [Abstract!Next]_<<Contents, Handles, returned>>
  OBVIOUS
<1>1. ASSUME NEW f \in Names, NEW mode \in Modes, fopen_fails(f, mode)
      PROVE  FilesInv' /\ Abstract!Next
  <2>1. mode \in {"r", "a", "w"}
    BY StdioAssumption
  <2>2. QED
    BY <1>1, <2>1, OpenFailsMaps DEF Abstract!Next
<1>2. ASSUME NEW f \in Names, NEW mode \in Modes, NEW s \in Streams, fopen(f, mode, s)
      PROVE  FilesInv' /\ Abstract!Next
  <2>1. mode \in {"r", "a", "w"} /\ mode # "w"
    BY StdioAssumption
  <2>2. QED
    BY <1>2, <2>1, OpenMaps DEF Abstract!Next
<1>3. ASSUME NEW s \in Streams, fclose(s) PROVE FilesInv' /\ Abstract!Next
  BY <1>3, CloseMaps DEF Abstract!Next
<1>4. ASSUME NEW s \in Streams, NEW offset \in Offsets, NEW whence \in {"set", "cur", "end"},
             fseek(s, offset, whence)
      PROVE  FilesInv' /\ Abstract!Next
  BY <1>4, SeekMaps DEF Abstract!Next
<1>5. ASSUME NEW s \in Streams, NEW count \in Counts, fread(s, count)
      PROVE  FilesInv' /\ Abstract!Next
  BY <1>5, ReadMaps DEF Abstract!Next
<1>6. ASSUME NEW s \in Streams, NEW text \in Texts, fwrite(s, text)
      PROVE  FilesInv' /\ Abstract!Next
  BY <1>6, WriteMaps DEF Abstract!Next
<1>7. CASE UNCHANGED vars
  <2>1. UNCHANGED <<there, node_size, file_size, data, file_table, stream, returned>>
    BY <1>7 DEF vars, files
  <2>2. StreamsInv'
    BY <2>1, NothingPreserves DEF FilesInv, files
  <2>3. SizesAgree' /\ PlacesInFile' /\ UNCHANGED <<Contents, Handles>>
    BY <2>1 DEF FilesInv, SizesAgree, PlacesInFile, Entry, Contents, Handles
  <2>4. QED
    BY <2>1, <2>2, <2>3 DEF FilesInv
<1>8. QED
  BY <1>1, <1>2, <1>3, <1>4, <1>5, <1>6, <1>7 DEF Next

\* For clients that open to read and to append, the streams are FileStore: a
\* read returns the bytes last written at its place, a write changes no byte
\* but those it writes, a seek stays in the file (stdio.cpp:24-122,
\* ramfs.cpp:18-46).  "w" is left out because it cuts only one of the two sizes.
THEOREM StreamsAreFiles ==
  ASSUME "w" \notin Modes
  PROVE  Spec => ImplementsFileStore
<1>1. Init => FilesInv
  BY FilesInit
<1>2. FilesInv /\ [Next]_vars => FilesInv' /\ [Abstract!Next]_<<Contents, Handles, returned>>
  BY FilesStep
<1>3. Init => Abstract!Init
  BY DEF Init, Abstract!Init, Contents, Handles
<1>4. QED
  BY <1>1, <1>2, <1>3, PTL DEF Spec, ImplementsFileStore, Abstract!Spec, Abstract!fsvars

\* The size stdio looks at and the size ramfs looks at are the same, a file
\* that is not there has none, and no FILE lies beyond its file.
THEOREM SizesStayTogether ==
  ASSUME "w" \notin Modes
  PROVE  Spec => [](SizesAgree /\ PlacesInFile)
<1>1. FilesInv /\ [Next]_vars => FilesInv'
  BY FilesStep
<1>2. FilesInv => SizesAgree /\ PlacesInFile
  BY DEF FilesInv
<1>3. QED
  BY <1>1, <1>2, FilesInit, PTL DEF Spec

-----------------------------------------------------------------------------
(* The callbacks of Console, for every size of their table, any keys and   *)
(* any number of them.                                                     *)

TERM == "terminalWriteCharacter"
WIN  == "keyboardFunctionWindowManager"

\* The part of the state a key's way depends on has its type.
TableTypes ==
  /\ global_callbacks \in [1 .. MAX_CALLBACKS -> [callback : {"none", TERM, WIN}, id : Nat]]
  /\ next_global_id \in Nat \ {0} /\ associatedKeyboardEvent \in Nat
  /\ pressed \in Nat
  /\ heard \in [terminal : Seq(Nat), window : Seq(Nat)]

\* The terminal's callback is in the table only between graphics_initalize_stage2
\* and the end of terminal_delete; then it is in one slot, under the number that
\* terminal_delete removes.
TerminalRegistered ==
  /\ Registered(TERM) => main \in {"add_id", "typing", "delete", "remove"}
  /\ \A i, j \in 1 .. MAX_CALLBACKS :
       global_callbacks[i].callback = TERM /\ global_callbacks[j].callback = TERM => i = j
  /\ main \in {"typing", "delete", "remove"} =>
       \A i \in 1 .. MAX_CALLBACKS :
         global_callbacks[i].callback = TERM => global_callbacks[i].id = associatedKeyboardEvent

\* The window system's is added behind that.
WindowRegistered == Registered(WIN) => main \in {"window_id", "desktop"}

\* What was heard was pressed, and the window system heard nothing before its
\* callback was there.
HeardPressed ==
  /\ \A n \in DOMAIN heard.terminal : heard.terminal[n] =< pressed
  /\ \A n \in DOMAIN heard.window : heard.window[n] =< pressed
  /\ heard.window # <<>> => main \in {"window_id", "desktop"}
  /\ \A n \in DOMAIN heard.terminal, m \in DOMAIN heard.window :
       heard.terminal[n] < heard.window[m]

ListenerInv == TableTypes /\ TerminalRegistered /\ WindowRegistered /\ HeardPressed

LEMMA ListenerInit == CInit => ListenerInv
<1> SUFFICES ASSUME CInit PROVE ListenerInv
  OBVIOUS
<1>1. global_callbacks = [i \in 1 .. MAX_CALLBACKS |-> Free] /\ next_global_id = 1
      /\ associatedKeyboardEvent = 0 /\ pressed = 0 /\ main = "capture"
      /\ heard = [terminal |-> <<>>, window |-> <<>>]
  BY DEF CInit
<1>2. TableTypes
  BY <1>1, ConsoleAssumption DEF TableTypes, Free
<1>3. ~Registered(TERM) /\ ~Registered(WIN)
  BY <1>1, ConsoleAssumption DEF Registered, Free, TERM, WIN
<1>4. QED
  BY <1>1, <1>2, <1>3, ConsoleAssumption
  DEF ListenerInv, TerminalRegistered, WindowRegistered, HeardPressed, Free, TERM

\* Steps of the log, the screen and the terminal leave the table alone.
LEMMA QuietPreserves ==
  ASSUME ListenerInv,
         UNCHANGED <<global_callbacks, next_global_id, associatedKeyboardEvent, pressed, heard>>,
         \/ main' = main
         \/ main \in {"capture", "log", "devices", "stage2"} /\ main' \in {"log", "devices", "stage2", "add"}
         \/ main = "typing" /\ main' = "delete"
         \/ main = "delete" /\ main' = "remove"
  PROVE  ListenerInv'
<1>1. Registered(TERM)' = Registered(TERM) /\ Registered(WIN)' = Registered(WIN)
  BY DEF Registered
<1>2. TableTypes'
  BY DEF ListenerInv, TableTypes
<1>3. TerminalRegistered'
  BY <1>1 DEF ListenerInv, TerminalRegistered
<1>4. WindowRegistered'
  BY <1>1 DEF ListenerInv, WindowRegistered
<1>5. HeardPressed'
  BY DEF ListenerInv, HeardPressed
<1>6. QED
  BY <1>2, <1>3, <1>4, <1>5 DEF ListenerInv

\* The first store of kb_add_event puts the callback into one unused slot, when
\* the other one's is in none.
LEMMA StoreCallbackPreserves ==
  ASSUME ListenerInv,
         NEW callback \in {TERM, WIN}, StoreCallback(callback),
         ~Registered(TERM), ~Registered(WIN),
         callback = TERM => main = "add" /\ main' = "add_id",
         callback = WIN => main = "window" /\ main' = "window_id"
  PROVE  ListenerInv'
<1>1. PICK i \in 1 .. MAX_CALLBACKS :
        global_callbacks' = [global_callbacks EXCEPT ![i].callback = callback]
  BY DEF StoreCallback, Unused, ListenerInv, TableTypes
<1>2. UNCHANGED <<next_global_id, associatedKeyboardEvent, pressed, heard>>
  BY DEF StoreCallback
<1>3. \A j \in 1 .. MAX_CALLBACKS : global_callbacks[j].callback \notin {TERM, WIN}
  BY DEF Registered, ListenerInv, TableTypes
<1>4. \A j \in 1 .. MAX_CALLBACKS : j # i => global_callbacks'[j] = global_callbacks[j]
  BY <1>1 DEF ListenerInv, TableTypes
<1>5. global_callbacks'[i].callback = callback
  BY <1>1 DEF ListenerInv, TableTypes
<1>6. TableTypes'
  BY <1>1, <1>2 DEF ListenerInv, TableTypes
<1>7. TerminalRegistered'
  BY <1>3, <1>4, <1>5, <1>6 DEF TerminalRegistered, Registered, TableTypes, TERM, WIN
<1>8. WindowRegistered'
  BY <1>3, <1>4, <1>5, <1>6 DEF WindowRegistered, Registered, TableTypes, TERM, WIN
<1>9. HeardPressed'
  <2>1. heard.window = <<>>
    BY DEF ListenerInv, HeardPressed
  <2>2. QED
    BY <1>2, <2>1 DEF ListenerInv, HeardPressed
<1>10. QED
  BY <1>6, <1>7, <1>8, <1>9 DEF ListenerInv

\* The second store numbers it; graphics_initalize_stage2 keeps the number.
LEMMA StoreIdPreserves ==
  ASSUME ListenerInv,
         NEW callback \in {TERM, WIN}, StoreId(callback),
         callback = TERM => /\ main = "add_id" /\ main' = "typing"
                            /\ associatedKeyboardEvent' = next_global_id,
         callback = WIN => /\ main = "window_id" /\ main' = "desktop"
                           /\ UNCHANGED associatedKeyboardEvent
  PROVE  ListenerInv'
<1>1. PICK i \in 1 .. MAX_CALLBACKS :
        /\ global_callbacks[i].callback = callback
        /\ global_callbacks' = [global_callbacks EXCEPT ![i].id = next_global_id]
  BY DEF StoreId, ListenerInv, TableTypes
<1>2. next_global_id' = next_global_id + 1 /\ UNCHANGED <<pressed, heard>>
  BY DEF StoreId
<1>3. associatedKeyboardEvent' \in Nat
  BY DEF ListenerInv, TableTypes
<1>4. TableTypes'
  BY <1>1, <1>2, <1>3 DEF ListenerInv, TableTypes
<1>5. \A j \in 1 .. MAX_CALLBACKS : global_callbacks'[j].callback = global_callbacks[j].callback
  BY <1>1 DEF ListenerInv, TableTypes
<1>6. Registered(TERM)' = Registered(TERM) /\ Registered(WIN)' = Registered(WIN)
  BY <1>4, <1>5 DEF Registered, ListenerInv, TableTypes
<1>7. TerminalRegistered'
  <2>1. CASE callback = TERM
    <3>1. \A j \in 1 .. MAX_CALLBACKS : global_callbacks[j].callback = TERM => j = i
      BY <1>1, <2>1 DEF ListenerInv, TerminalRegistered
    <3>2. global_callbacks'[i].id = next_global_id
      BY <1>1 DEF ListenerInv, TableTypes
    <3>3. QED
      BY <1>5, <1>6, <2>1, <3>1, <3>2 DEF ListenerInv, TerminalRegistered
  <2>2. CASE callback = WIN
    BY <1>5, <1>6, <2>2 DEF ListenerInv, TerminalRegistered
  <2>3. QED
    BY <2>1, <2>2
<1>8. WindowRegistered'
  <2>1. CASE callback = TERM
    BY <1>6, <2>1 DEF ListenerInv, WindowRegistered
  <2>2. CASE callback = WIN
    BY <2>2 DEF WindowRegistered
  <2>3. QED
    BY <2>1, <2>2
<1>9. HeardPressed'
  BY <1>2 DEF ListenerInv, HeardPressed, TERM, WIN
<1>10. QED
  BY <1>4, <1>7, <1>8, <1>9 DEF ListenerInv

\* The end of terminal_delete leaves no slot with the terminal's callback.
LEMMA RemovePreserves ==
  ASSUME ListenerInv, main = "remove", main' = "window",
         global_callbacks' = kb_remove_event(associatedKeyboardEvent),
         UNCHANGED <<next_global_id, associatedKeyboardEvent, pressed, heard>>
  PROVE  ListenerInv'
<1>1. global_callbacks' = [i \in 1 .. MAX_CALLBACKS |->
         IF global_callbacks[i].id = associatedKeyboardEvent THEN Free ELSE global_callbacks[i]]
  BY DEF kb_remove_event, ListenerInv, TableTypes
<1>2. Free \in [callback : {"none", TERM, WIN}, id : Nat]
  BY DEF Free
<1>3. TableTypes'
  BY <1>1, <1>2 DEF ListenerInv, TableTypes
<1>4. \A i \in 1 .. MAX_CALLBACKS : global_callbacks[i].callback # WIN
  BY DEF ListenerInv, WindowRegistered, Registered, TableTypes
<1>5. \A i \in 1 .. MAX_CALLBACKS : global_callbacks'[i].callback \notin {TERM, WIN}
  BY <1>1, <1>4 DEF ListenerInv, TerminalRegistered, Free, TERM, WIN
<1>6. ~Registered(TERM)' /\ ~Registered(WIN)'
  BY <1>3, <1>5 DEF Registered, TableTypes
<1>7. TerminalRegistered' /\ WindowRegistered'
  BY <1>5, <1>6 DEF TerminalRegistered, WindowRegistered
<1>8. HeardPressed'
  BY DEF ListenerInv, HeardPressed
<1>9. QED
  BY <1>3, <1>7, <1>8 DEF ListenerInv

\* A key is later than every key heard before, and only one of the two
\* callbacks is there.
LEMMA KeyPreserves ==
  ASSUME ListenerInv, NEW k, kb_run_events(k)
  PROVE  ListenerInv'
<1>1. pressed' = pressed + 1 /\ pressed \in Nat
      /\ UNCHANGED <<main, global_callbacks, next_global_id, associatedKeyboardEvent>>
  BY DEF kb_run_events, ListenerInv, TableTypes, table
<1>2. Registered(TERM)' = Registered(TERM) /\ Registered(WIN)' = Registered(WIN)
  BY <1>1 DEF Registered
<1>3. /\ heard'.terminal = IF Registered(TERM) THEN Append(heard.terminal, pressed') ELSE heard.terminal
      /\ heard'.window = IF Registered(WIN) THEN Append(heard.window, pressed') ELSE heard.window
      /\ heard' \in [terminal : Seq(Nat), window : Seq(Nat)]
  BY <1>1 DEF kb_run_events, ListenerInv, TableTypes, TERM, WIN
<1>4. TableTypes'
  BY <1>1, <1>3 DEF ListenerInv, TableTypes
<1>5. TerminalRegistered' /\ WindowRegistered'
  BY <1>1, <1>2 DEF ListenerInv, TerminalRegistered, WindowRegistered
<1>6. heard.terminal \in Seq(Nat) /\ heard.window \in Seq(Nat)
  BY DEF ListenerInv, TableTypes
<1>7. HeardPressed'
  <2>1. CASE Registered(TERM)
    <3>1. ~Registered(WIN) /\ heard.window = <<>>
      BY <2>1 DEF ListenerInv, TerminalRegistered, WindowRegistered, HeardPressed
    <3>2. heard'.window = <<>>
      BY <1>3, <3>1
    <3>3. \A n \in DOMAIN heard'.terminal : heard'.terminal[n] =< pressed'
      <4>1. heard'.terminal = Append(heard.terminal, pressed + 1)
        BY <1>1, <1>3, <2>1
      <4>2. \A n \in DOMAIN heard'.terminal :
              heard'.terminal[n] = pressed + 1
                \/ (n \in DOMAIN heard.terminal /\ heard'.terminal[n] = heard.terminal[n])
        BY <1>1, <1>6, <4>1
      <4>3. \A n \in DOMAIN heard.terminal : heard.terminal[n] \in Nat /\ heard.terminal[n] =< pressed
        BY <1>6 DEF ListenerInv, HeardPressed
      <4>4. QED
        BY <1>1, <4>2, <4>3
    <3>4. QED
      BY <3>2, <3>3 DEF HeardPressed
  <2>2. CASE ~Registered(TERM) /\ Registered(WIN)
    <3>1. heard'.terminal = heard.terminal
      BY <1>3, <2>2
    <3>2. heard'.window = Append(heard.window, pressed + 1)
      BY <1>1, <1>3, <2>2
    <3>3. main' \in {"window_id", "desktop"}
      BY <1>1, <2>2 DEF ListenerInv, WindowRegistered
    <3>4. \A n \in DOMAIN heard'.window :
            heard'.window[n] = pressed + 1
              \/ (n \in DOMAIN heard.window /\ heard'.window[n] = heard.window[n])
      BY <1>1, <1>6, <3>2
    <3>5. \A n \in DOMAIN heard.terminal : heard.terminal[n] \in Nat /\ heard.terminal[n] =< pressed
      BY <1>6 DEF ListenerInv, HeardPressed
    <3>6. \A n \in DOMAIN heard.window : heard.window[n] \in Nat /\ heard.window[n] =< pressed
      BY <1>6 DEF ListenerInv, HeardPressed
    <3>7. \A n \in DOMAIN heard'.window : heard'.window[n] =< pressed'
      BY <1>1, <3>4, <3>6
    <3>8. \A n \in DOMAIN heard'.terminal : heard'.terminal[n] =< pressed'
      BY <1>1, <3>1, <3>5
    <3>9. \A n \in DOMAIN heard'.terminal, m \in DOMAIN heard'.window :
            heard'.terminal[n] < heard'.window[m]
      BY <1>1, <3>1, <3>4, <3>5 DEF ListenerInv, HeardPressed
    <3>10. QED
      BY <3>3, <3>7, <3>8, <3>9 DEF HeardPressed
  <2>3. CASE ~Registered(TERM) /\ ~Registered(WIN)
    <3>1. heard'.terminal = heard.terminal /\ heard'.window = heard.window
      BY <1>3, <2>3
    <3>2. \A n \in DOMAIN heard.terminal : heard.terminal[n] \in Nat
      BY <1>6
    <3>3. \A n \in DOMAIN heard.window : heard.window[n] \in Nat
      BY <1>6
    <3>4. QED
      BY <1>1, <3>1, <3>2, <3>3 DEF ListenerInv, HeardPressed
  <2>4. QED
    BY <2>1, <2>2, <2>3
<1>8. QED
  BY <1>4, <1>5, <1>7 DEF ListenerInv

LEMMA ListenerStep == ListenerInv /\ [CNext]_cvars => ListenerInv'
<1> SUFFICES ASSUME ListenerInv, [CNext]_cvars PROVE ListenerInv'
  OBVIOUS
<1>1. CASE LogPhase
  BY <1>1, QuietPreserves DEF LogPhase, At, TerminalDevice, table
<1>2. CASE graphics_initalize_stage1
  BY <1>2, QuietPreserves DEF graphics_initalize_stage1, At, table
<1>3. CASE graphics_initalize_stage2
  <2>1. CASE main = "stage2"
    BY <1>3, <2>1, QuietPreserves DEF graphics_initalize_stage2, At, table
  <2>2. CASE main = "add"
    <3>1. main' = "add_id" /\ StoreCallback(TERM)
      BY <1>3, <2>2 DEF graphics_initalize_stage2, At, TERM
    <3>2. ~Registered(TERM) /\ ~Registered(WIN)
      BY <2>2 DEF ListenerInv, TerminalRegistered, WindowRegistered
    <3>3. QED
      BY <2>2, <3>1, <3>2, StoreCallbackPreserves DEF TERM, WIN
  <2>3. CASE main = "add_id"
    <3>1. main' = "typing" /\ StoreId(TERM) /\ associatedKeyboardEvent' = next_global_id
      BY <1>3, <2>3 DEF graphics_initalize_stage2, At, TERM
    <3>2. QED
      BY <2>3, <3>1, StoreIdPreserves DEF TERM, WIN
  <2>4. QED
    BY <1>3, <2>1, <2>2, <2>3 DEF graphics_initalize_stage2, At
<1>4. CASE terminal_delete
  <2>1. CASE main = "remove"
    BY <1>4, <2>1, RemovePreserves DEF terminal_delete, At
  <2>2. CASE main # "remove"
    BY <1>4, <2>2, QuietPreserves DEF terminal_delete, At, table
  <2>3. QED
    BY <2>1, <2>2
<1>5. CASE initalizeWindowSystem
  <2>1. CASE main = "window"
    <3>1. main' = "window_id" /\ StoreCallback(WIN)
      BY <1>5, <2>1 DEF initalizeWindowSystem, At, WIN
    <3>2. ~Registered(TERM) /\ ~Registered(WIN)
      BY <2>1 DEF ListenerInv, TerminalRegistered, WindowRegistered
    <3>3. QED
      BY <2>1, <3>1, <3>2, StoreCallbackPreserves DEF TERM, WIN
  <2>2. CASE main = "window_id"
    <3>1. main' = "desktop" /\ StoreId(WIN) /\ UNCHANGED associatedKeyboardEvent
      BY <1>5, <2>2 DEF initalizeWindowSystem, At, WIN
    <3>2. QED
      BY <2>2, <3>1, StoreIdPreserves DEF TERM, WIN
  <2>3. QED
    BY <1>5, <2>1, <2>2 DEF initalizeWindowSystem, At
<1>6. CASE KeyPress
  BY <1>6, KeyPreserves DEF KeyPress
<1>7. CASE UNCHANGED cvars
  BY <1>7, QuietPreserves DEF cvars, console, table
<1>8. QED
  BY <1>1, <1>2, <1>3, <1>4, <1>5, <1>6, <1>7 DEF CNext, KernelMain

\* At every time only one of the terminal and the window system is registered
\* for keys, with a number under which it can be removed (kb.cpp:9-31).
THEOREM ListenerInvariant == CSpec => []ListenerInv
<1>1. QED
  BY ListenerInit, ListenerStep, PTL DEF CSpec

\* A key is heard by the terminal or by the window system, never by both, and
\* the window system's are the later ones (graphics.cpp:243-249, wingman.cpp:72).
THEOREM KeysHaveOneListener == CSpec => []OneListener
<1>1. ListenerInv => OneListener
  <2> SUFFICES ASSUME ListenerInv PROVE OneListener
    OBVIOUS
  <2>1. /\ \A a \in Range(heard.terminal) : \E n \in DOMAIN heard.terminal : a = heard.terminal[n]
        /\ \A b \in Range(heard.window) : \E m \in DOMAIN heard.window : b = heard.window[m]
    BY DEF Range
  <2>2. \A a \in Range(heard.terminal), b \in Range(heard.window) : a < b
    BY <2>1 DEF ListenerInv, HeardPressed
  <2>3. \A a \in Range(heard.terminal) : a \in Nat
    BY <2>1 DEF ListenerInv, TableTypes
  <2>4. Range(heard.terminal) \cap Range(heard.window) = {}
    BY <2>2, <2>3
  <2>5. heard.window # <<>> => ~Registered(TERM)
    BY DEF ListenerInv, HeardPressed, TerminalRegistered
  <2>6. QED
    BY <2>2, <2>4, <2>5 DEF OneListener, TERM
<1>2. QED
  BY <1>1, ListenerInvariant, PTL

-----------------------------------------------------------------------------
(* The log: texts and the messages that stand whole in them.               *)

\* The first k places.
FirstPlaces(p, k) == {p[a] : a \in 1 .. k}

LEMMA PlacesCounted ==
  ASSUME NEW k \in Nat, NEW p, \A a, b \in 1 .. k : p[a] = p[b] => a = b
  PROVE  IsFiniteSet(FirstPlaces(p, k)) /\ Cardinality(FirstPlaces(p, k)) = k
<1> DEFINE S == FirstPlaces(p, k)
           f == [a \in 1 .. k |-> p[a]]
<1>1. f \in Bijection(1 .. k, S)
  <2>1. f \in [1 .. k -> S] /\ \A t \in S : \E a \in 1 .. k : f[a] = t
    BY DEF FirstPlaces
  <2>2. \A a, b \in 1 .. k : f[a] = f[b] => a = b
    OBVIOUS
  <2>3. QED
    BY <2>1, <2>2 DEF Bijection, Injection, Surjection, IsInjective
<1>2. ExistsBijection(1 .. k, S)
  BY <1>1 DEF ExistsBijection
<1>3. IsFiniteSet(1 .. k) /\ Cardinality(1 .. k) = k
  BY FS_Interval
<1> HIDE DEF S
<1>4. QED
  BY <1>2, <1>3, FS_Bijection DEF S

\* Where a message stands whole in a text.
Starts(text) == {i \in 1 .. Len(text) - 1 : text[i] = <<text[i][1], "head">>
                                            /\ text[i + 1] = <<text[i][1], "tail">>}

\* p names the places of the messages ms in the text.
SpelledAt(text, ms, p) ==
  /\ \A n \in 1 .. Len(ms) : p[n] \in Nat
  /\ \A a, b \in 1 .. Len(ms) : a < b => p[a] < p[b]
  /\ Starts(text) = FirstPlaces(p, Len(ms))
  /\ \A n \in 1 .. Len(ms) : text[p[n]][1] = ms[n]

Spells(text, ms) == \E p : SpelledAt(text, ms, p)

LEMMA WholeSpelled ==
  ASSUME NEW S, NEW ms \in Seq(S), NEW text, Spells(text, ms)
  PROVE  Whole(text) = ms
<1> DEFINE N == Len(ms)
           count(i) == Cardinality({j \in Starts(text) : j <= i})
<1>1. PICK p : SpelledAt(text, ms, p)
  BY DEF Spells
<1>2. N \in Nat /\ ms \in [1 .. N -> S]
  OBVIOUS
<1> HIDE DEF N
<1>3. /\ \A n \in 1 .. N : p[n] \in Nat
      /\ \A a, b \in 1 .. N : a < b => p[a] < p[b]
      /\ Starts(text) = FirstPlaces(p, N)
      /\ \A n \in 1 .. N : text[p[n]][1] = ms[n]
  BY <1>1 DEF SpelledAt, N
<1>4. \A a, b \in 1 .. N : p[a] = p[b] => a = b
  BY <1>2, <1>3
<1>5. ASSUME NEW n \in 1 .. N PROVE count(p[n]) = n
  <2>1. \A a \in 1 .. n : a \in 1 .. N
    BY <1>2
  <2>2. {j \in Starts(text) : j <= p[n]} = FirstPlaces(p, n)
    <3>1. ASSUME NEW a \in 1 .. N PROVE p[a] <= p[n] <=> a \in 1 .. n
      <4>1. a \in Nat /\ n \in Nat /\ p[a] \in Nat /\ p[n] \in Nat
        BY <1>2, <1>3
      <4>2. a < n => p[a] < p[n]
        BY <1>3
      <4>3. n < a => p[n] < p[a]
        BY <1>3
      <4>4. QED
        BY <4>1, <4>2, <4>3
    <3>2. QED
      BY <1>3, <2>1, <3>1 DEF FirstPlaces
  <2>3. n \in Nat /\ \A a, b \in 1 .. n : p[a] = p[b] => a = b
    BY <1>2, <1>4, <2>1
  <2>4. QED
    BY <2>2, <2>3, PlacesCounted
<1>6. Cardinality(Starts(text)) = N
  BY <1>2, <1>3, <1>4, PlacesCounted
<1>7. ASSUME NEW n \in 1 .. N PROVE (CHOOSE i \in Starts(text) : count(i) = n) = p[n]
  <2>1. p[n] \in Starts(text)
    BY <1>3 DEF FirstPlaces
  <2>2. ASSUME NEW i \in Starts(text), count(i) = n PROVE i = p[n]
    <3>1. PICK a \in 1 .. N : i = p[a]
      BY <1>3 DEF FirstPlaces
    <3>2. QED
      BY <1>5, <2>2, <3>1
  <2> HIDE DEF count
  <2>3. QED
    BY <1>5, <2>1, <2>2
<1>8. Whole(text) = [n \in 1 .. Cardinality(Starts(text)) |->
                       text[CHOOSE i \in Starts(text) : count(i) = n][1]]
  BY DEF Whole, Starts
<1> HIDE DEF count
<1>9. Whole(text) = [n \in 1 .. N |-> ms[n]]
  BY <1>3, <1>6, <1>7, <1>8
<1>10. QED
  BY <1>2, <1>9

\* The places in two texts one behind the other.
LEMMA StartsTogether ==
  ASSUME NEW C, NEW a \in Seq(C), NEW b \in Seq(C), b = <<>> \/ b[1][2] = "head"
  PROVE  /\ \A i \in Starts(a) : i \in Starts(a \o b) /\ i \in 1 .. Len(a) - 1 /\ (a \o b)[i] = a[i]
         /\ \A j \in Starts(b) : Len(a) + j \in Starts(a \o b) /\ (a \o b)[Len(a) + j] = b[j]
         /\ \A i \in Starts(a \o b) : i \in Starts(a) \/ (i - Len(a)) \in Starts(b)
<1> DEFINE ab == a \o b
           A  == Len(a)
           B  == Len(b)
<1>1. /\ A \in Nat /\ B \in Nat /\ Len(ab) = A + B
      /\ \A i \in 1 .. A : ab[i] = a[i]
      /\ \A i \in 1 .. A + B : i > A => ab[i] = b[i - A]
  BY ConcatProperties
<1>2. \A i : i \in Starts(ab) <=> /\ i \in 1 .. A + B - 1 /\ ab[i] = <<ab[i][1], "head">>
                                  /\ ab[i + 1] = <<ab[i][1], "tail">>
  <2> HIDE DEF ab, A, B
  <2>1. \A i : i \in Starts(ab) <=> /\ i \in 1 .. Len(ab) - 1 /\ ab[i] = <<ab[i][1], "head">>
                                    /\ ab[i + 1] = <<ab[i][1], "tail">>
    BY Zenon DEF Starts
  <2>2. 1 .. Len(ab) - 1 = 1 .. A + B - 1
    BY <1>1
  <2>3. QED
    BY <2>1, <2>2
<1>3. \A i : i \in Starts(a) <=> /\ i \in 1 .. A - 1 /\ a[i] = <<a[i][1], "head">>
                                 /\ a[i + 1] = <<a[i][1], "tail">>
  BY Zenon DEF Starts
<1>4. \A i : i \in Starts(b) <=> /\ i \in 1 .. B - 1 /\ b[i] = <<b[i][1], "head">>
                                 /\ b[i + 1] = <<b[i][1], "tail">>
  BY Zenon DEF Starts
<1>5. B > 0 => b[1][2] = "head"
  OBVIOUS
<1> HIDE DEF ab, A, B
<1>6. ASSUME NEW i \in 1 .. A - 1 PROVE /\ i \in Starts(a) <=> i \in Starts(ab)
                                        /\ i \in 1 .. A /\ ab[i] = a[i]
  <2>1. i \in 1 .. A /\ i + 1 \in 1 .. A /\ i \in 1 .. A + B - 1
    BY <1>1
  <2>2. ab[i] = a[i] /\ ab[i + 1] = a[i + 1]
    BY <1>1, <2>1
  <2>3. QED
    BY <1>2, <1>3, <2>1, <2>2
<1>7. ASSUME NEW j \in 1 .. B - 1 PROVE /\ j \in Starts(b) <=> A + j \in Starts(ab)
                                        /\ ab[A + j] = b[j]
  <2>1. /\ A + j \in 1 .. A + B /\ (A + j) + 1 \in 1 .. A + B /\ A + j \in 1 .. A + B - 1
        /\ (A + j) - A = j /\ ((A + j) + 1) - A = j + 1 /\ A + j > A /\ (A + j) + 1 > A
    BY <1>1
  <2>2. ab[A + j] = b[j] /\ ab[(A + j) + 1] = b[j + 1]
    BY <1>1, <2>1
  <2>3. QED
    BY <1>2, <1>4, <2>1, <2>2
<1>8. A \notin Starts(ab)
  <2>1. SUFFICES ASSUME A \in Starts(ab) PROVE FALSE
    OBVIOUS
  <2>2. A \in 1 .. A + B - 1 /\ ab[A + 1] = <<ab[A][1], "tail">>
    BY <1>2, <2>1
  <2>3. B > 0 /\ A + 1 \in 1 .. A + B /\ A + 1 > A /\ (A + 1) - A = 1
    BY <1>1, <2>2
  <2>4. b[1] = <<ab[A][1], "tail">>
    BY <1>1, <2>2, <2>3
  <2>5. QED
    BY <1>5, <2>3, <2>4
<1>9. ASSUME NEW i \in Starts(ab) PROVE i \in Starts(a) \/ (i - A) \in Starts(b)
  <2>1. i \in 1 .. A + B - 1 /\ i # A
    BY <1>2, <1>8, <1>9
  <2>2. CASE i < A
    <3>1. i \in 1 .. A - 1
      BY <1>1, <2>1, <2>2
    <3>2. QED
      BY <1>6, <1>9, <3>1
  <2>3. CASE i > A
    <3>1. (i - A) \in 1 .. B - 1 /\ A + (i - A) = i
      BY <1>1, <2>1, <2>3
    <3>2. QED
      BY <1>7, <1>9, <3>1
  <2>4. QED
    BY <1>1, <2>1, <2>2, <2>3
<1>10. QED
  BY <1>3, <1>4, <1>6, <1>7, <1>9 DEF ab, A, B

LEMMA SpelledTogether ==
  ASSUME NEW C, NEW a \in Seq(C), NEW b \in Seq(C), NEW S, NEW ms \in Seq(S), NEW ns \in Seq(S),
         Spells(a, ms), Spells(b, ns), b = <<>> \/ b[1][2] = "head"
  PROVE  Spells(a \o b, ms \o ns)
<1> DEFINE M == Len(ms)
           N == Len(ns)
           A == Len(a)
           ab == a \o b
           mn == ms \o ns
<1>1. PICK p : SpelledAt(a, ms, p)
  BY DEF Spells
<1>2. PICK q : SpelledAt(b, ns, q)
  BY DEF Spells
<1> DEFINE r == [n \in 1 .. M + N |-> IF n <= M THEN p[n] ELSE A + q[n - M]]
<1>3. /\ M \in Nat /\ N \in Nat /\ A \in Nat /\ Len(mn) = M + N
      /\ \A n \in 1 .. M : mn[n] = ms[n]
      /\ \A n \in 1 .. M + N : n > M => mn[n] = ns[n - M]
  BY ConcatProperties
<1>4. /\ \A i \in Starts(a) : i \in Starts(ab) /\ i \in 1 .. A - 1 /\ ab[i] = a[i]
      /\ \A j \in Starts(b) : A + j \in Starts(ab) /\ ab[A + j] = b[j]
      /\ \A i \in Starts(ab) : i \in Starts(a) \/ (i - A) \in Starts(b)
  BY StartsTogether
<1>5. /\ \A n \in 1 .. M : p[n] \in Nat
      /\ \A n, k \in 1 .. M : n < k => p[n] < p[k]
      /\ Starts(a) = {p[n] : n \in 1 .. M}
      /\ \A n \in 1 .. M : a[p[n]][1] = ms[n]
  BY <1>1 DEF SpelledAt, FirstPlaces
<1>6. /\ \A n \in 1 .. N : q[n] \in Nat
      /\ \A n, k \in 1 .. N : n < k => q[n] < q[k]
      /\ Starts(b) = {q[n] : n \in 1 .. N}
      /\ \A n \in 1 .. N : b[q[n]][1] = ns[n]
  BY <1>2 DEF SpelledAt, FirstPlaces
<1>7. \A j \in Starts(b) : j > 0
  BY DEF Starts
<1>8. \A i \in Starts(ab) : i \in Nat
  <2>1. ab \in Seq(C)
    BY ConcatProperties
  <2>2. QED
    BY <2>1 DEF Starts
<1> HIDE DEF M, N, A, ab, mn
<1>9. ASSUME NEW n \in 1 .. M + N
      PROVE  \/ n \in 1 .. M /\ r[n] = p[n]
             \/ n > M /\ (n - M) \in 1 .. N /\ r[n] = A + q[n - M]
  BY <1>3
<1>10. ASSUME NEW n \in 1 .. M + N
       PROVE  r[n] \in Starts(ab) /\ r[n] \in Nat /\ ab[r[n]][1] = mn[n]
  <2>1. CASE n \in 1 .. M /\ r[n] = p[n]
    <3>1. p[n] \in Starts(a) /\ p[n] \in Nat /\ a[p[n]][1] = ms[n] /\ mn[n] = ms[n]
      BY <1>3, <1>5, <2>1
    <3>2. p[n] \in Starts(ab) /\ ab[p[n]] = a[p[n]]
      BY <1>4, <3>1
    <3>3. QED
      BY <2>1, <3>1, <3>2
  <2>2. CASE n > M /\ (n - M) \in 1 .. N /\ r[n] = A + q[n - M]
    <3>1. q[n - M] \in Starts(b) /\ q[n - M] \in Nat /\ b[q[n - M]][1] = ns[n - M]
      BY <1>6, <2>2
    <3>2. mn[n] = ns[n - M]
      BY <1>3, <2>2
    <3>3. QED
      <4>1. A + q[n - M] \in Starts(ab) /\ ab[A + q[n - M]] = b[q[n - M]]
        BY <1>4, <3>1
      <4>3. A + q[n - M] \in Nat
        BY <1>8, <4>1
      <4>2. QED
        <5>1. r[n] \in Starts(ab) /\ r[n] \in Nat /\ ab[r[n]] = b[q[n - M]]
          BY <2>2, <4>1, <4>3
        <5>2. QED
          BY <3>1, <3>2, <5>1
  <2>3. QED
    BY <1>9, <2>1, <2>2
<1>11. ASSUME NEW n \in 1 .. M + N, NEW k \in 1 .. M + N, n < k
       PROVE  r[n] < r[k]
  <2>1. CASE k \in 1 .. M /\ r[k] = p[k]
    <3>1. n \in 1 .. M /\ r[n] = p[n]
      BY <1>3, <1>11, <1>9, <2>1
    <3>2. QED
      BY <1>5, <1>11, <2>1, <3>1
  <2>2. CASE k > M /\ (k - M) \in 1 .. N /\ r[k] = A + q[k - M]
    <3>1. CASE n \in 1 .. M /\ r[n] = p[n]
      <4>1. p[n] \in 1 .. A - 1
        BY <1>4, <1>5, <3>1
      <4>2. q[k - M] \in Nat
        BY <1>6, <2>2
      <4>3. A \in Nat
        BY <1>3
      <4>4. p[n] < A + q[k - M]
        BY <4>1, <4>2, <4>3
      <4>5. QED
        BY <2>2, <3>1, <4>4
    <3>2. CASE n > M /\ (n - M) \in 1 .. N /\ r[n] = A + q[n - M]
      <4>1. n - M < k - M
        BY <1>3, <1>11
      <4>2. q[n - M] < q[k - M] /\ q[n - M] \in Nat /\ q[k - M] \in Nat
        BY <1>6, <2>2, <3>2, <4>1
      <4>3. A \in Nat
        BY <1>3
      <4>4. A + q[n - M] < A + q[k - M]
        BY <4>2, <4>3
      <4>5. QED
        BY <2>2, <3>2, <4>4
    <3>3. QED
      BY <1>9, <3>1, <3>2
  <2>3. QED
    BY <1>9, <2>1, <2>2
<1>12. ASSUME NEW i \in Starts(ab) PROVE \E n \in 1 .. M + N : i = r[n]
  <2>1. i \in Nat /\ (i \in Starts(a) \/ (i - A) \in Starts(b))
    BY <1>4, <1>8, <1>12
  <2>2. CASE i \in Starts(a)
    <3>1. PICK n \in 1 .. M : i = p[n]
      BY <1>5, <2>2
    <3>2. n \in 1 .. M + N /\ r[n] = p[n]
      BY <1>3
    <3>3. QED
      BY <3>1, <3>2
  <2>3. CASE (i - A) \in Starts(b)
    <3>1. PICK n \in 1 .. N : i - A = q[n]
      BY <1>6, <2>3
    <3>2. M + n \in 1 .. M + N /\ ~(M + n <= M) /\ (M + n) - M = n
      BY <1>3
    <3>3. r[M + n] = A + q[n]
      BY <3>2
    <3>4. A + (i - A) = i
      BY <1>3, <2>1
    <3>5. QED
      BY <3>1, <3>2, <3>3, <3>4
  <2>4. QED
    BY <2>1, <2>2, <2>3
<1> HIDE DEF r
<1>13. SpelledAt(ab, mn, r)
  <2>1. Len(mn) = M + N
    BY <1>3
  <2>2. Starts(ab) = FirstPlaces(r, M + N)
    BY <1>10, <1>12 DEF FirstPlaces
  <2>3. QED
    BY <1>10, <1>11, <2>1, <2>2 DEF SpelledAt
<1>14. QED
  BY <1>13 DEF Spells, ab, mn

LEMMA Least ==
  ASSUME NEW T \in SUBSET Nat, T # {}
  PROVE  \E m \in T : \A n \in T : m =< n
<1>1. PICK m \in T : \A n \in T : <<n, m>> \notin OpToRel(<, Nat)
  BY NatLessThanWellFounded, WFMin, Zenon
<1>2. ASSUME NEW n \in T PROVE m =< n
  <2>1. <<n, m>> \notin {ss \in Nat \X Nat : ss[1] < ss[2]}
    BY <1>1 DEF OpToRel
  <2>2. n \in Nat /\ m \in Nat
    OBVIOUS
  <2>3. QED
    BY <2>1, <2>2
<1>3. QED
  BY <1>2

\* A text cut short spells the messages before the cut.
LEMMA SpelledBefore ==
  ASSUME NEW C, NEW text \in Seq(C), NEW S, NEW ms \in Seq(S), Spells(text, ms),
         NEW L \in 0 .. Len(text)
  PROVE  \E n \in 0 .. Len(ms) : /\ Spells(SubSeq(text, 1, L), SubSeq(ms, 1, n))
                                 /\ L = Len(text) => n = Len(ms)
<1>1. CASE L = Len(text)
  <2>1. SubSeq(text, 1, L) = text /\ SubSeq(ms, 1, Len(ms)) = ms /\ Len(ms) \in 0 .. Len(ms)
    BY <1>1, SubSeqFull
  <2>2. QED
    BY <2>1
<1>2. CASE L # Len(text)
  <2> DEFINE N == Len(ms)
             T == Len(text)
             cut == SubSeq(text, 1, L)
  <2>1. PICK p : SpelledAt(text, ms, p)
    BY DEF Spells
  <2> DEFINE U == {k \in 0 .. N : \A a \in 1 .. N : a > k => p[a] >= L}
  <2>2. /\ N \in Nat /\ T \in Nat /\ L \in Nat /\ L < T
        /\ \A a \in 1 .. N : p[a] \in Nat
        /\ \A a, b \in 1 .. N : a < b => p[a] < p[b]
        /\ Starts(text) = FirstPlaces(p, N)
        /\ \A a \in 1 .. N : text[p[a]][1] = ms[a]
    BY <1>2, <2>1 DEF SpelledAt
  <2>3. /\ Len(cut) = L
        /\ \A i \in 1 .. L : cut[i] = text[i]
    <3>1. \A i \in 1 .. L : text[i] \in C
      BY <2>2
    <3>2. QED
      BY <2>2, <3>1, SubSeqProperties
  <2>4. \A i : i \in Starts(text) <=> /\ i \in 1 .. T - 1 /\ text[i] = <<text[i][1], "head">>
                                      /\ text[i + 1] = <<text[i][1], "tail">>
    BY DEF Starts
  <2>5. \A i : i \in Starts(cut) <=> /\ i \in 1 .. L - 1 /\ cut[i] = <<cut[i][1], "head">>
                                     /\ cut[i + 1] = <<cut[i][1], "tail">>
    BY <2>3 DEF Starts
  <2> HIDE DEF N, T, cut
  <2>6. ASSUME NEW i PROVE i \in Starts(cut) <=> i \in Starts(text) /\ i =< L - 1
    <3>1. CASE i \in 1 .. L - 1
      <4>1. i \in 1 .. L /\ i + 1 \in 1 .. L /\ i \in 1 .. T - 1 /\ i =< L - 1
        BY <2>2, <3>1
      <4>2. cut[i] = text[i] /\ cut[i + 1] = text[i + 1]
        BY <2>3, <4>1
      <4>3. QED
        BY <2>4, <2>5, <3>1, <4>1, <4>2
    <3>2. CASE i \notin 1 .. L - 1
      <4>1. i \in Starts(text) => ~(i =< L - 1)
        BY <2>2, <2>4, <3>2
      <4>2. QED
        BY <2>5, <3>2, <4>1
    <3>3. QED
      BY <3>1, <3>2
  <2>7. U \in SUBSET Nat /\ U # {}
    <3>1. N \in U
      BY <2>2
    <3>2. \A k \in U : k \in Nat
      BY <2>2
    <3>3. QED
      BY <3>1, <3>2
  <2>8. PICK n \in U : \A k \in U : n =< k
    BY <2>7, Least
  <2>9. n \in 0 .. N /\ \A a \in 1 .. N : a > n => p[a] >= L
    BY <2>8
  <2>10. ASSUME NEW a \in 1 .. N, a =< n PROVE p[a] =< L - 1
    <3>1. n \in 1 .. N /\ n - 1 \in 0 .. N /\ ~(n =< n - 1)
      BY <2>2, <2>9, <2>10
    <3>2. n - 1 \notin U
      BY <2>8, <3>1
    <3>3. PICK b \in 1 .. N : b > n - 1 /\ ~(p[b] >= L)
      BY <3>1, <3>2
    <3>4. b = n
      BY <2>2, <2>9, <3>1, <3>3
    <3>5. p[n] \in Nat /\ p[a] \in Nat /\ ~(p[n] >= L)
      BY <2>2, <3>1, <3>3, <3>4
    <3>6. a < n => p[a] < p[n]
      BY <2>2, <3>1
    <3>7. QED
      BY <2>2, <2>10, <3>1, <3>5, <3>6
  <2>11. Starts(cut) = FirstPlaces(p, n)
    <3>1. ASSUME NEW a \in 1 .. N PROVE p[a] =< L - 1 <=> a \in 1 .. n
      <4>1. a > n => ~(p[a] =< L - 1)
        BY <2>2, <2>9
      <4>2. QED
        BY <2>2, <2>9, <2>10, <4>1
    <3>2. \A a \in 1 .. n : a \in 1 .. N
      BY <2>2, <2>9
    <3>3. \A i : i \in Starts(cut) <=> \E a \in 1 .. n : i = p[a]
      BY <2>2, <2>6, <3>1, <3>2 DEF FirstPlaces
    <3>4. QED
      BY <3>3 DEF FirstPlaces
  <2>12. Len(SubSeq(ms, 1, n)) = n /\ \A a \in 1 .. n : SubSeq(ms, 1, n)[a] = ms[a]
    <3>1. n \in Int /\ \A a \in 1 .. n : ms[a] \in S
      BY <2>2, <2>9 DEF N
    <3>2. QED
      BY <2>2, <2>9, <3>1, SubSeqProperties
  <2>13. ASSUME NEW a \in 1 .. n PROVE cut[p[a]][1] = ms[a]
    <3>1. a \in 1 .. N /\ p[a] \in Starts(text)
      BY <2>2, <2>9 DEF FirstPlaces
    <3>2. p[a] =< L - 1 /\ p[a] \in 1 .. L
      BY <2>2, <2>4, <2>9, <2>10, <3>1
    <3>3. QED
      BY <2>2, <2>3, <3>1, <3>2
  <2>14. SpelledAt(cut, SubSeq(ms, 1, n), p)
    <3>1. \A a \in 1 .. n : a \in 1 .. N
      BY <2>2, <2>9
    <3>2. QED
      BY <2>2, <2>11, <2>12, <2>13, <3>1 DEF SpelledAt
  <2>15. QED
    BY <1>2, <2>9, <2>14 DEF Spells, cut, N
<1>3. QED
  BY <1>1, <1>2


\* The characters of the log's texts.
Chars == (Messages \cup {"newline", "garbage"}) \X {"head", "tail"}

HeadFirst(text) == text = <<>> \/ text[1][2] = "head"

LEMMA NothingSpelled ==
  ASSUME NEW text, text = <<>> \/ \E c : text = <<c>>
  PROVE  Spells(text, <<>>)
<1>1. Starts(text) = {}
  <2>1. Len(text) = 0 \/ Len(text) = 1
    OBVIOUS
  <2>2. CASE Len(text) = 0
    BY <2>2 DEF Starts
  <2>3. CASE Len(text) = 1
    BY <2>3 DEF Starts
  <2>4. QED
    BY <2>1, <2>2, <2>3
<1>2. SpelledAt(text, <<>>, <<>>)
  BY <1>1 DEF SpelledAt, FirstPlaces
<1>3. QED
  BY <1>2 DEF Spells

LEMMA TextSpelled ==
  ASSUME NEW m \in Messages
  PROVE  Spells(MessageText(m), <<m>>) /\ MessageText(m) \in Seq(Chars) /\ HeadFirst(MessageText(m)) /\ Len(MessageText(m)) = 2
<1> DEFINE p == <<1>>
<1>1. Starts(MessageText(m)) = {1}
  BY DEF Starts, MessageText
<1>2. FirstPlaces(p, 1) = {1}
  BY DEF FirstPlaces
<1>3. MessageText(m)[1][1] = m /\ Len(<<m>>) = 1 /\ <<m>>[1] = m
  BY DEF MessageText
<1>4. p[1] = 1
  OBVIOUS
<1> HIDE DEF p
<1>5. SpelledAt(MessageText(m), <<m>>, p)
  BY <1>1, <1>2, <1>3, <1>4 DEF SpelledAt
<1>6. <<m, "head">> \in Chars /\ <<m, "tail">> \in Chars
  BY DEF Chars
<1>7. QED
  BY <1>5, <1>6 DEF Spells, MessageText, HeadFirst

LEMMA MarkSpelled ==
  ASSUME NEW text \in {<<>>, <<Newline>>, <<Garbage>>}
  PROVE  /\ Spells(text, <<>>) /\ text \in Seq(Chars) /\ HeadFirst(text)
         /\ Len(text) =< 1 /\ Len(text) \in Nat
<1>1. Newline \in Chars /\ Garbage \in Chars /\ Newline[2] = "head" /\ Garbage[2] = "head"
  BY DEF Newline, Garbage, Chars
<1>2. Spells(text, <<>>)
  BY NothingSpelled
<1>3. CASE text = <<>>
  BY <1>2, <1>3 DEF HeadFirst
<1>4. CASE text = <<Newline>>
  BY <1>1, <1>2, <1>4 DEF HeadFirst
<1>5. CASE text = <<Garbage>>
  BY <1>1, <1>2, <1>5 DEF HeadFirst
<1>6. QED
  BY <1>3, <1>4, <1>5

\* Texts put together: the messages follow each other.
LEMMA TogetherSpelled ==
  ASSUME NEW a \in Seq(Chars), NEW b \in Seq(Chars), NEW ms \in Seq(Messages), NEW ns \in Seq(Messages),
         Spells(a, ms), Spells(b, ns), HeadFirst(a), HeadFirst(b)
  PROVE  /\ Spells(a \o b, ms \o ns) /\ HeadFirst(a \o b)
         /\ a \o b \in Seq(Chars) /\ ms \o ns \in Seq(Messages)
         /\ Len(a \o b) = Len(a) + Len(b)
<1>1. Spells(a \o b, ms \o ns)
  BY SpelledTogether DEF HeadFirst
<1>2. CASE a = <<>>
  <2>1. a \o b = b
    BY <1>2
  <2>2. QED
    BY <1>1, <2>1, ConcatProperties
<1>3. CASE a # <<>>
  <2>1. 1 \in 1 .. Len(a)
    BY <1>3
  <2>2. (a \o b)[1] = a[1]
    BY <2>1, ConcatProperties
  <2>3. a[1][2] = "head"
    BY <1>3 DEF HeadFirst
  <2>4. HeadFirst(a \o b)
    BY <2>2, <2>3 DEF HeadFirst
  <2>5. QED
    BY <1>1, <2>4, ConcatProperties
<1>4. QED
  BY <1>2, <1>3

\* A separator, if any, spells nothing.
LEMMA SeparatedSpelled ==
  ASSUME NEW a \in Seq(Chars), NEW b \in Seq(Chars), NEW ms \in Seq(Messages), NEW ns \in Seq(Messages),
         Spells(a, ms), Spells(b, ns), HeadFirst(a), HeadFirst(b),
         NEW separator \in {<<>>, <<Newline>>}
  PROVE  LET t == a \o separator \o b
         IN  /\ Spells(t, ms \o ns) /\ HeadFirst(t) /\ t \in Seq(Chars) /\ ms \o ns \in Seq(Messages)
             /\ Len(t) =< Len(a) + 1 + Len(b)
<1>1. /\ Spells(separator, <<>>) /\ separator \in Seq(Chars) /\ HeadFirst(separator)
      /\ Len(separator) =< 1 /\ Len(separator) \in Nat
  BY MarkSpelled
<1>2. <<>> \in Seq(Messages) /\ ms \o <<>> = ms
  BY ConcatEmptySeq
<1>3. /\ Spells(a \o separator, ms) /\ HeadFirst(a \o separator)
      /\ a \o separator \in Seq(Chars) /\ Len(a \o separator) = Len(a) + Len(separator)
  <2>1. /\ Spells(a \o separator, ms \o <<>>) /\ HeadFirst(a \o separator)
        /\ a \o separator \in Seq(Chars) /\ Len(a \o separator) = Len(a) + Len(separator)
    BY <1>1, <1>2, TogetherSpelled
  <2>2. QED
    BY <1>2, <2>1
<1>4. Len(separator) =< 1 /\ Len(separator) \in Nat /\ Len(a) \in Nat /\ Len(b) \in Nat
  <2>1. Len(a) \in Nat /\ Len(b) \in Nat
    OBVIOUS
  <2>2. QED
    BY <1>1, <2>1
<1>5. LET t == a \o separator \o b
      IN  /\ Spells(t, ms \o ns) /\ HeadFirst(t) /\ t \in Seq(Chars) /\ ms \o ns \in Seq(Messages)
          /\ Len(t) = Len(a \o separator) + Len(b)
  BY <1>3, TogetherSpelled
<1>6. QED
  BY <1>3, <1>4, <1>5


-----------------------------------------------------------------------------
Early == {"capture", "log", "devices"}

LogTypes ==
  /\ logged \in Seq(Messages) /\ head \in Seq(Devices)
  /\ \A i, j \in 1 .. Len(head) : head[i] = head[j] => i = j

\* kernel_main captures, logs, adds the devices, and flushes.
LogPhases ==
  /\ main = "capture" => capturing = FALSE /\ kmsglog = <<>> /\ logged = <<>>
  /\ main \in {"log", "devices"} => capturing = TRUE
  /\ main \in {"capture", "log"} => head = <<>>

\* Until the flush the file spells what was logged, and no device heard of it.
Captured ==
  main \in Early =>
    /\ kmsglog \in Seq(Chars) /\ Spells(kmsglog, logged) /\ HeadFirst(kmsglog)
    /\ Len(kmsglog) =< 3 * Len(logged)
    /\ got = [d \in Devices |-> <<>>]

Delivered ==
  \A d \in Devices :
    \E n \in 0 .. Len(logged) :
      /\ Whole(got[d]) = SubSeq(logged, 1, n)
      /\ 3 * Len(logged) <= LOG_BUFFER => n = Len(logged)

Kept == main \notin Early => Delivered /\ FileKeepsAll

LogInv == LogTypes /\ LogPhases /\ Captured /\ Kept

LEMMA LogInvInit == CInit => LogInv
<1>1. SUFFICES ASSUME CInit PROVE LogInv
  OBVIOUS
<1>2. /\ main = "capture" /\ capturing = FALSE /\ kmsglog = <<>> /\ head = <<>> /\ logged = <<>>
      /\ got = [d \in Devices |-> <<>>]
  BY <1>1 DEF CInit, LogInit
<1>3. LogTypes /\ LogPhases /\ Kept
  BY <1>2 DEF LogTypes, LogPhases, Kept, Early
<1>4. Spells(kmsglog, logged)
  BY <1>2, NothingSpelled
<1>5. kmsglog \in Seq(Chars) /\ HeadFirst(kmsglog) /\ Len(kmsglog) =< 3 * Len(logged)
  BY <1>2 DEF HeadFirst
<1>6. QED
  BY <1>2, <1>3, <1>4, <1>5 DEF LogInv, Captured

\* A step that leaves the log alone and does not leave the early phases.
LEMMA LogQuiet ==
  ASSUME LogInv, UNCHANGED logvars,
         \/ main' = main
         \/ main = "log" /\ main' = "devices"
         \/ main \notin Early /\ main' \notin Early
  PROVE  LogInv'
<1>1. /\ capturing' = capturing /\ kmsglog' = kmsglog /\ head' = head /\ got' = got
      /\ logged' = logged
  BY DEF logvars
<1>2. LogTypes'
  BY <1>1 DEF LogInv, LogTypes
<1>3. /\ main' = "capture" => main = "capture"
      /\ main' \in {"log", "devices"} => main \in {"log", "devices"}
      /\ main' \in {"capture", "log"} => main \in {"capture", "log"}
      /\ main' \in Early <=> main \in Early
  BY DEF Early
<1>4. LogPhases'
  BY <1>1, <1>3 DEF LogInv, LogPhases
<1>5. Captured'
  BY <1>1, <1>3 DEF LogInv, Captured, Starts, Spells, SpelledAt, HeadFirst
<1>6. Kept'
  BY <1>1, <1>3 DEF LogInv, Kept, Delivered, FileKeepsAll
<1>7. QED
  BY <1>2, <1>4, <1>5, <1>6 DEF LogInv

\* A message logged goes to the file, behind at most a newline.
LEMMA LogEarlyPreserves ==
  ASSUME LogInv, main = "log", main' = "log", LogEarly
  PROVE  LogInv'
<1>1. PICK m \in Messages : capturing /\ head = <<>> /\ log(m)
  BY DEF LogEarly
<1>2. /\ logged \in Seq(Messages) /\ capturing = TRUE /\ kmsglog \in Seq(Chars)
      /\ Spells(kmsglog, logged) /\ HeadFirst(kmsglog) /\ Len(kmsglog) =< 3 * Len(logged)
      /\ got = [d \in Devices |-> <<>>]
  BY DEF LogInv, LogTypes, LogPhases, Captured, Early
<1>3. /\ Appended(MessageText(m)) /\ propagate(MessageText(m)) /\ logged' = Append(logged, m)
      /\ capturing' = capturing /\ head' = head
  BY <1>1 DEF log, write_log
<1>4. PICK separator \in {<<>>, <<Newline>>} : kmsglog' = kmsglog \o separator \o MessageText(m)
  BY <1>3 DEF Appended
<1>5. /\ Spells(MessageText(m), <<m>>) /\ MessageText(m) \in Seq(Chars) /\ HeadFirst(MessageText(m)) /\ Len(MessageText(m)) = 2
      /\ <<m>> \in Seq(Messages)
  BY TextSpelled
<1>6. /\ Spells(kmsglog', logged \o <<m>>) /\ HeadFirst(kmsglog') /\ kmsglog' \in Seq(Chars)
      /\ Len(kmsglog') =< Len(kmsglog) + 1 + 2
  BY <1>2, <1>4, <1>5, SeparatedSpelled
<1>7. logged' = logged \o <<m>> /\ logged' \in Seq(Messages) /\ Len(logged') = Len(logged) + 1
  BY <1>2, <1>3, AppendIsConcat, AppendProperties
<1>8. Len(kmsglog') =< 3 * Len(logged')
  <2>1. Len(kmsglog) \in Nat /\ Len(kmsglog') \in Nat /\ Len(logged) \in Nat
    BY <1>2, <1>6
  <2>2. QED
    BY <1>2, <1>6, <1>7, <2>1
<1>9. got' = [d \in Devices |-> <<>>]
  <2>1. \A d : ~Contains(head, d)
    BY <1>1 DEF Contains
  <2>2. got' = [d \in Devices |-> got[d]]
    BY <1>3, <2>1 DEF propagate
  <2>3. QED
    BY <1>2, <2>2
<1>10. (LogTypes /\ LogPhases)'
  BY <1>1, <1>2, <1>3, <1>7 DEF LogInv, LogTypes, LogPhases
<1>11. Spells(kmsglog', logged')
  BY <1>6, <1>7
<1>12. Captured'
  BY <1>6, <1>8, <1>9, <1>11 DEF Captured, Starts, Spells, SpelledAt, HeadFirst
<1>13. Kept'
  BY DEF Kept, Early
<1>14. QED
  BY <1>10, <1>12, <1>13 DEF LogInv

LEMMA AddDevicePreserves ==
  ASSUME LogInv, main = "devices", main' = "devices", AddDevice
  PROVE  LogInv'
<1>1. PICK d \in Devices : capturing /\ addLogDevice(d)
  BY DEF AddDevice
<1>2. /\ ~Contains(head, d) /\ head' = <<d>> \o head
      /\ capturing' = capturing /\ kmsglog' = kmsglog /\ got' = got /\ logged' = logged
  BY <1>1 DEF addLogDevice
<1>3. head \in Seq(Devices) /\ \A i, j \in 1 .. Len(head) : head[i] = head[j] => i = j
  BY DEF LogInv, LogTypes
<1>4. /\ head' \in Seq(Devices) /\ Len(head') = 1 + Len(head) /\ head'[1] = d
      /\ \A i \in 1 .. 1 + Len(head) : i > 1 => head'[i] = head[i - 1]
  <2>1. <<d>> \in Seq(Devices) /\ Len(<<d>>) = 1 /\ <<d>>[1] = d
    OBVIOUS
  <2>2. /\ Len(<<d>> \o head) = Len(<<d>>) + Len(head)
        /\ \A i \in 1 .. Len(<<d>>) + Len(head) :
             (<<d>> \o head)[i] = IF i <= Len(<<d>>) THEN <<d>>[i] ELSE head[i - Len(<<d>>)]
        /\ <<d>> \o head \in Seq(Devices)
    BY <1>3, <2>1, ConcatProperties
  <2>3. Len(head) \in Nat
    BY <1>3
  <2>4. QED
    BY <1>2, <2>1, <2>2, <2>3
<1>5. ASSUME NEW i \in 1 .. Len(head'), NEW j \in 1 .. Len(head'), head'[i] = head'[j]
      PROVE  i = j
  <2>1. Len(head) \in Nat /\ \A n \in 1 .. Len(head) : head[n] # d
    BY <1>2, <1>3 DEF Contains
  <2>2. \A n \in 1 .. 1 + Len(head) : n = 1 \/ (n > 1 /\ n - 1 \in 1 .. Len(head) /\ n \in Nat)
    BY <2>1
  <2>3. CASE i = 1
    <3>1. ~(j > 1 /\ j - 1 \in 1 .. Len(head))
      BY <1>4, <1>5, <2>1, <2>3
    <3>2. QED
      BY <1>4, <2>2, <2>3, <3>1
  <2>4. CASE j = 1
    <3>1. ~(i > 1 /\ i - 1 \in 1 .. Len(head))
      BY <1>4, <1>5, <2>1, <2>4
    <3>2. QED
      BY <1>4, <2>2, <2>4, <3>1
  <2>5. CASE i # 1 /\ j # 1
    <3>1. /\ i > 1 /\ i - 1 \in 1 .. Len(head) /\ i \in Nat
          /\ j > 1 /\ j - 1 \in 1 .. Len(head) /\ j \in Nat
      BY <1>4, <2>2, <2>5
    <3>2. head[i - 1] = head[j - 1]
      BY <1>4, <1>5, <3>1
    <3>3. i - 1 = j - 1
      BY <1>3, <3>1, <3>2
    <3>4. QED
      BY <3>1, <3>3
  <2>6. QED
    BY <2>3, <2>4, <2>5
<1>6. (LogTypes /\ LogPhases)'
  BY <1>2, <1>4, <1>5 DEF LogInv, LogTypes, LogPhases
<1>7. Captured'
  BY <1>2 DEF LogInv, Captured, Early, Starts, Spells, SpelledAt, HeadFirst
<1>8. Kept'
  BY DEF Kept, Early
<1>9. QED
  BY <1>6, <1>7, <1>8 DEF LogInv

\* With as many devices as there are, every device is in the list.
LEMMA AllAdded ==
  ASSUME LogTypes, Len(head) = Cardinality(Devices), NEW d \in Devices
  PROVE  Contains(head, d)
<1>1. /\ head \in Seq(Devices) /\ \A i, j \in 1 .. Len(head) : head[i] = head[j] => i = j
      /\ Len(head) \in Nat
  BY DEF LogTypes
<1>2. Cardinality(FirstPlaces(head, Len(head))) = Len(head)
  BY <1>1, PlacesCounted
<1>3. FirstPlaces(head, Len(head)) \in SUBSET Devices
  BY <1>1 DEF FirstPlaces
<1>4. FirstPlaces(head, Len(head)) = Devices
  BY <1>2, <1>3, LogAssumption, FS_Subset
<1>5. QED
  BY <1>4 DEF FirstPlaces, Contains

\* What flush reads, and what it is followed by, spells the first messages:
\* all of them when the buffer holds the file.
LEMMA BufferedSpelled ==
  ASSUME LogInv, main \in Early, NEW behind \in {<<>>, <<Garbage>>}
  PROVE  LET t == Buffered(kmsglog) \o behind
         IN  \E n \in 0 .. Len(logged) :
               /\ Spells(t, SubSeq(logged, 1, n)) /\ HeadFirst(t) /\ t \in Seq(Chars)
               /\ SubSeq(logged, 1, n) \in Seq(Messages)
               /\ 3 * Len(logged) <= LOG_BUFFER => n = Len(logged)
<1> DEFINE L == Min({Len(kmsglog), LOG_BUFFER})
           b == Buffered(kmsglog)
<1>1. /\ logged \in Seq(Messages) /\ kmsglog \in Seq(Chars) /\ Spells(kmsglog, logged)
      /\ HeadFirst(kmsglog) /\ Len(kmsglog) =< 3 * Len(logged)
  BY DEF LogInv, LogTypes, Captured
<1>2. Len(kmsglog) \in Nat /\ Len(logged) \in Nat /\ LOG_BUFFER \in Nat
  BY <1>1, LogAssumption
<1>3. /\ L \in 0 .. Len(kmsglog)
      /\ 3 * Len(logged) <= LOG_BUFFER => L = Len(kmsglog)
  <2>1. /\ L =< Len(kmsglog) /\ L =< LOG_BUFFER
        /\ (L = Len(kmsglog) \/ L = LOG_BUFFER)
    <3>1. Len(kmsglog) \in Int /\ LOG_BUFFER \in Int
      BY <1>2
    <3>2. QED
      BY <3>1, SmallerOf
  <2> HIDE DEF L
  <2>2. QED
    BY <1>1, <1>2, <2>1
<1>4. b = SubSeq(kmsglog, 1, L)
  BY DEF Buffered
<1> HIDE DEF L, b
<1>5. PICK n \in 0 .. Len(logged) : /\ Spells(b, SubSeq(logged, 1, n))
                                    /\ L = Len(kmsglog) => n = Len(logged)
  BY <1>1, <1>3, <1>4, SpelledBefore
<1>6. b \in Seq(Chars) /\ HeadFirst(b)
  <2>1. L \in Int /\ \A i \in 1 .. L : kmsglog[i] \in Chars
    BY <1>1, <1>2, <1>3
  <2>2. /\ b \in Seq(Chars) /\ Len(b) = IF 1 <= L THEN L - 1 + 1 ELSE 0
        /\ \A i \in 1 .. L - 1 + 1 : b[i] = kmsglog[1 + i - 1]
    BY <1>4, <2>1, SubSeqProperties
  <2>3. CASE L = 0
    <3>1. b = <<>>
      BY <2>2, <2>3
    <3>2. QED
      BY <2>2, <3>1 DEF HeadFirst
  <2>4. CASE L > 0
    <3>1. 1 \in 1 .. L - 1 + 1 /\ 1 + 1 - 1 = 1 /\ Len(kmsglog) > 0
      BY <1>2, <1>3, <2>4
    <3>2. b[1] = kmsglog[1] /\ kmsglog # <<>>
      BY <2>2, <3>1
    <3>3. QED
      BY <1>1, <2>2, <3>2 DEF HeadFirst
  <2>5. QED
    BY <1>3, <2>3, <2>4
<1>7. SubSeq(logged, 1, n) \in Seq(Messages)
  <2>1. n \in Int /\ \A i \in 1 .. n : logged[i] \in Messages
    BY <1>1, <1>2
  <2>2. QED
    BY <2>1, SubSeqProperties
<1>8. Spells(behind, <<>>) /\ behind \in Seq(Chars) /\ HeadFirst(behind)
  BY MarkSpelled
<1>9. <<>> \in Seq(Messages) /\ SubSeq(logged, 1, n) \o <<>> = SubSeq(logged, 1, n)
  BY <1>7, ConcatEmptySeq
<1>10. /\ Spells(b \o behind, SubSeq(logged, 1, n) \o <<>>) /\ HeadFirst(b \o behind)
       /\ b \o behind \in Seq(Chars)
  BY <1>5, <1>6, <1>7, <1>8, <1>9, TogetherSpelled
<1>11. 3 * Len(logged) <= LOG_BUFFER => n = Len(logged)
  BY <1>3, <1>5
<1>12. QED
  BY <1>7, <1>9, <1>10, <1>11 DEF b


LEMMA FlushPreserves ==
  ASSUME LogInv, main = "devices", main' = "stage2", Flush
  PROVE  LogInv'
<1>1. /\ capturing = TRUE /\ Len(head) = Cardinality(Devices) /\ flush
      /\ main \in Early /\ main' \notin Early
  BY DEF Flush, LogInv, LogPhases, Early
<1>2. /\ LogTypes /\ logged \in Seq(Messages) /\ kmsglog \in Seq(Chars) /\ Spells(kmsglog, logged)
      /\ HeadFirst(kmsglog) /\ got = [d \in Devices |-> <<>>]
  BY <1>1 DEF LogInv, LogTypes, Captured
<1>3. head' = head /\ logged' = logged /\ capturing' = FALSE
  BY <1>1 DEF flush
<1>4. (LogTypes /\ LogPhases /\ Captured)'
  BY <1>1, <1>2, <1>3 DEF LogTypes, LogPhases, Captured, Early
<1>5. Len(logged) \in Nat /\ SubSeq(logged, 1, 0) = <<>> /\ SubSeq(logged, 1, Len(logged)) = logged
  BY <1>2, SubSeqFull, SubSeqEmpty
<1>6. CASE kmsglog = <<>>
  <2>1. kmsglog' = kmsglog /\ got' = got
    BY <1>1, <1>6 DEF flush
  <2>2. Whole(kmsglog) = logged /\ Whole(<<>>) = <<>>
    <3>1. Spells(<<>>, <<>>) /\ <<>> \in Seq(Messages)
      BY NothingSpelled
    <3>2. QED
      BY <1>2, <3>1, WholeSpelled
  <2>3. logged = <<>>
    BY <1>6, <2>2
  <2>4. ASSUME NEW d \in Devices PROVE got'[d] = <<>>
    BY <1>2, <2>1
  <2>5. Delivered'
    <3>1. ASSUME NEW d \in Devices
          PROVE  \E n \in 0 .. Len(logged') :
                   /\ Whole(got'[d]) = SubSeq(logged', 1, n)
                   /\ 3 * Len(logged') <= LOG_BUFFER => n = Len(logged')
      <4>1. Whole(got'[d]) = SubSeq(logged', 1, 0) /\ Len(logged') = 0
        BY <1>3, <1>5, <2>2, <2>3, <2>4
      <4>2. 0 \in 0 .. Len(logged')
        BY <4>1
      <4>3. QED
        BY <4>1, <4>2
    <3>2. QED
      BY <3>1 DEF Delivered
  <2>6. FileKeepsAll'
    <3>1. Whole(kmsglog') = logged' /\ SubSeq(logged', 1, Len(logged')) = logged' /\ Len(logged') \in Nat
      BY <1>3, <1>5, <2>1, <2>2
    <3>2. QED
      BY <3>1 DEF FileKeepsAll
  <2>7. QED
    BY <1>4, <2>5, <2>6 DEF LogInv, Kept
<1>7. CASE kmsglog # <<>>
  <2>1. PICK behind \in {<<>>, <<Garbage>>} : write_log(Buffered(kmsglog) \o behind)
    BY <1>1, <1>7 DEF flush
  <2> DEFINE t == Buffered(kmsglog) \o behind
  <2>2. PICK n \in 0 .. Len(logged) :
          /\ Spells(t, SubSeq(logged, 1, n)) /\ HeadFirst(t) /\ t \in Seq(Chars)
          /\ SubSeq(logged, 1, n) \in Seq(Messages)
          /\ 3 * Len(logged) <= LOG_BUFFER => n = Len(logged)
    BY <1>1, BufferedSpelled
  <2>3. Appended(t) /\ propagate(t)
    BY <1>1, <2>1 DEF write_log
  <2> HIDE DEF t
  <2>4. Whole(t) = SubSeq(logged, 1, n)
    BY <2>2, WholeSpelled
  <2>5. ASSUME NEW d \in Devices PROVE got'[d] = t
    <3>1. Contains(head, d)
      BY <1>1, <1>2, AllAdded
    <3>2. got'[d] = got[d] \o t
      BY <2>3, <3>1 DEF propagate
    <3>3. got[d] = <<>>
      BY <1>2
    <3>4. QED
      BY <2>2, <3>2, <3>3, ConcatEmptySeq
  <2>6. Delivered'
    <3>1. ASSUME NEW d \in Devices
          PROVE  \E k \in 0 .. Len(logged') :
                   /\ Whole(got'[d]) = SubSeq(logged', 1, k)
                   /\ 3 * Len(logged') <= LOG_BUFFER => k = Len(logged')
      BY <1>3, <2>2, <2>4, <2>5
    <3>2. QED
      BY <3>1 DEF Delivered
  <2>7. FileKeepsAll'
    <3>1. PICK separator \in {<<>>, <<Newline>>} : kmsglog' = kmsglog \o separator \o t
      BY <2>3 DEF Appended
    <3> DEFINE ms == SubSeq(logged, 1, n)
    <3>2. /\ Spells(kmsglog', logged \o ms) /\ logged \o ms \in Seq(Messages)
      BY <1>2, <2>2, <3>1, SeparatedSpelled
    <3>3. Whole(kmsglog') = logged \o ms
      BY <3>2, WholeSpelled
    <3>4. ms \in Seq(Messages)
      BY <2>2
    <3> HIDE DEF ms
    <3>5. Len(logged \o ms) = Len(logged) + Len(ms) /\ Len(ms) \in Nat
      BY <1>2, <3>4, ConcatProperties
    <3>6. SubSeq(logged \o ms, 1, Len(logged)) = logged
      <4>1. CASE Len(logged) = 0
        <5>1. logged = <<>>
          BY <1>2, <4>1
        <5>2. QED
          BY <4>1, <5>1, SubSeqEmpty
      <4>2. CASE Len(logged) > 0
        <5>1. 1 \in 1 .. Len(logged) /\ Len(logged) \in 1 .. Len(logged)
          BY <1>5, <4>2
        <5>2. QED
          BY <1>2, <1>5, <3>4, <5>1, SubSeqOfConcat1
      <4>3. QED
        BY <1>5, <4>1, <4>2
    <3>7. Len(logged \o ms) >= Len(logged)
      BY <1>5, <3>5
    <3>8. QED
      BY <1>3, <3>3, <3>6, <3>7 DEF FileKeepsAll
  <2>8. QED
    BY <1>4, <2>6, <2>7 DEF LogInv, Kept
<1>8. QED
  BY <1>6, <1>7

LEMMA LogInvStep == LogInv /\ [CNext]_cvars => LogInv'
<1>1. SUFFICES ASSUME LogInv, [CNext]_cvars PROVE LogInv'
  OBVIOUS
<1>2. ASSUME At("capture", "log"), Capture PROVE LogInv'
  <2>1. /\ main = "capture" /\ main' = "log" /\ capturing' = TRUE
        /\ kmsglog' = kmsglog /\ head' = head /\ got' = got /\ logged' = logged
    BY <1>2 DEF At, Capture, capture
  <2>2. (LogTypes /\ LogPhases /\ Kept)'
    BY <1>1, <2>1 DEF LogInv, LogTypes, LogPhases, Kept, Early
  <2>3. Captured'
    BY <1>1, <2>1 DEF LogInv, Captured, Early, Starts, Spells, SpelledAt, HeadFirst
  <2>4. QED
    BY <2>2, <2>3 DEF LogInv
<1>3. CASE LogPhase
  <2>1. CASE At("capture", "log") /\ Capture
    BY <1>2, <2>1
  <2>2. CASE At("log", "log") /\ LogEarly
    BY <1>1, <2>2, LogEarlyPreserves DEF At
  <2>3. CASE At("devices", "devices") /\ AddDevice
    BY <1>1, <2>3, AddDevicePreserves DEF At
  <2>4. CASE At("devices", "stage2") /\ Flush
    BY <1>1, <2>4, FlushPreserves DEF At
  <2>5. QED
    BY <1>3, <2>1, <2>2, <2>3, <2>4 DEF LogPhase
<1>4. CASE graphics_initalize_stage1
  <2>1. UNCHANGED logvars /\ main = "log" /\ main' = "devices"
    BY <1>4 DEF graphics_initalize_stage1, At
  <2>2. QED
    BY <1>1, <2>1, LogQuiet
<1>5. CASE graphics_initalize_stage2 \/ terminal_delete \/ initalizeWindowSystem
  <2>1. /\ UNCHANGED logvars
        /\ \E from, to \in {"stage2", "add", "add_id", "typing", "delete", "remove", "window",
                            "window_id", "desktop"} : At(from, to)
    BY <1>5, Zenon DEF graphics_initalize_stage2, terminal_delete, initalizeWindowSystem,
                       StoreCallback, StoreId
  <2>2. main \notin Early /\ main' \notin Early
    BY <2>1 DEF At, Early
  <2>3. QED
    BY <1>1, <2>1, <2>2, LogQuiet
<1>6. CASE KeyPress
  <2>1. UNCHANGED logvars /\ main' = main
    BY <1>6 DEF KeyPress, kb_run_events
  <2>2. QED
    BY <1>1, <2>1, LogQuiet
<1>7. CASE UNCHANGED cvars
  <2>1. UNCHANGED logvars /\ main' = main
    BY <1>7 DEF cvars, console
  <2>2. QED
    BY <1>1, <2>1, LogQuiet
<1>8. QED
  BY <1>1, <1>3, <1>4, <1>5, <1>6, <1>7 DEF CNext, KernelMain

\* The log's invariant holds in every state: until the flush the file spells what
\* was logged and the devices heard nothing.
THEOREM LogInvariant == CSpec => []LogInv
<1>1. QED
  BY LogInvInit, LogInvStep, PTL DEF CSpec

\* std/logging.cpp: once flushed, every device was given the messages logged, in
\* their order and once, as many as the buffer holds; the file has them all.
THEOREM LogIsComplete == CSpec => []LogComplete
<1>1. LogInv => LogComplete
  <2>1. SUFFICES ASSUME LogInv PROVE DeliveredOnce /\ FileKeepsAll
    BY DEF LogComplete
  <2>2. CASE main \notin Early
    BY <2>1, <2>2 DEF LogInv, Kept, Delivered, DeliveredOnce
  <2>3. CASE main \in Early
    <3>1. /\ logged \in Seq(Messages) /\ Spells(kmsglog, logged) /\ got = [d \in Devices |-> <<>>]
      BY <2>1, <2>3 DEF LogInv, LogTypes, Captured
    <3>2. Whole(kmsglog) = logged
      BY <3>1, WholeSpelled
    <3>3. Len(logged) \in Nat /\ SubSeq(logged, 1, Len(logged)) = logged
      BY <3>1, SubSeqFull
    <3>4. FileKeepsAll
      BY <3>2, <3>3 DEF FileKeepsAll
    <3>5. DeliveredOnce
      <4>1. SUFFICES ASSUME Flushed, NEW d \in Devices
                     PROVE  \E n \in 0 .. Len(logged) :
                              /\ Whole(got[d]) = SubSeq(logged, 1, n)
                              /\ 3 * Len(logged) <= LOG_BUFFER => n = Len(logged)
        BY DEF DeliveredOnce
      <4>2. logged = <<>> /\ got[d] = <<>>
        <5>1. capturing # TRUE
          BY <4>1 DEF Flushed
        <5>2. main = "capture"
          BY <2>1, <2>3, <5>1 DEF LogInv, LogPhases, Early
        <5>3. QED
          BY <2>1, <3>1, <5>2 DEF LogInv, LogPhases
      <4>3. Whole(<<>>) = <<>>
        <5>1. Spells(<<>>, <<>>) /\ <<>> \in Seq(Messages)
          BY NothingSpelled
        <5>2. QED
          BY <5>1, WholeSpelled
      <4>4. SubSeq(logged, 1, 0) = <<>> /\ Len(logged) = 0
        BY <4>2, SubSeqEmpty
      <4>5. 0 \in 0 .. Len(logged) /\ 0 = Len(logged)
        BY <4>4
      <4>6. Whole(got[d]) = SubSeq(logged, 1, 0)
        BY <4>2, <4>3, <4>4
      <4>7. QED
        BY <4>5, <4>6
    <3>6. QED
      BY <3>4, <3>5
  <2>4. QED
    BY <2>2, <2>3
<1>2. QED
  BY <1>1, LogInvariant, PTL

-----------------------------------------------------------------------------
(* std/graphics.cpp: the terminal shows its buffer.                        *)


LEMMA Sizes ==
  /\ LineHeight \in Nat /\ LineHeight > 0 /\ CHARH \in Nat /\ CHARH > 0 /\ CHARH =< LineHeight
  /\ HEIGHT \in Nat /\ HEIGHT > LineHeight /\ WIDTH \in Nat /\ WIDTH > 1 /\ BUFFER \in Nat
BY TerminalAssumption DEF LineHeight

LEMMA Times ==
  ASSUME NEW a \in Int, NEW b \in Int, a < b
  PROVE  a * LineHeight \in Int /\ b * LineHeight \in Int /\ a * LineHeight + LineHeight =< b * LineHeight
<1>1. LineHeight \in Nat /\ LineHeight > 0
  BY Sizes
<1>2. PICK d \in Nat : b = a + 1 + d
  <2>1. b - a - 1 \in Nat /\ b = a + 1 + (b - a - 1)
    OBVIOUS
  <2>2. QED
    BY <2>1
<1>3. PICK h \in Nat : h = LineHeight /\ h > 0
  BY <1>1
<1>4. b * h = a * h + h + d * h /\ d * h \in Nat /\ a * h \in Int /\ b * h \in Int
  BY <1>2, <1>3, SMTT(30)
<1>5. QED
  BY <1>3, <1>4

\* The pixel rows of a screen, told by the line they are in and their place in it.
LineAt(row) == row \div LineHeight + 1
PartAt(row) == row % LineHeight

LEMMA Divided ==
  ASSUME NEW v \in Nat, NEW h \in Nat, h > 0
  PROVE  /\ v \div h \in Nat /\ v % h \in 0 .. h - 1
         /\ v = h * (v \div h) + (v % h)
BY SMTT(30)

LEMMA RowSplit ==
  ASSUME NEW row \in Nat
  PROVE  /\ LineAt(row) \in Nat /\ LineAt(row) > 0 /\ PartAt(row) \in 0 .. LineHeight - 1
         /\ row = (LineAt(row) - 1) * LineHeight + PartAt(row)
<1>1. LineHeight \in Nat /\ LineHeight > 0
  BY Sizes
<1>2. PICK h \in Nat : h = LineHeight /\ h > 0
  BY <1>1
<1>3. /\ row \div h \in Nat /\ row % h \in 0 .. h - 1
      /\ row = h * (row \div h) + (row % h)
  BY <1>2, Divided
<1>4. PICK q \in Nat : q = row \div h
  BY <1>3
<1>5. h * q = q * h /\ q + 1 \in Nat /\ q + 1 > 0 /\ q + 1 - 1 = q
  BY <1>2
<1>6. LineAt(row) = q + 1 /\ PartAt(row) = row % h
  BY <1>2, <1>4 DEF LineAt, PartAt
<1>7. row = q * h + (row % h)
  BY <1>3, <1>4, <1>5
<1>8. (LineAt(row) - 1) * LineHeight + PartAt(row) = q * h + (row % h)
  BY <1>2, <1>5, <1>6
<1>9. PartAt(row) \in 0 .. LineHeight - 1
  BY <1>2, <1>3, <1>6
<1>10. QED
  BY <1>5, <1>6, <1>7, <1>8, <1>9

\* Where a place in a line is a row.
LEMMA RowIs ==
  ASSUME NEW row \in Nat, NEW n \in Int, NEW p \in 0 .. LineHeight - 1, row = (n - 1) * LineHeight + p
  PROVE  LineAt(row) = n /\ PartAt(row) = p
<1> DEFINE m == LineAt(row)
           q == PartAt(row)
<1>1. m \in Nat /\ q \in 0 .. LineHeight - 1 /\ row = (m - 1) * LineHeight + q
  BY RowSplit
<1>2. LineHeight \in Nat
  BY Sizes
<1> HIDE DEF m, q
<1>3. ~(m - 1 < n - 1)
  <2>1. SUFFICES ASSUME m - 1 < n - 1 PROVE FALSE
    OBVIOUS
  <2>2. m - 1 \in Int /\ n - 1 \in Int
    BY <1>1
  <2>3. (m - 1) * LineHeight \in Int /\ (n - 1) * LineHeight \in Int
        /\ (m - 1) * LineHeight + LineHeight =< (n - 1) * LineHeight
    BY <2>1, <2>2, Times
  <2>4. PICK a \in Int, b \in Int : a = (m - 1) * LineHeight /\ b = (n - 1) * LineHeight
    BY <2>3
  <2>5. QED
    BY <1>1, <1>2, <2>3, <2>4
<1>4. ~(n - 1 < m - 1)
  <2>1. SUFFICES ASSUME n - 1 < m - 1 PROVE FALSE
    OBVIOUS
  <2>2. m - 1 \in Int /\ n - 1 \in Int
    BY <1>1
  <2>3. (m - 1) * LineHeight \in Int /\ (n - 1) * LineHeight \in Int
        /\ (n - 1) * LineHeight + LineHeight =< (m - 1) * LineHeight
    BY <2>1, <2>2, Times
  <2>4. PICK a \in Int, b \in Int : a = (m - 1) * LineHeight /\ b = (n - 1) * LineHeight
    BY <2>3
  <2>5. QED
    BY <1>1, <1>2, <2>3, <2>4
<1>5. m = n
  BY <1>1, <1>3, <1>4
<1>6. (n - 1) * LineHeight \in Int
  <2>1. n - 1 \in Int
    OBVIOUS
  <2>2. QED
    BY <1>2, <2>1
<1>7. q = p
  <2>1. PICK a \in Int : a = (n - 1) * LineHeight
    BY <1>6
  <2>2. row = a + p /\ row = a + q /\ p \in Int /\ q \in Int
    BY <1>1, <1>2, <1>5, <2>1
  <2>3. QED
    BY <2>2
<1>8. QED
  BY <1>5, <1>7 DEF m, q

\* The rows of a character drawn in line n.
LEMMA RowsOfLine ==
  ASSUME NEW row \in Nat, NEW n \in Nat, n > 0
  PROVE  /\ row \in (n - 1) * LineHeight .. (n - 1) * LineHeight + CHARH - 1
              <=> LineAt(row) = n /\ PartAt(row) < CHARH
         /\ LineAt(row) = n => row - (n - 1) * LineHeight = PartAt(row)
<1>1. /\ LineHeight \in Nat /\ CHARH \in Nat /\ CHARH > 0 /\ CHARH =< LineHeight
  BY Sizes
<1>2. /\ LineAt(row) \in Nat /\ PartAt(row) \in 0 .. LineHeight - 1
      /\ row = (LineAt(row) - 1) * LineHeight + PartAt(row)
  BY RowSplit
<1>3. PICK y \in Int : y = (n - 1) * LineHeight
  <2>1. n - 1 \in Int
    OBVIOUS
  <2>2. QED
    BY <1>1, <2>1
<1>4. LineAt(row) = n => row = y + PartAt(row)
  BY <1>2, <1>3
<1>5. ASSUME row \in y .. y + CHARH - 1 PROVE LineAt(row) = n /\ PartAt(row) < CHARH
  <2>1. PICK p \in 0 .. LineHeight - 1 : row = y + p /\ p < CHARH
    <3>1. row - y \in 0 .. LineHeight - 1 /\ row = y + (row - y) /\ row - y < CHARH
      BY <1>1, <1>3, <1>5
    <3>2. QED
      BY <3>1
  <2>2. LineAt(row) = n /\ PartAt(row) = p
    BY <1>3, <2>1, RowIs
  <2>3. QED
    BY <2>1, <2>2
<1>6. ASSUME LineAt(row) = n, PartAt(row) < CHARH PROVE row \in y .. y + CHARH - 1
  BY <1>1, <1>2, <1>3, <1>4, <1>6
<1>7. LineAt(row) = n => row - y = PartAt(row)
  BY <1>2, <1>3, <1>4
<1>8. QED
  BY <1>3, <1>5, <1>6, <1>7

LEMMA LineDown ==
  ASSUME NEW n \in Int
  PROVE  n * LineHeight \in Int /\ (n - 1) * LineHeight \in Int
         /\ (n - 1) * LineHeight + LineHeight = n * LineHeight
<1>1. PICK h \in Nat : h = LineHeight
  BY Sizes
<1>2. (n - 1) * h = n * h - h /\ n * h \in Int
  BY <1>1, SMTT(30)
<1>3. QED
  BY <1>1, <1>2

\* How many lines fit.
LEMMA FitFacts ==
  /\ Fit \in Nat /\ Fit > 0
  /\ (Fit - 1) * LineHeight + CHARH < HEIGHT
  /\ Fit * LineHeight + CHARH >= HEIGHT
<1>1. /\ LineHeight \in Nat /\ LineHeight > 0 /\ CHARH \in Nat /\ CHARH > 0 /\ CHARH =< LineHeight
      /\ HEIGHT \in Nat /\ HEIGHT > LineHeight
  BY Sizes
<1> DEFINE Fits(n) == (n - 1) * LineHeight + CHARH < HEIGHT /\ n * LineHeight + CHARH >= HEIGHT
<1>2. PICK v \in Nat : v = HEIGHT - CHARH - 1
  <2>1. HEIGHT - CHARH - 1 \in Nat
    BY <1>1
  <2>2. QED
    BY <2>1
<1>3. PICK q \in Nat, r \in 0 .. LineHeight - 1 : v = LineHeight * q + r
  <2>1. v \div LineHeight \in Nat /\ v % LineHeight \in 0 .. LineHeight - 1
        /\ v = LineHeight * (v \div LineHeight) + (v % LineHeight)
    BY <1>1, <1>2, Divided
  <2>2. QED
    BY <2>1
<1>4. PICK p \in Int : p = q * LineHeight /\ p = LineHeight * q /\ (q + 1 - 1) * LineHeight = p
                       /\ (q + 1) * LineHeight = p + LineHeight
  <2>1. PICK h \in Nat : h = LineHeight
    BY <1>1
  <2>2. q * h \in Int /\ q * h = h * q /\ q + 1 - 1 = q
    BY <1>3, <2>1
  <2>3. (q + 1 - 1) * LineHeight + LineHeight = (q + 1) * LineHeight
    BY LineDown
  <2>4. QED
    BY <2>1, <2>2, <2>3
<1>5. Fits(q + 1)
  BY <1>1, <1>2, <1>3, <1>4
<1>6. q + 1 \in 1 .. HEIGHT
  <2>1. q =< p
    <3>1. CASE q = 0
      <4>1. 0 * LineHeight = 0
        BY <1>1
      <4>2. QED
        BY <1>4, <3>1, <4>1
    <3>2. CASE q # 0
      <4>1. PICK h \in Nat, d \in Nat : h = LineHeight /\ h = d + 1
        <5>1. LineHeight - 1 \in Nat /\ LineHeight = (LineHeight - 1) + 1
          BY <1>1
        <5>2. QED
          BY <1>1, <5>1
      <4>2. q * h = q * d + q /\ q * d \in Nat
        BY <1>3, <4>1, SMTT(30)
      <4>3. QED
        BY <1>3, <1>4, <4>1, <4>2
    <3>3. QED
      BY <3>1, <3>2
  <2>2. p =< v
    BY <1>3, <1>4, <1>1
  <2>3. QED
    BY <1>1, <1>2, <1>3, <1>4, <2>1, <2>2
<1> HIDE DEF Fits
<1>7. Fit = CHOOSE n \in 1 .. HEIGHT : Fits(n)
  BY DEF Fit, Fits
<1>8. Fit \in 1 .. HEIGHT /\ Fits(Fit)
  BY <1>5, <1>6, <1>7
<1>9. QED
  BY <1>1, <1>8 DEF Fits

\* One pixel of a picture.
CellOf(s, row, col) ==
  IF LineAt(row) \in DOMAIN s /\ PartAt(row) < CHARH /\ col + 1 \in DOMAIN s[LineAt(row)]
  THEN <<s[LineAt(row)][col + 1], PartAt(row)>> ELSE Dark

LEMMA PictureIs ==
  ASSUME NEW s
  PROVE  /\ Picture(s) = [row \in PixelRows |-> [col \in Columns |-> CellOf(s, row, col)]]
         /\ PixelRows \subseteq Nat
BY DEF Picture, CellOf, LineAt, PartAt, PixelRows

\* A character's rows stored in a screen.
Repainted(pixels, x, y, glyph) ==
  [row \in PixelRows |-> IF row \in y .. y + CHARH - 1 THEN [pixels[row] EXCEPT ![x] = glyph[row - y]]
                        ELSE pixels[row]]

\* Two lines that differ in column k at most, and what is drawn there.
SameBut(l, m, k) ==
  \A col \in Columns \ {k} :
    /\ col + 1 \in DOMAIN m <=> col + 1 \in DOMAIN l
    /\ col + 1 \in DOMAIN l => m[col + 1] = l[col + 1]
Paints(glyph, m, k) ==
  \A p \in 0 .. CHARH - 1 : glyph[p] = IF k + 1 \in DOMAIN m THEN <<m[k + 1], p>> ELSE Dark

\* The last line taken for another.
LastTaken(S, s, u) == u \in Seq(Seq(S)) /\ Len(u) = Len(s) /\ \A i \in 1 .. Len(s) - 1 : u[i] = s[i]

LastPainted(S, s, u, n, k, y, glyph) ==
  /\ s \in Seq(Seq(S)) /\ LastTaken(S, s, u) /\ n \in Nat /\ n > 0 /\ Len(s) = n
  /\ k \in Columns /\ SameBut(s[n], u[n], k) /\ Paints(glyph, u[n], k) /\ y = (n - 1) * LineHeight

\* A character drawn or cleared in the last line.
LEMMA PictureDrawn ==
  ASSUME NEW S, NEW s, NEW u, NEW n, NEW k, NEW y, NEW glyph, LastPainted(S, s, u, n, k, y, glyph)
  PROVE  Repainted(Picture(s), k, y, glyph) = Picture(u)
<1>0. /\ s \in Seq(Seq(S)) /\ LastTaken(S, s, u) /\ n \in Nat /\ n > 0 /\ Len(s) = n
      /\ k \in Columns /\ SameBut(s[n], u[n], k) /\ Paints(glyph, u[n], k) /\ y = (n - 1) * LineHeight
  BY DEF LastPainted
<1> DEFINE new == [row \in PixelRows |->
                     IF row \in y .. y + CHARH - 1 THEN [Picture(s)[row] EXCEPT ![k] = glyph[row - y]]
                     ELSE Picture(s)[row]]
<1>1. PixelRows \subseteq Nat
  BY DEF PixelRows
<1>2. DOMAIN s = 1 .. n /\ DOMAIN u = 1 .. n /\ \A i \in 1 .. n - 1 : u[i] = s[i]
  BY <1>0 DEF LastTaken
<1>3. ASSUME NEW row \in PixelRows
      PROVE  new[row] = [col \in Columns |-> CellOf(u, row, col)]
  <2>1. row \in Nat
    BY <1>1
  <2>2. /\ row \in y .. y + CHARH - 1 <=> LineAt(row) = n /\ PartAt(row) < CHARH
        /\ LineAt(row) = n => row - y = PartAt(row)
    BY <1>0, <2>1, RowsOfLine
  <2>3. LineAt(row) \in Nat /\ LineAt(row) > 0 /\ PartAt(row) \in 0 .. LineHeight - 1
    BY <2>1, RowSplit
  <2>4. Picture(s)[row] = [col \in Columns |-> CellOf(s, row, col)]
    BY PictureIs
  <2>5. CASE LineAt(row) = n /\ PartAt(row) < CHARH
    <3>1. new[row] = [[col \in Columns |-> CellOf(s, row, col)] EXCEPT ![k] = glyph[row - y]]
      BY <2>2, <2>4, <2>5
    <3>2. PartAt(row) \in 0 .. CHARH - 1
      <4>1. CHARH \in Nat /\ LineHeight \in Nat
        BY Sizes
      <4>2. QED
        BY <2>3, <2>5, <4>1
    <3>3. glyph[row - y] = CellOf(u, row, k)
      BY <1>0, <1>2, <2>2, <2>5, <3>2 DEF CellOf, Paints
    <3>4. ASSUME NEW col \in Columns, col # k PROVE CellOf(s, row, col) = CellOf(u, row, col)
      <4>1. /\ col + 1 \in DOMAIN u[n] <=> col + 1 \in DOMAIN s[n]
            /\ col + 1 \in DOMAIN s[n] => u[n][col + 1] = s[n][col + 1]
        BY <1>0, <3>4 DEF SameBut
      <4>2. n \in DOMAIN s /\ n \in DOMAIN u
        BY <1>0, <1>2
      <4>3. QED
        BY <2>5, <4>1, <4>2 DEF CellOf
    <3>5. QED
      BY <3>1, <3>3, <3>4
  <2>6. CASE ~(LineAt(row) = n /\ PartAt(row) < CHARH)
    <3>1. new[row] = [col \in Columns |-> CellOf(s, row, col)]
      BY <2>2, <2>4, <2>6
    <3>2. ASSUME NEW col \in Columns PROVE CellOf(s, row, col) = CellOf(u, row, col)
      <4>1. CASE PartAt(row) < CHARH
        <5>1. LineAt(row) # n
          BY <2>6, <4>1
        <5>2. LineAt(row) \in 1 .. n => LineAt(row) \in 1 .. n - 1
          BY <1>0, <2>3, <5>1
        <5>3. LineAt(row) \in 1 .. n => u[LineAt(row)] = s[LineAt(row)]
          BY <1>2, <5>2
        <5>4. QED
          BY <1>2, <5>3 DEF CellOf
      <4>2. CASE ~(PartAt(row) < CHARH)
        BY <4>2 DEF CellOf
      <4>3. QED
        BY <4>1, <4>2
    <3>3. QED
      BY <3>1, <3>2
  <2>7. QED
    BY <2>5, <2>6
<1> HIDE DEF new
<1>4. new = [row \in PixelRows |-> new[row]]
  BY DEF new
<1>5. new = [row \in PixelRows |-> [col \in Columns |-> CellOf(u, row, col)]]
  BY <1>3, <1>4
<1>6. QED
  BY <1>5, PictureIs DEF new, Repainted

\* An empty line below shows nothing.
LEMMA PictureOfMore ==
  ASSUME NEW S, NEW s \in Seq(Seq(S)), NEW u \in Seq(Seq(S)), NEW n \in Nat,
         Len(s) = n, Len(u) = n + 1, \A i \in 1 .. n : u[i] = s[i], u[n + 1] = <<>>
  PROVE  Picture(u) = Picture(s)
<1>1. DOMAIN s = 1 .. n /\ DOMAIN u = 1 .. n + 1
  OBVIOUS
<1>2. ASSUME NEW row \in PixelRows, NEW col \in Columns PROVE CellOf(u, row, col) = CellOf(s, row, col)
  <2>1. row \in Nat /\ col \in Nat
    BY DEF PixelRows, Columns
  <2>2. LineAt(row) \in Nat
    BY <2>1, RowSplit
  <2>3. CASE LineAt(row) \in 1 .. n
    <3>1. LineAt(row) \in 1 .. n + 1
      BY <2>3
    <3>2. QED
      BY <1>1, <2>3, <3>1 DEF CellOf
  <2>4. CASE LineAt(row) = n + 1
    <3>1. col + 1 \notin DOMAIN u[LineAt(row)]
      BY <2>1, <2>4
    <3>2. LineAt(row) \notin DOMAIN s
      BY <1>1, <2>4
    <3>3. QED
      BY <3>1, <3>2 DEF CellOf
  <2>5. CASE LineAt(row) \notin 1 .. n + 1
    <3>1. LineAt(row) \notin 1 .. n
      BY <2>5
    <3>2. QED
      BY <1>1, <2>5, <3>1 DEF CellOf
  <2>6. QED
    BY <2>2, <2>3, <2>4, <2>5
<1>3. QED
  BY <1>2, PictureIs

\* Scrolling drops the first line and leaves the last empty.
LEMMA PictureScrolled ==
  ASSUME NEW S, NEW s \in Seq(Seq(S)), NEW u \in Seq(Seq(S)),
         Len(s) = Fit, Len(u) = Fit, \A i \in 1 .. Fit - 1 : u[i] = s[i + 1], u[Fit] = <<>>
  PROVE  [row \in PixelRows |-> IF row < HEIGHT - LineHeight THEN Picture(s)[row + LineHeight]
                                ELSE [col \in Columns |-> Dark]] = Picture(u)
<1>1. DOMAIN s = 1 .. Fit /\ DOMAIN u = 1 .. Fit
  OBVIOUS
<1>2. /\ Fit \in Nat /\ Fit > 0
      /\ (Fit - 1) * LineHeight + CHARH < HEIGHT
      /\ Fit * LineHeight + CHARH >= HEIGHT
      /\ LineHeight \in Nat /\ LineHeight > 0 /\ CHARH \in Nat /\ HEIGHT \in Nat /\ HEIGHT > LineHeight
  BY FitFacts, Sizes
<1>3. ASSUME NEW row \in PixelRows, row < HEIGHT - LineHeight, NEW col \in Columns
      PROVE  row + LineHeight \in PixelRows /\ CellOf(s, row + LineHeight, col) = CellOf(u, row, col)
  <2>1. row \in Nat /\ row + LineHeight \in PixelRows /\ row + LineHeight \in Nat /\ col \in Nat
    BY <1>2, <1>3 DEF PixelRows, Columns
  <2> DEFINE n == LineAt(row)
             p == PartAt(row)
  <2>2. n \in Nat /\ n > 0 /\ p \in 0 .. LineHeight - 1 /\ row = (n - 1) * LineHeight + p
    BY <2>1, RowSplit
  <2> HIDE DEF n, p
  <2>3. LineAt(row + LineHeight) = n + 1 /\ PartAt(row + LineHeight) = p
    <3>1. n \in Int
      BY <2>2
    <3>2. PICK a \in Int, b \in Int : a = (n - 1) * LineHeight /\ b = n * LineHeight /\ a + LineHeight = b
      BY <3>1, LineDown
    <3>3. row + LineHeight = n * LineHeight + p
      BY <1>2, <2>2, <3>2
    <3>4. PICK m \in Int : m = n + 1 /\ m - 1 = n
      BY <2>2
    <3>5. row + LineHeight = (m - 1) * LineHeight + p
      BY <3>3, <3>4
    <3>6. QED
      BY <2>1, <2>2, <3>4, <3>5, RowIs
  <2>4. CASE n \in 1 .. Fit - 1
    <3>1. u[n] = s[n + 1] /\ n \in 1 .. Fit /\ n + 1 \in 1 .. Fit
      BY <1>2, <2>4
    <3>2. QED
      BY <1>1, <2>1, <2>3, <3>1 DEF CellOf, n, p
  <2>5. CASE n \notin 1 .. Fit - 1
    <3>1. n + 1 \notin 1 .. Fit /\ (n \in 1 .. Fit => n = Fit)
      BY <1>2, <2>2, <2>5
    <3>2. CellOf(s, row + LineHeight, col) = Dark
      BY <1>1, <2>3, <3>1 DEF CellOf
    <3>3. n = Fit => col + 1 \notin DOMAIN u[n]
      BY <2>1
    <3>4. CellOf(u, row, col) = Dark
      BY <1>1, <3>1, <3>3 DEF CellOf, n, p
    <3>5. QED
      BY <2>1, <3>2, <3>4
  <2>6. QED
    BY <2>4, <2>5
<1>4. ASSUME NEW row \in PixelRows, ~(row < HEIGHT - LineHeight), NEW col \in Columns
      PROVE  CellOf(u, row, col) = Dark
  <2>1. row \in Nat /\ col \in Nat /\ row < HEIGHT
    BY <1>2 DEF PixelRows, Columns
  <2> DEFINE n == LineAt(row)
             p == PartAt(row)
  <2>2. n \in Nat /\ n > 0 /\ p \in 0 .. LineHeight - 1 /\ row = (n - 1) * LineHeight + p
    BY <2>1, RowSplit
  <2> HIDE DEF n, p
  <2>3. n \notin 1 .. Fit - 1 \/ ~(p < CHARH)
    <3>1. SUFFICES ASSUME n \in 1 .. Fit - 1, p < CHARH PROVE FALSE
      OBVIOUS
    <3>2. n < Fit /\ n \in Int /\ Fit \in Int
      BY <1>2, <2>2, <3>1
    <3>3. n * LineHeight \in Int /\ n - 1 < Fit - 1 /\ n - 1 \in Int /\ Fit - 1 \in Int
      BY <3>2, LineDown
    <3>4. /\ (n - 1) * LineHeight \in Int /\ (Fit - 1) * LineHeight \in Int
          /\ (n - 1) * LineHeight + LineHeight =< (Fit - 1) * LineHeight
      BY <3>3, Times
    <3>5. PICK a \in Int, b \in Int : a = (n - 1) * LineHeight /\ b = (Fit - 1) * LineHeight
      BY <3>4
    <3>6. a + LineHeight =< b /\ b + CHARH < HEIGHT /\ row = a + p
      BY <1>2, <2>2, <3>4, <3>5
    <3>7. QED
      BY <1>2, <1>4, <2>1, <2>2, <3>1, <3>6
  <2>4. CASE p < CHARH
    <3>1. n \in 1 .. Fit => n = Fit
      BY <1>2, <2>2, <2>3, <2>4
    <3>2. n = Fit => col + 1 \notin DOMAIN u[n]
      BY <2>1
    <3>3. QED
      BY <1>1, <3>1, <3>2 DEF CellOf, n, p
  <2>5. CASE ~(p < CHARH)
    BY <2>5 DEF CellOf, p
  <2>6. QED
    BY <2>4, <2>5
<1> DEFINE up == [row \in PixelRows |-> IF row < HEIGHT - LineHeight THEN Picture(s)[row + LineHeight]
                                       ELSE [col \in Columns |-> Dark]]
<1>5. ASSUME NEW row \in PixelRows
      PROVE  up[row] = [col \in Columns |-> CellOf(u, row, col)]
  <2>1. CASE row < HEIGHT - LineHeight
    <3>1. \A col \in Columns : CellOf(s, row + LineHeight, col) = CellOf(u, row, col)
      BY <1>3, <2>1
    <3>2. row + LineHeight \in PixelRows
      BY <1>2, <2>1 DEF PixelRows
    <3>3. Picture(s)[row + LineHeight] = [col \in Columns |-> CellOf(s, row + LineHeight, col)]
      BY <3>2, PictureIs
    <3>4. QED
      BY <2>1, <3>1, <3>3
  <2>2. CASE ~(row < HEIGHT - LineHeight)
    <3>1. \A col \in Columns : CellOf(u, row, col) = Dark
      BY <1>4, <2>2
    <3>2. QED
      BY <2>2, <3>1
  <2>3. QED
    BY <2>1, <2>2
<1>6. up = [row \in PixelRows |-> up[row]]
  OBVIOUS
<1> HIDE DEF up
<1>7. up = Picture(u)
  BY <1>5, <1>6, PictureIs
<1>8. QED
  BY <1>7 DEF up

IsTerminal(t) == t = [buffer |-> t.buffer, x |-> t.x, y |-> t.y, screen |-> t.screen]

\* The fields that Terminal's operators leave behind.
Scrolled(screen_) == [row \in PixelRows |-> IF row < HEIGHT - LineHeight THEN screen_[row + LineHeight]
                                            ELSE [col \in Columns |-> Dark]]

LEMMA StoreY ==
  ASSUME NEW b, NEW x, NEW y, NEW s, NEW v, NEW r, r = [buffer |-> b, x |-> x, y |-> y, screen |-> s]
  PROVE  [r EXCEPT !.y = v] = [buffer |-> b, x |-> x, y |-> v, screen |-> s]
OBVIOUS

LEMMA StoreX ==
  ASSUME NEW b, NEW x, NEW y, NEW s, NEW v, NEW r, r = [buffer |-> b, x |-> x, y |-> y, screen |-> s]
  PROVE  [r EXCEPT !.x = v] = [buffer |-> b, x |-> v, y |-> y, screen |-> s]
OBVIOUS

LEMMA StoreBuffer ==
  ASSUME NEW b, NEW x, NEW y, NEW s, NEW v, NEW r, r = [buffer |-> b, x |-> x, y |-> y, screen |-> s]
  PROVE  [r EXCEPT !.buffer = v] = [buffer |-> v, x |-> x, y |-> y, screen |-> s]
OBVIOUS

LEMMA NewLineFields ==
  ASSUME NEW t, IsTerminal(t), t.y \in Int
  PROVE  LET new == NewLine(t) IN
         /\ IsTerminal(new) /\ new.buffer = t.buffer /\ new.x = 0
         /\ t.y + LineHeight + CHARH >= HEIGHT =>
              new.y = t.y /\ new.screen = Scrolled(t.screen)
         /\ ~(t.y + LineHeight + CHARH >= HEIGHT) =>
              new.y = t.y + LineHeight /\ new.screen = t.screen
<1>1. PICK b, x, y, s : t = [buffer |-> b, x |-> x, y |-> y, screen |-> s]
  BY DEF IsTerminal
<1> DEFINE down == [t EXCEPT !.x = 0, !.y = @ + LineHeight]
<1>2. down = [buffer |-> b, x |-> 0, y |-> y + LineHeight, screen |-> s]
  <2>1. down = [[t EXCEPT !.x = 0] EXCEPT !.y = t.y + LineHeight]
    OBVIOUS
  <2>2. [t EXCEPT !.x = 0] = [buffer |-> b, x |-> 0, y |-> y, screen |-> s] /\ t.y = y
    BY <1>1
  <2>3. PICK r : r = [t EXCEPT !.x = 0]
    OBVIOUS
  <2>4. down = [r EXCEPT !.y = y + LineHeight]
    BY <2>1, <2>2, <2>3
  <2> HIDE DEF down
  <2>5. QED
    BY <2>2, <2>3, <2>4, StoreY
<1>3. NewLine(t) = IF down.y + CHARH >= HEIGHT THEN scroll(down) ELSE down
  BY DEF NewLine
<1>4. scroll(down) = [down EXCEPT !.screen = Scrolled(s), !.y = @ - LineHeight]
  BY <1>2 DEF scroll, Scrolled
<1>5. scroll(down) = [buffer |-> b, x |-> 0, y |-> y, screen |-> Scrolled(s)]
  <2> DEFINE new == Scrolled(s)
  <2> HIDE DEF new, down
  <2>1. PICK w : w = down.y - LineHeight
    OBVIOUS
  <2>2. scroll(down) = [[down EXCEPT !.screen = new] EXCEPT !.y = w]
    BY <1>4, <2>1 DEF new
  <2>3. down.y = y + LineHeight
        /\ [down EXCEPT !.screen = new] = [buffer |-> b, x |-> 0, y |-> y + LineHeight, screen |-> new]
    BY <1>2
  <2>4. PICK r : r = [down EXCEPT !.screen = new]
    OBVIOUS
  <2>5. scroll(down) = [r EXCEPT !.y = w]
    BY <2>2, <2>4
  <2>6. scroll(down) = [buffer |-> b, x |-> 0, y |-> w, screen |-> new]
    BY <2>3, <2>4, <2>5, StoreY
  <2>7. w = y
    <3>1. y \in Int /\ LineHeight \in Int
      BY <1>1, Sizes
    <3>2. QED
      BY <2>1, <2>3, <3>1
  <2>8. QED
    BY <2>6, <2>7 DEF new
<1>6. QED
  BY <1>1, <1>2, <1>3, <1>5 DEF IsTerminal

LEMMA DrawnFields ==
  ASSUME NEW t, IsTerminal(t), NEW glyph
  PROVE  /\ IsTerminal(Drawn(t, glyph)) /\ Drawn(t, glyph).buffer = t.buffer
         /\ Drawn(t, glyph).x = t.x /\ Drawn(t, glyph).y = t.y
         /\ Drawn(t, glyph).screen = Repainted(t.screen, t.x, t.y, glyph)
<1>1. PICK b, x, y, s : t = [buffer |-> b, x |-> x, y |-> y, screen |-> s]
  BY DEF IsTerminal
<1> DEFINE scr == Repainted(s, x, y, glyph)
<1>2. Drawn(t, glyph) = [t EXCEPT !.screen = scr]
  BY <1>1 DEF Drawn, Repainted
<1> HIDE DEF scr
<1>3. Drawn(t, glyph) = [buffer |-> b, x |-> x, y |-> y, screen |-> scr]
  BY <1>1, <1>2
<1>4. QED
  BY <1>1, <1>3 DEF IsTerminal, scr

\* What a terminal shows: lines, with the cursor behind the last.
Shows(t, s) ==
  /\ t.screen = Picture(s)
  /\ t.x = Len(s[Len(s)]) /\ t.y = (Len(s) - 1) * LineHeight

\* Lines after the cursor went down one.
Down(s) == IF Len(s) < Fit THEN Append(s, <<>>) ELSE Append(SubSeq(s, 2, Len(s)), <<>>)

LEMMA DownFacts ==
  ASSUME NEW S, NEW s \in Seq(Seq(S)), Len(s) \in 1 .. Fit
  PROVE  /\ Down(s) \in Seq(Seq(S)) /\ Len(Down(s)) \in 1 .. Fit /\ Down(s)[Len(Down(s))] = <<>>
         /\ Len(s) < Fit => Len(Down(s)) = Len(s) + 1 /\ \A i \in 1 .. Len(s) : Down(s)[i] = s[i]
         /\ Len(s) = Fit => Len(Down(s)) = Fit /\ \A i \in 1 .. Fit - 1 : Down(s)[i] = s[i + 1]
<1>1. Fit \in Nat /\ Fit > 0 /\ <<>> \in Seq(S)
  BY FitFacts
<1>2. CASE Len(s) < Fit
  <2>1. Down(s) = Append(s, <<>>)
    BY <1>2 DEF Down
  <2>2. /\ Append(s, <<>>) \in Seq(Seq(S)) /\ Len(Append(s, <<>>)) = Len(s) + 1
        /\ \A i \in 1 .. Len(s) : Append(s, <<>>)[i] = s[i]
        /\ Append(s, <<>>)[Len(s) + 1] = <<>>
    BY <1>1
  <2>3. QED
    BY <1>1, <1>2, <2>1, <2>2
<1>3. CASE Len(s) = Fit
  <2> DEFINE r == SubSeq(s, 2, Len(s))
  <2>1. Down(s) = Append(r, <<>>)
    BY <1>1, <1>3 DEF Down
  <2>2. r \in Seq(Seq(S)) /\ Len(r) = Fit - 1 /\ \A i \in 1 .. Fit - 1 : r[i] = s[i + 1]
    <3>1. \A i \in 2 .. Len(s) : s[i] \in Seq(S)
      BY <1>1, <1>3
    <3>2. /\ r \in Seq(Seq(S)) /\ Len(r) = IF 2 =< Len(s) THEN Len(s) - 2 + 1 ELSE 0
          /\ \A i \in 1 .. Len(s) - 2 + 1 : r[i] = s[2 + i - 1]
      BY <1>1, <1>3, <3>1, SubSeqProperties
    <3> HIDE DEF r
    <3>3. Len(r) = Fit - 1
      BY <1>1, <1>3, <3>2
    <3>4. ASSUME NEW i \in 1 .. Fit - 1 PROVE r[i] = s[i + 1]
      <4>1. i \in 1 .. Len(s) - 2 + 1 /\ 2 + i - 1 = i + 1
        BY <1>1, <1>3
      <4>2. QED
        BY <3>2, <4>1
    <3>5. QED
      BY <3>2, <3>3, <3>4
  <2> HIDE DEF r
  <2>3. /\ Append(r, <<>>) \in Seq(Seq(S)) /\ Len(Append(r, <<>>)) = Fit
        /\ \A i \in 1 .. Fit - 1 : Append(r, <<>>)[i] = r[i]
        /\ Append(r, <<>>)[Fit] = <<>>
    BY <1>1, <2>2
  <2>4. QED
    BY <1>1, <1>3, <2>1, <2>2, <2>3
<1>4. QED
  BY <1>1, <1>2, <1>3

\* A new line is scrolled for when no line is left.
LEMMA NewLineShows ==
  ASSUME NEW S, NEW s \in Seq(Seq(S)), Len(s) \in 1 .. Fit,
         NEW t, IsTerminal(t), t.screen = Picture(s), t.y = (Len(s) - 1) * LineHeight
  PROVE  IsTerminal(NewLine(t)) /\ NewLine(t).buffer = t.buffer /\ Shows(NewLine(t), Down(s))
<1>1. Fit \in Nat /\ Fit > 0 /\ LineHeight \in Nat /\ CHARH \in Nat /\ HEIGHT \in Nat
      /\ (Fit - 1) * LineHeight + CHARH < HEIGHT /\ Fit * LineHeight + CHARH >= HEIGHT
  BY FitFacts, Sizes
<1> DEFINE n == Len(s)
           new == NewLine(t)
           u == Down(s)
<1>2. n \in Nat /\ n \in 1 .. Fit
  BY <1>1
<1>3. /\ u \in Seq(Seq(S)) /\ Len(u) \in 1 .. Fit /\ u[Len(u)] = <<>>
      /\ n < Fit => Len(u) = n + 1 /\ \A i \in 1 .. n : u[i] = s[i]
      /\ n = Fit => Len(u) = Fit /\ \A i \in 1 .. Fit - 1 : u[i] = s[i + 1]
  BY DownFacts
<1> HIDE DEF n, u
<1>4. PICK y \in Int : y = t.y /\ y = (n - 1) * LineHeight /\ y + LineHeight = n * LineHeight
  <2>1. n \in Int
    BY <1>2
  <2>2. QED
    BY <2>1, LineDown DEF n
<1>5. /\ IsTerminal(new) /\ new.buffer = t.buffer /\ new.x = 0
      /\ t.y + LineHeight + CHARH >= HEIGHT => new.y = t.y /\ new.screen = Scrolled(t.screen)
      /\ ~(t.y + LineHeight + CHARH >= HEIGHT) => new.y = t.y + LineHeight /\ new.screen = t.screen
  BY <1>4, NewLineFields
<1> HIDE DEF new
<1>6. CASE n < Fit
  <2>1. n \in Int /\ Fit - 1 \in Int /\ Fit \in Int /\ n - 1 \in Int
    BY <1>1, <1>2
  <2>2. ~(y + LineHeight + CHARH >= HEIGHT)
    <3>1. PICK a \in Int : a = (Fit - 1) * LineHeight
      BY <2>1, LineDown
    <3>2. CASE n = Fit - 1
      BY <1>1, <1>4, <3>1, <3>2
    <3>3. CASE n < Fit - 1
      <4>1. n * LineHeight \in Int /\ n * LineHeight + LineHeight =< (Fit - 1) * LineHeight
        BY <2>1, <3>3, Times
      <4>2. QED
        BY <1>1, <1>4, <3>1, <4>1
    <3>4. QED
      BY <1>1, <1>2, <1>6, <3>2, <3>3
  <2>3. new.y = n * LineHeight /\ new.screen = t.screen
    BY <1>4, <1>5, <2>2
  <2>4. Len(u) = n + 1 /\ u[n + 1] = <<>> /\ n + 1 - 1 = n
    BY <1>2, <1>3, <1>6
  <2>5. Picture(u) = Picture(s)
    BY <1>2, <1>3, <1>6, <2>4, PictureOfMore DEF n
  <2>6. new.y = (Len(u) - 1) * LineHeight
    <3>1. Len(u) - 1 = n
      BY <1>2, <2>4
    <3>2. QED
      BY <2>3, <3>1, Zenon
  <2>7. Shows(new, u)
    BY <1>3, <1>5, <2>3, <2>4, <2>5, <2>6 DEF Shows
  <2>8. QED
    BY <1>5, <2>7 DEF new, u
<1>7. CASE n = Fit
  <2>1. y + LineHeight + CHARH >= HEIGHT
    BY <1>1, <1>4, <1>7
  <2>2. new.y = y /\ new.screen = Scrolled(Picture(s))
    BY <1>4, <1>5, <2>1
  <2>3. Len(u) = Fit /\ u[Fit] = <<>> /\ \A i \in 1 .. Fit - 1 : u[i] = s[i + 1]
    BY <1>3, <1>7
  <2>4. Scrolled(Picture(s)) = Picture(u)
    BY <1>3, <1>7, <2>3, PictureScrolled DEF n, Scrolled
  <2>5. Shows(new, u)
    BY <1>3, <1>4, <1>5, <1>7, <2>2, <2>3, <2>4 DEF Shows
  <2>6. QED
    BY <1>5, <2>5 DEF new, u
<1>8. QED
  BY <1>1, <1>2, <1>6, <1>7

\* A character drawn behind the last line lengthens it; the cursor goes on by
\* one, and down when a further one would reach the last column.
LEMMA Print1Shows ==
  ASSUME NEW S, NEW s \in Seq(Seq(S)), Len(s) \in 1 .. Fit, NEW c \in S, NEW u,
         LastTaken(S, s, u), u[Len(s)] = Append(s[Len(s)], c),
         Len(s[Len(s)]) < WIDTH - 1,
         NEW t, IsTerminal(t), Shows(t, s), Len(t.buffer) < BUFFER, Len(t.buffer) \in Nat
  PROVE  /\ IsTerminal(Print1(t, c)) /\ Print1(t, c).buffer = Append(t.buffer, c)
         /\ Shows(Print1(t, c), IF Len(s[Len(s)]) + 2 >= WIDTH THEN Down(u) ELSE u)
<1> DEFINE n == Len(s)
           k == Len(s[n])
           glyph == [p \in 0 .. CHARH - 1 |-> <<c, p>>]
           longer == [t EXCEPT !.buffer = Append(@, c)]
           drawn == Drawn(longer, glyph)
           right == [drawn EXCEPT !.x = @ + 1]
<1>1. /\ Fit \in Nat /\ WIDTH \in Nat /\ CHARH \in Nat /\ BUFFER \in Nat
      /\ n \in Nat /\ n > 0 /\ n \in 1 .. Fit /\ s[n] \in Seq(S) /\ k \in Nat
  BY FitFacts, Sizes
<1>2. PICK b, x, y, scr : t = [buffer |-> b, x |-> x, y |-> y, screen |-> scr]
  BY DEF IsTerminal
<1>3. Print1(t, c) = IF right.x + 1 >= WIDTH THEN NewLine(right) ELSE right
  BY <1>1 DEF Print1
<1>4. longer = [buffer |-> Append(b, c), x |-> x, y |-> y, screen |-> scr]
  <2>1. PICK f : f = Append(t.buffer, c)
    OBVIOUS
  <2>2. f = Append(b, c) /\ longer = [t EXCEPT !.buffer = f]
    BY <1>2, <2>1
  <2> HIDE DEF longer
  <2>3. QED
    BY <1>2, <2>2, StoreBuffer
<1>5. scr = Picture(s) /\ x = k /\ y = (n - 1) * LineHeight
  BY <1>2 DEF Shows
<1>6. /\ u \in Seq(Seq(S)) /\ Len(u) = n /\ (\A i \in 1 .. n - 1 : u[i] = s[i])
      /\ u[n] = Append(s[n], c)
  BY DEF LastTaken
<1>7. k < WIDTH - 1 /\ k \in Columns
  BY <1>1 DEF Columns
<1>8. u[n] \in Seq(S) /\ Len(u[n]) = k + 1 /\ u[n][k + 1] = c /\ \A i \in 1 .. k : u[n][i] = s[n][i]
  BY <1>1, <1>6
<1> HIDE DEF n, k
<1>9. drawn = [buffer |-> Append(b, c), x |-> x, y |-> y, screen |-> Picture(u)]
  <2>1. /\ IsTerminal(drawn) /\ drawn.buffer = Append(b, c) /\ drawn.x = x /\ drawn.y = y
        /\ drawn.screen = Repainted(scr, x, y, glyph)
    <3>1. IsTerminal(longer)
      BY <1>4 DEF IsTerminal
    <3>2. longer.buffer = Append(b, c) /\ longer.x = x /\ longer.y = y /\ longer.screen = scr
      BY <1>4
    <3> HIDE DEF longer, glyph
    <3>3. QED
      BY <3>1, <3>2, DrawnFields
  <2>2. ASSUME NEW col \in Columns, col # k
        PROVE  /\ col + 1 \in DOMAIN u[n] <=> col + 1 \in DOMAIN s[n]
               /\ col + 1 \in DOMAIN s[n] => u[n][col + 1] = s[n][col + 1]
    <3>1. col \in Int /\ DOMAIN u[n] = 1 .. k + 1 /\ DOMAIN s[n] = 1 .. k
      BY <1>1, <1>8 DEF Columns, k
    <3>2. QED
      BY <1>1, <1>8, <2>2, <3>1
  <2>3. k + 1 \in DOMAIN u[n]
    BY <1>1, <1>8
  <2>4. \A p \in 0 .. CHARH - 1 :
          glyph[p] = IF k + 1 \in DOMAIN u[n] THEN <<u[n][k + 1], p>> ELSE Dark
    BY <1>8, <2>3
  <2>5. drawn.screen = Picture(u)
    <3> HIDE DEF drawn, glyph
    <3>1. SameBut(s[n], u[n], k) /\ Paints(glyph, u[n], k)
      BY <2>2, <2>4 DEF SameBut, Paints
    <3>2. Len(s) = n
      BY DEF n
    <3>3. LastPainted(S, s, u, n, k, y, glyph)
      BY <1>1, <1>5, <1>7, <3>1, <3>2 DEF LastPainted, n
    <3>4. Repainted(Picture(s), k, y, glyph) = Picture(u)
      BY <3>3, PictureDrawn
    <3>5. QED
      BY <1>5, <2>1, <3>4
  <2> HIDE DEF drawn
  <2>6. QED
    BY <2>1, <2>5 DEF IsTerminal
<1> HIDE DEF drawn, longer, glyph
<1>10. right = [buffer |-> Append(b, c), x |-> k + 1, y |-> y, screen |-> Picture(u)]
  <2>1. PICK v : v = drawn.x + 1
    OBVIOUS
  <2>2. right = [drawn EXCEPT !.x = v]
    BY <2>1
  <2>3. v = k + 1
    BY <1>5, <1>9, <2>1
  <2> HIDE DEF right
  <2>4. QED
    BY <1>9, <2>2, <2>3, StoreX
<1>11. IsTerminal(right) /\ right.buffer = Append(t.buffer, c)
  BY <1>2, <1>10 DEF IsTerminal
<1>12. /\ right.x = k + 1 /\ right.y = (Len(u) - 1) * LineHeight /\ right.screen = Picture(u)
       /\ right.x = Len(u[Len(u)])
  BY <1>5, <1>6, <1>8, <1>10
<1> HIDE DEF right
<1>13. right.x + 1 >= WIDTH <=> k + 2 >= WIDTH
  BY <1>1, <1>12
<1>14. CASE right.x + 1 >= WIDTH
  <2>1. IsTerminal(NewLine(right)) /\ NewLine(right).buffer = right.buffer /\ Shows(NewLine(right), Down(u))
    BY <1>1, <1>6, <1>11, <1>12, NewLineShows
  <2>2. QED
    BY <1>3, <1>11, <1>13, <1>14, <2>1 DEF k, n
<1>15. CASE ~(right.x + 1 >= WIDTH)
  <2>1. Shows(right, u)
    BY <1>12 DEF Shows
  <2>2. QED
    BY <1>3, <1>11, <1>13, <1>15, <2>1 DEF k, n
<1>16. QED
  BY <1>14, <1>15

\* A backspace inside a line clears what stood there.
LEMMA BackspaceShows ==
  ASSUME NEW S, NEW s \in Seq(Seq(S)), Len(s) \in 1 .. Fit, NEW c \in S, NEW u,
         LastTaken(S, s, u), s[Len(s)] = Append(u[Len(s)], c), Len(s[Len(s)]) < WIDTH,
         NEW t, IsTerminal(t), Shows(t, s), t.buffer # <<>>
  PROVE  /\ IsTerminal(backspace(t)) /\ backspace(t).buffer = Front(t.buffer)
         /\ Shows(backspace(t), u)
<1> DEFINE n == Len(s)
           k == Len(u[n])
           glyph == [p \in 0 .. CHARH - 1 |-> Dark]
           back == [t EXCEPT !.buffer = Front(@), !.x = @ - 1]
           drawn == Drawn(back, glyph)
<1>1. /\ u \in Seq(Seq(S)) /\ Len(u) = n /\ (\A i \in 1 .. n - 1 : u[i] = s[i])
      /\ s[n] = Append(u[n], c)
  BY DEF LastTaken
<1>2. /\ Fit \in Nat /\ WIDTH \in Nat /\ CHARH \in Nat
      /\ n \in Nat /\ n > 0 /\ n \in 1 .. Fit /\ u[n] \in Seq(S) /\ k \in Nat
  BY <1>1, FitFacts, Sizes
<1>3. PICK b, x, y, scr : t = [buffer |-> b, x |-> x, y |-> y, screen |-> scr]
  BY DEF IsTerminal
<1>4. Len(s[n]) = k + 1 /\ DOMAIN s[n] = 1 .. k + 1 /\ \A i \in 1 .. k : s[n][i] = u[n][i]
  BY <1>1, <1>2
<1> HIDE DEF n, k
<1>5. scr = Picture(s) /\ x = k + 1 /\ y = (n - 1) * LineHeight
  BY <1>3, <1>4 DEF Shows, n
<1>6. k \in Columns
  BY <1>2, <1>4 DEF Columns, n
<1>7. back = [buffer |-> Front(b), x |-> k, y |-> y, screen |-> scr]
  <2>1. PICK f : f = Front(b)
    OBVIOUS
  <2>2. PICK r : r = [t EXCEPT !.buffer = f]
    OBVIOUS
  <2>3. r = [buffer |-> f, x |-> x, y |-> y, screen |-> scr] /\ t.x = x /\ t.buffer = b
    BY <1>3, <2>2, StoreBuffer
  <2>4. t.x - 1 = k
    BY <1>2, <1>5, <2>3
  <2>5. back = [[t EXCEPT !.buffer = f] EXCEPT !.x = k]
    BY <2>1, <2>3, <2>4
  <2>6. [r EXCEPT !.x = k] = [buffer |-> f, x |-> k, y |-> y, screen |-> scr]
    BY <2>3
  <2>7. QED
    BY <2>1, <2>2, <2>5, <2>6
<1>8. backspace(t) = drawn
  <2>1. t.buffer # <<>> /\ ~(back.x < 0)
    <3> HIDE DEF back
    <3>1. QED
      BY <1>2, <1>7
  <2>2. backspace(t) = Drawn(IF back.x < 0 THEN [back EXCEPT !.x = WIDTH - 1, !.y = @ - LineHeight] ELSE back,
                             glyph)
    BY <2>1 DEF backspace
  <2> HIDE DEF back, glyph
  <2>3. QED
    BY <2>1, <2>2
<1>9. /\ IsTerminal(drawn) /\ drawn.buffer = Front(b) /\ drawn.x = k /\ drawn.y = y
      /\ drawn.screen = Repainted(scr, k, y, glyph)
  <2>1. IsTerminal(back)
    BY <1>7 DEF IsTerminal
  <2>2. back.buffer = Front(b) /\ back.x = k /\ back.y = y /\ back.screen = scr
    BY <1>7
  <2> HIDE DEF back, glyph
  <2>3. QED
    BY <2>1, <2>2, DrawnFields
<1>10. ASSUME NEW col \in Columns, col # k
       PROVE  /\ col + 1 \in DOMAIN u[n] <=> col + 1 \in DOMAIN s[n]
              /\ col + 1 \in DOMAIN s[n] => u[n][col + 1] = s[n][col + 1]
  <2>1. col \in Int /\ DOMAIN u[n] = 1 .. k
    BY <1>2 DEF Columns, k
  <2>2. QED
    BY <1>2, <1>4, <1>10, <2>1
<1>11. k + 1 \notin DOMAIN u[n]
  BY <1>2 DEF k
<1>12. \A p \in 0 .. CHARH - 1 :
         glyph[p] = IF k + 1 \in DOMAIN u[n] THEN <<u[n][k + 1], p>> ELSE Dark
  BY <1>11
<1> HIDE DEF drawn, glyph, back
<1>13. Repainted(Picture(s), k, y, glyph) = Picture(u)
  <2>1. SameBut(s[n], u[n], k) /\ Paints(glyph, u[n], k)
    BY <1>10, <1>12 DEF SameBut, Paints
  <2>2. Len(s) = n
    BY DEF n
  <2>3. LastPainted(S, s, u, n, k, y, glyph)
    BY <1>2, <1>5, <1>6, <2>1, <2>2 DEF LastPainted, n
  <2>4. QED
    BY <2>3, PictureDrawn
<1>14. drawn.screen = Picture(u)
  BY <1>5, <1>9, <1>13
<1>15. Shows(drawn, u)
  BY <1>1, <1>5, <1>9, <1>14 DEF Shows, k
<1>16. QED
  BY <1>3, <1>8, <1>9, <1>15
\* A step for each place, taken one after the other from b.
Trace(f, N, b, s) == f[0] = b /\ \A n \in 1 .. N : f[n] = s[n][f[n - 1]]

LEMMA Traced ==
  ASSUME NEW X, NEW b \in X, NEW N \in Nat, NEW s \in [1 .. N -> [X -> X]]
  PROVE  \E f \in [0 .. N -> X] : Trace(f, N, b, s)
<1> DEFINE T == {q \in Nat : q =< N /\ ~ \E f \in [0 .. q -> X] : Trace(f, q, b, s)}
<1>1. SUFFICES ASSUME T # {} PROVE FALSE
  OBVIOUS
<1>2. PICK m \in T : \A q \in T : m =< q
  BY <1>1, Least
<1>3. m # 0
  <2>1. SUFFICES ASSUME m = 0 PROVE FALSE
    OBVIOUS
  <2>2. [q \in 0 .. 0 |-> b] \in [0 .. 0 -> X]
    OBVIOUS
  <2>3. Trace([q \in 0 .. 0 |-> b], 0, b, s)
    BY DEF Trace
  <2>4. QED
    BY <1>2, <2>1, <2>2, <2>3
<1>4. m \in Nat /\ m - 1 \in Nat /\ m - 1 =< N /\ m =< N /\ ~(m =< m - 1)
  BY <1>2, <1>3
<1>5. PICK f \in [0 .. m - 1 -> X] : Trace(f, m - 1, b, s)
  BY <1>2, <1>4
<1> DEFINE g == [q \in 0 .. m |-> IF q = m THEN s[m][f[m - 1]] ELSE f[q]]
<1>6. g \in [0 .. m -> X]
  <2>1. m \in 1 .. N /\ f[m - 1] \in X
    BY <1>4
  <2>2. s[m][f[m - 1]] \in X
    BY <2>1
  <2>3. ASSUME NEW q \in 0 .. m, q # m PROVE f[q] \in X
    BY <1>4, <2>3
  <2>4. QED
    BY <2>2, <2>3
<1>7. Trace(g, m, b, s)
  <2>1. f[0] = b /\ \A n \in 1 .. m - 1 : f[n] = s[n][f[n - 1]]
    BY <1>5 DEF Trace
  <2>2. g[0] = b
    BY <1>4, <2>1
  <2>3. ASSUME NEW n \in 1 .. m PROVE g[n] = s[n][g[n - 1]]
    <3>1. n - 1 \in 0 .. m /\ n - 1 # m /\ n \in 0 .. m
      BY <1>4
    <3>2. g[n - 1] = f[n - 1]
      BY <3>1
    <3>3. CASE n = m
      BY <3>1, <3>2, <3>3
    <3>4. CASE n # m
      <4>1. n \in 1 .. m - 1
        BY <1>4, <3>4
      <4>2. QED
        BY <2>1, <3>1, <3>2, <3>4, <4>1
    <3>5. QED
      BY <3>3, <3>4
  <2>4. QED
    BY <2>2, <2>3 DEF Trace
<1>8. QED
  BY <1>2, <1>6, <1>7

\* What holds at its start and is kept by its steps holds on the whole trace.
LEMMA TraceStays ==
  ASSUME NEW N \in Nat, NEW f, NEW P, f[0] \in P, \A n \in 1 .. N : f[n - 1] \in P => f[n] \in P
  PROVE  \A n \in 0 .. N : f[n] \in P
<1> DEFINE T == {q \in Nat : q =< N /\ f[q] \notin P}
<1>1. SUFFICES ASSUME T # {} PROVE FALSE
  OBVIOUS
<1>2. PICK m \in T : \A q \in T : m =< q
  BY <1>1, Least
<1>3. m \in 1 .. N /\ m - 1 \in Nat /\ m - 1 =< N /\ ~(m =< m - 1)
  BY <1>2
<1>4. f[m - 1] \in P
  BY <1>2, <1>3
<1>5. QED
  BY <1>2, <1>3, <1>4

LEMMA TraceKeeps ==
  ASSUME NEW N \in Nat, NEW f, NEW P, f[0] \in P[0],
         \A n \in 1 .. N : f[n - 1] \in P[n - 1] => f[n] \in P[n]
  PROVE  \A n \in 0 .. N : f[n] \in P[n]
<1> DEFINE T == {q \in Nat : q =< N /\ f[q] \notin P[q]}
<1>1. SUFFICES ASSUME T # {} PROVE FALSE
  OBVIOUS
<1>2. PICK m \in T : \A q \in T : m =< q
  BY <1>1, Least
<1>3. m \in 1 .. N /\ m - 1 \in Nat /\ m - 1 =< N /\ ~(m =< m - 1)
  BY <1>2
<1>4. f[m - 1] \in P[m - 1]
  BY <1>2, <1>3
<1>5. QED
  BY <1>2, <1>3, <1>4

-----------------------------------------------------------------------------
\* The lines of a text.  None of them reaches the last column.
LineSeqs(S) ==
  {all \in Seq(Seq(S)) : Len(all) > 0 /\ all[Len(all)] \in Seq(S) /\ Len(all[Len(all)]) < WIDTH - 1}

Longer(all, c) == Front(all) \o <<Append(Last(all), c)>>

LEMMA LastExchanged ==
  ASSUME NEW S, NEW all \in Seq(Seq(S)), Len(all) > 0, NEW x \in Seq(S)
  PROVE  LastTaken(S, all, Front(all) \o <<x>>) /\ (Front(all) \o <<x>>)[Len(all)] = x
<1> DEFINE n == Len(all)
           f == Front(all)
<1>1. n \in Nat /\ n > 0 /\ n - 1 \in Nat /\ \A i \in 1 .. n - 1 : all[i] \in Seq(S)
  OBVIOUS
<1>2. f \in Seq(Seq(S)) /\ Len(f) = n - 1 /\ \A i \in 1 .. n - 1 : f[i] = all[i]
  <2>1. f = SubSeq(all, 1, n - 1)
    BY DEF Front
  <2> HIDE DEF f
  <2>2. /\ f \in Seq(Seq(S)) /\ Len(f) = IF 1 =< n - 1 THEN n - 1 - 1 + 1 ELSE 0
        /\ \A i \in 1 .. n - 1 - 1 + 1 : f[i] = all[1 + i - 1]
    BY <1>1, <2>1, SubSeqProperties
  <2> HIDE DEF n
  <2>3. Len(f) = n - 1 /\ n - 1 - 1 + 1 = n - 1
    <3>1. PICK m \in Nat : m = n - 1 /\ m - 1 + 1 = m
      BY <1>1
    <3>2. Len(f) = IF 1 =< m THEN m - 1 + 1 ELSE 0
      BY <2>2, <3>1
    <3>3. QED
      BY <3>1, <3>2
  <2>4. ASSUME NEW i \in 1 .. n - 1 PROVE f[i] = all[i]
    <3>1. 1 + i - 1 = i
      OBVIOUS
    <3>2. QED
      BY <2>2, <2>3, <3>1
  <2>5. QED
    BY <2>2, <2>3, <2>4
<1> HIDE DEF f, n
<1>3. /\ f \o <<x>> \in Seq(Seq(S)) /\ Len(f \o <<x>>) = n
      /\ (\A i \in 1 .. n - 1 : (f \o <<x>>)[i] = f[i]) /\ (f \o <<x>>)[n] = x
  <2>1. f \o <<x>> = Append(f, x)
    BY <1>2, AppendIsConcat
  <2>2. /\ Append(f, x) \in Seq(Seq(S)) /\ Len(Append(f, x)) = Len(f) + 1
        /\ (\A i \in 1 .. Len(f) : Append(f, x)[i] = f[i]) /\ Append(f, x)[Len(f) + 1] = x
    BY <1>2, AppendProperties
  <2>3. Len(f) + 1 = n
    BY <1>1, <1>2
  <2>4. QED
    BY <1>2, <2>1, <2>2, <2>3
<1>4. QED
  BY <1>2, <1>3 DEF LastTaken, n, f

LEMMA AddToIs ==
  ASSUME NEW S, NEW all \in LineSeqs(S), NEW c \in S
  PROVE  /\ LastTaken(S, all, Longer(all, c))
         /\ Longer(all, c)[Len(all)] = Append(all[Len(all)], c)
         /\ c = NewlineChar => AddTo(all, c) = Append(all, <<>>)
         /\ c # NewlineChar =>
              AddTo(all, c) = IF Len(all[Len(all)]) + 2 >= WIDTH THEN Append(Longer(all, c), <<>>)
                              ELSE Longer(all, c)
         /\ AddTo(all, c) \in LineSeqs(S)
<1> DEFINE n == Len(all)
           k == Len(all[n])
           more == Longer(all, c)
<1>1. /\ all \in Seq(Seq(S)) /\ n \in Nat /\ n > 0 /\ all[n] \in Seq(S) /\ k \in Nat
      /\ k < WIDTH - 1 /\ WIDTH \in Nat /\ WIDTH > 1 /\ Last(all) = all[n]
  BY Sizes DEF LineSeqs, Last
<1>2. Append(all[n], c) \in Seq(S) /\ Len(Append(all[n], c)) = k + 1
  BY <1>1
<1> HIDE DEF n, k
<1>3. LastTaken(S, all, more) /\ more[n] = Append(all[n], c)
  BY <1>1, <1>2, LastExchanged DEF Longer, n
<1>4. more \in Seq(Seq(S)) /\ Len(more) = n
  BY <1>3 DEF LastTaken, n
<1>5. c = NewlineChar => AddTo(all, c) = Append(all, <<>>)
  BY DEF AddTo
<1>6. k + 1 = WIDTH - 1 <=> k + 2 >= WIDTH
  BY <1>1
<1>7. c # NewlineChar => AddTo(all, c) = IF k + 2 >= WIDTH THEN Append(more, <<>>) ELSE more
  <2>1. CASE k + 2 >= WIDTH
    <3>1. c # NewlineChar => AddTo(all, c) = Longer(all, c) \o << <<>> >>
      BY <1>1, <1>6, <2>1 DEF AddTo, Longer, k
    <3>2. <<>> \in Seq(S)
      OBVIOUS
    <3>3. more \o << <<>> >> = Append(more, <<>>)
      BY <1>4, <3>2, AppendIsConcat
    <3>4. QED
      BY <2>1, <3>1, <3>3
  <2>2. CASE ~(k + 2 >= WIDTH)
    <3>1. c # NewlineChar => AddTo(all, c) = Longer(all, c) \o <<>>
      BY <1>1, <1>6, <2>2 DEF AddTo, Longer, k
    <3>2. more \o <<>> = more
      BY <1>4, ConcatEmptySeq
    <3>3. QED
      BY <2>2, <3>1, <3>2
  <2>3. QED
    BY <2>1, <2>2
<1>8. ASSUME NEW r \in Seq(Seq(S)) PROVE Append(r, <<>>) \in LineSeqs(S)
  <2>1. /\ Append(r, <<>>) \in Seq(Seq(S)) /\ Len(Append(r, <<>>)) = Len(r) + 1
        /\ Append(r, <<>>)[Len(r) + 1] = <<>> /\ Len(r) \in Nat
    OBVIOUS
  <2>2. <<>> \in Seq(S) /\ Len(<<>>) = 0
    OBVIOUS
  <2>3. PICK a, m : a = Append(r, <<>>) /\ m = Len(r) + 1
    OBVIOUS
  <2>4. a \in Seq(Seq(S)) /\ Len(a) = m /\ m > 0 /\ a[m] = <<>>
    BY <2>1, <2>3
  <2>5. a \in LineSeqs(S)
    BY <1>1, <2>2, <2>4 DEF LineSeqs
  <2>6. QED
    BY <2>3, <2>5
<1>9. ~(k + 2 >= WIDTH) => more \in LineSeqs(S)
  BY <1>1, <1>2, <1>3, <1>4 DEF LineSeqs
<1> HIDE DEF more
<1>10. AddTo(all, c) \in LineSeqs(S)
  BY <1>1, <1>4, <1>5, <1>7, <1>8, <1>9
<1>11. QED
  BY <1>3, <1>5, <1>7, <1>10 DEF more, n, k

\* The lines grow by a character at a time.
LEMMA LinesTraced ==
  ASSUME NEW S, NEW text \in Seq(S)
  PROVE  \E f : /\ f[0] = << <<>> >>
                /\ \A n \in 1 .. Len(text) : f[n] = AddTo(f[n - 1], text[n])
                /\ \A n \in 0 .. Len(text) : f[n] \in LineSeqs(S)
                /\ Lines(text) = f[Len(text)]
<1> DEFINE N == Len(text)
           X == LineSeqs(S)
           start == << <<>> >>
           s == [n \in 1 .. N |-> [x \in X |-> AddTo(x, text[n])]]
           G(f) == [n \in 0 .. N |-> IF n = 0 THEN start ELSE AddTo(f[n - 1], text[n])]
<1>1. N \in Nat /\ \A n \in 1 .. N : text[n] \in S
  OBVIOUS
<1>2. start \in X
  <2>1. WIDTH \in Nat /\ WIDTH > 1
    BY Sizes
  <2>2. PICK e \in Seq(S) : e = <<>> /\ Len(e) = 0
    <3>1. <<>> \in Seq(S) /\ Len(<<>>) = 0
      OBVIOUS
    <3>2. QED
      BY <3>1
  <2>3. PICK a \in Seq(Seq(S)) : a = <<e>> /\ Len(a) = 1 /\ a[1] = e
    <3>1. <<e>> \in Seq(Seq(S)) /\ Len(<<e>>) = 1 /\ <<e>>[1] = e
      OBVIOUS
    <3>2. QED
      BY <3>1
  <2>4. a \in LineSeqs(S)
    <3>1. a[Len(a)] = e /\ Len(a) > 0
      BY <2>3
    <3>2. Len(e) < WIDTH - 1
      BY <2>1, <2>2
    <3>3. QED
      BY <3>1, <3>2 DEF LineSeqs
  <2>5. QED
    BY <2>2, <2>3, <2>4
<1> HIDE DEF N
<1>3. \A n \in 1 .. N : \A x \in X : AddTo(x, text[n]) \in X
  BY <1>1, AddToIs
<1> HIDE DEF X, start
<1>4. s \in [1 .. N -> [X -> X]]
  BY <1>3
<1>5. PICK f \in [0 .. N -> X] : Trace(f, N, start, s)
  BY <1>1, <1>2, <1>4, Traced
<1>6. f = G(f)
  <2>1. f[0] = start /\ \A n \in 1 .. N : f[n] = s[n][f[n - 1]]
    BY <1>5 DEF Trace
  <2>2. ASSUME NEW n \in 0 .. N PROVE f[n] = IF n = 0 THEN start ELSE AddTo(f[n - 1], text[n])
    <3>1. CASE n = 0
      BY <2>1, <3>1
    <3>2. CASE n # 0
      <4>1. n \in 1 .. N /\ n - 1 \in 0 .. N
        BY <1>1, <3>2
      <4>2. f[n - 1] \in X
        BY <4>1
      <4>3. QED
        BY <2>1, <3>2, <4>1, <4>2
    <3>3. QED
      BY <3>1, <3>2
  <2>3. QED
    BY <2>2
<1> DEFINE g == CHOOSE g : g = G(g)
<1>7. g = G(g)
  BY <1>6
<1>8. Lines(text) = g[N]
  BY Zenon DEF Lines, N, start
<1> HIDE DEF g
<1>9. g[0] = start
  BY <1>1, <1>7
<1>10. ASSUME NEW n \in 1 .. N PROVE g[n] = AddTo(g[n - 1], text[n])
  <2>1. n \in 0 .. N /\ n # 0
    BY <1>1
  <2>2. QED
    BY <1>7, <2>1
<1>11. \A n \in 0 .. N : g[n] \in X
  <2>1. \A n \in 1 .. N : g[n - 1] \in X => g[n] \in X
    BY <1>3, <1>10
  <2>2. QED
    BY <1>1, <1>2, <1>9, <2>1, TraceStays
<1>12. QED
  BY <1>8, <1>9, <1>10, <1>11 DEF N, X, start

LEMMA LinesMore ==
  ASSUME NEW S, NEW text \in Seq(S), NEW c \in S
  PROVE  /\ Lines(text) \in LineSeqs(S)
         /\ Lines(Append(text, c)) = AddTo(Lines(text), c)
<1> DEFINE L == Len(text)
           more == Append(text, c)
<1>1. /\ L \in Nat /\ more \in Seq(S) /\ Len(more) = L + 1
      /\ (\A q \in 1 .. L : more[q] = text[q]) /\ more[L + 1] = c
  BY AppendProperties
<1> HIDE DEF more
<1>2. PICK f : /\ f[0] = << <<>> >>
               /\ \A n \in 1 .. Len(more) : f[n] = AddTo(f[n - 1], more[n])
               /\ Lines(more) = f[Len(more)]
  BY <1>1, LinesTraced
<1>3. PICK g : /\ g[0] = << <<>> >>
               /\ \A n \in 1 .. Len(text) : g[n] = AddTo(g[n - 1], text[n])
               /\ \A n \in 0 .. Len(text) : g[n] \in LineSeqs(S)
               /\ Lines(text) = g[Len(text)]
  BY LinesTraced
<1> HIDE DEF L
<1> DEFINE P == [n \in 0 .. L |-> {g[n]}]
<1>4. f[0] \in P[0]
  BY <1>1, <1>2, <1>3
<1>5. ASSUME NEW n \in 1 .. L, f[n - 1] \in P[n - 1] PROVE f[n] \in P[n]
  <2>1. n \in 0 .. L /\ n - 1 \in 0 .. L /\ n \in 1 .. Len(more) /\ n \in 1 .. Len(text)
    BY <1>1 DEF L
  <2>2. f[n - 1] = g[n - 1] /\ more[n] = text[n]
    BY <1>1, <1>5, <2>1
  <2>3. f[n] = g[n]
    BY <1>2, <1>3, <2>1, <2>2
  <2>4. QED
    BY <2>1, <2>3
<1> HIDE DEF P
<1>6. \A n \in 0 .. L : f[n] \in P[n]
  BY <1>1, <1>4, <1>5, TraceKeeps
<1>7. f[L] = g[L] /\ g[L] \in LineSeqs(S)
  <2>1. L \in 0 .. L
    BY <1>1
  <2>2. QED
    BY <1>3, <1>6, <2>1 DEF P, L
<1>8. f[L + 1] = AddTo(f[L], more[L + 1])
  <2>1. L + 1 \in 1 .. Len(more) /\ (L + 1) - 1 = L
    BY <1>1
  <2>2. QED
    BY <1>2, <2>1
<1>9. Lines(text) = g[L] /\ Lines(more) = f[L + 1]
  BY <1>1, <1>2, <1>3 DEF L
<1>10. QED
  BY <1>1, <1>7, <1>8, <1>9 DEF more

LEMMA NoLines ==
  Lines(<<>>) = << <<>> >>
<1>1. <<>> \in Seq({1}) /\ Len(<<>>) = 0
  OBVIOUS
<1>2. PICK f : f[0] = << <<>> >> /\ Lines(<<>>) = f[Len(<<>>)]
  BY <1>1, LinesTraced
<1>3. QED
  BY <1>1, <1>2

\* The lines that fit, of any number of lines.
Ending(all) == IF Len(all) =< Fit THEN all ELSE SubSeq(all, Len(all) - Fit + 1, Len(all))

LEMMA EndingIs ==
  ASSUME NEW S, NEW all \in Seq(Seq(S)), Len(all) > 0
  PROVE  /\ Ending(all) \in Seq(Seq(S)) /\ Len(Ending(all)) \in 1 .. Fit
         /\ Len(Ending(all)) = IF Len(all) =< Fit THEN Len(all) ELSE Fit
         /\ \A i \in 1 .. Len(Ending(all)) : Ending(all)[i] = all[Len(all) - Len(Ending(all)) + i]
<1>1. Fit \in Nat /\ Fit > 0 /\ Len(all) \in Nat
  BY FitFacts
<1>2. CASE Len(all) =< Fit
  <2>1. Ending(all) = all
    BY <1>2 DEF Ending
  <2>2. ASSUME NEW i \in 1 .. Len(all) PROVE Len(all) - Len(all) + i = i
    BY <1>1
  <2>3. QED
    BY <1>1, <1>2, <2>1, <2>2
<1>3. CASE ~(Len(all) =< Fit)
  <2> DEFINE e == Ending(all)
             n == Len(all)
             m == n - Fit + 1
  <2>1. e = SubSeq(all, m, n)
    BY <1>3 DEF Ending
  <2>2. \A i \in m .. n : all[i] \in Seq(S)
    BY <1>1, <1>3
  <2>3. m \in Int /\ n \in Int /\ m =< n /\ n - m + 1 = Fit /\ \A i \in 1 .. Fit : m + i - 1 = n - Fit + i
    BY <1>1, <1>3
  <2> HIDE DEF e, m, n
  <2>4. /\ e \in Seq(Seq(S)) /\ Len(e) = IF m =< n THEN n - m + 1 ELSE 0
        /\ \A i \in 1 .. n - m + 1 : e[i] = all[m + i - 1]
    BY <2>1, <2>2, <2>3, SubSeqProperties
  <2>5. Len(e) = Fit /\ \A i \in 1 .. Fit : e[i] = all[n - Fit + i]
    BY <2>3, <2>4
  <2>6. QED
    BY <1>1, <1>3, <2>4, <2>5 DEF e, n
<1>4. QED
  BY <1>2, <1>3

LEMMA EndingTaken ==
  ASSUME NEW S, NEW all \in Seq(Seq(S)), Len(all) > 0, NEW more, LastTaken(S, all, more)
  PROVE  /\ LastTaken(S, Ending(all), Ending(more)) /\ LastTaken(S, Ending(more), Ending(all))
         /\ Ending(all)[Len(Ending(all))] = all[Len(all)]
         /\ Ending(more)[Len(Ending(all))] = more[Len(all)]
<1> DEFINE n == Len(all)
           s == Ending(all)
           u == Ending(more)
           k == Len(s)
<1>1. more \in Seq(Seq(S)) /\ Len(more) = n /\ n \in Nat /\ n > 0 /\ \A i \in 1 .. n - 1 : more[i] = all[i]
  BY DEF LastTaken
<1>2. /\ s \in Seq(Seq(S)) /\ k \in 1 .. Fit /\ k = (IF n =< Fit THEN n ELSE Fit)
      /\ \A i \in 1 .. k : s[i] = all[n - k + i]
  BY EndingIs
<1>3. /\ u \in Seq(Seq(S)) /\ Len(u) = (IF n =< Fit THEN n ELSE Fit)
      /\ \A i \in 1 .. Len(u) : u[i] = more[n - Len(u) + i]
  <2>1. /\ u \in Seq(Seq(S)) /\ Len(u) = (IF Len(more) =< Fit THEN Len(more) ELSE Fit)
        /\ \A i \in 1 .. Len(u) : u[i] = more[Len(more) - Len(u) + i]
    <3>1. more \in Seq(Seq(S)) /\ Len(more) > 0
      BY <1>1
    <3>2. QED
      BY <3>1, EndingIs
  <2> HIDE DEF u, n
  <2>2. QED
    BY <1>1, <2>1
<1>4. Fit \in Nat
  BY FitFacts
<1> HIDE DEF n, s, u
<1>5. k \in Nat /\ k > 0 /\ k =< n /\ Len(u) = k
  BY <1>1, <1>2, <1>3, <1>4
<1> HIDE DEF k
<1>6. ASSUME NEW i \in 1 .. k - 1 PROVE u[i] = s[i]
  <2>1. i \in 1 .. k /\ n - k + i \in 1 .. n - 1
    BY <1>1, <1>5
  <2>2. QED
    BY <1>1, <1>2, <1>3, <1>5, <2>1
<1>7. s[k] = all[n] /\ u[k] = more[n]
  <2>1. k \in 1 .. k /\ n - k + k = n
    BY <1>1, <1>5
  <2>2. QED
    BY <1>2, <1>3, <1>5, <2>1
<1>8. LastTaken(S, s, u) /\ LastTaken(S, u, s)
  BY <1>2, <1>3, <1>5, <1>6 DEF LastTaken, k
<1>9. QED
  BY <1>7, <1>8 DEF n, s, u, k

LEMMA EndingDown ==
  ASSUME NEW S, NEW all \in Seq(Seq(S)), Len(all) > 0
  PROVE  Ending(Append(all, <<>>)) = Down(Ending(all))
<1> DEFINE more == Append(all, <<>>)
           n == Len(all)
           s == Ending(all)
           u == Ending(more)
           d == Down(s)
           m == n + 1
<1>1. <<>> \in Seq(S)
  OBVIOUS
<1>2. /\ more \in Seq(Seq(S)) /\ Len(more) = m /\ more[m] = <<>>
      /\ n \in Nat /\ n > 0 /\ m \in Nat /\ m = n + 1 /\ m > 0
      /\ \A i \in 1 .. n : more[i] = all[i]
  BY <1>1, AppendProperties
<1>3. /\ s \in Seq(Seq(S)) /\ Len(s) \in 1 .. Fit /\ Len(s) = (IF n =< Fit THEN n ELSE Fit)
      /\ \A i \in 1 .. Len(s) : s[i] = all[n - Len(s) + i]
  BY EndingIs
<1> HIDE DEF more, s, m
<1>4. /\ u \in Seq(Seq(S)) /\ Len(u) \in 1 .. Fit /\ Len(u) = (IF m =< Fit THEN m ELSE Fit)
      /\ \A i \in 1 .. Len(u) : u[i] = more[m - Len(u) + i]
  <2>1. /\ u \in Seq(Seq(S)) /\ Len(u) \in 1 .. Fit
        /\ Len(u) = (IF Len(more) =< Fit THEN Len(more) ELSE Fit)
        /\ \A i \in 1 .. Len(u) : u[i] = more[Len(more) - Len(u) + i]
    <3>1. more \in Seq(Seq(S)) /\ Len(more) > 0
      BY <1>2
    <3>2. QED
      BY <3>1, EndingIs
  <2> HIDE DEF u, n
  <2>2. QED
    BY <1>2, <2>1
<1>5. /\ d \in Seq(Seq(S)) /\ Len(d) \in 1 .. Fit /\ d[Len(d)] = <<>>
      /\ Len(s) < Fit => Len(d) = Len(s) + 1 /\ \A i \in 1 .. Len(s) : d[i] = s[i]
      /\ Len(s) = Fit => Len(d) = Fit /\ \A i \in 1 .. Fit - 1 : d[i] = s[i + 1]
  BY <1>3, DownFacts
<1>6. Fit \in Nat /\ Fit > 0
  BY FitFacts
<1> HIDE DEF u, d, n
<1>7. CASE n < Fit
  <2>1. Len(s) = n /\ Len(u) = m /\ Len(d) = m /\ \A i \in 1 .. n : d[i] = s[i]
    <3>1. n =< Fit /\ m =< Fit
      BY <1>2, <1>6, <1>7
    <3>2. Len(s) = n /\ Len(u) = m
      BY <1>3, <1>4, <3>1
    <3>3. Len(s) < Fit
      BY <1>7, <3>2
    <3>4. Len(d) = Len(s) + 1 /\ \A i \in 1 .. Len(s) : d[i] = s[i]
      BY <1>5, <3>3
    <3>5. QED
      BY <1>2, <3>2, <3>4
  <2>2. ASSUME NEW i \in 1 .. n PROVE u[i] = d[i]
    <3>1. i \in 1 .. m /\ m - m + i = i /\ n - n + i = i
      BY <1>2
    <3>2. u[i] = more[i]
      BY <1>4, <2>1, <3>1
    <3>3. s[i] = all[i]
      BY <1>3, <2>1, <3>1
    <3>4. QED
      BY <1>2, <2>1, <3>2, <3>3
  <2>3. u[m] = d[m]
    <3>1. m \in 1 .. m /\ m - m + m = m
      BY <1>2
    <3>2. QED
      BY <1>2, <1>4, <1>5, <2>1, <3>1
  <2>4. \A i \in 1 .. m : u[i] = d[i]
    BY <1>2, <2>2, <2>3
  <2>5. u = d
    BY <1>4, <1>5, <2>1, <2>4, SeqEqual
  <2>6. QED
    BY <2>5 DEF u, d, more, s
<1>8. CASE ~(n < Fit)
  <2>1. Len(s) = Fit /\ Len(u) = Fit /\ Len(d) = Fit /\ \A i \in 1 .. Fit - 1 : d[i] = s[i + 1]
    <3>1. (n =< Fit => n = Fit) /\ ~(m =< Fit)
      BY <1>2, <1>6, <1>8
    <3>2. Len(s) = Fit /\ Len(u) = Fit
      BY <1>3, <1>4, <3>1
    <3>3. QED
      BY <1>5, <3>2
  <2>2. ASSUME NEW i \in 1 .. Fit - 1 PROVE u[i] = d[i]
    <3>1. i \in 1 .. Fit /\ i + 1 \in 1 .. Fit /\ m - Fit + i \in 1 .. n
          /\ n - Fit + (i + 1) = m - Fit + i
      BY <1>2, <1>6, <1>8
    <3>2. d[i] = all[n - Fit + (i + 1)]
      BY <1>3, <2>1, <3>1
    <3>3. u[i] = more[m - Fit + i]
      BY <1>4, <2>1, <3>1
    <3>4. QED
      BY <1>2, <3>1, <3>2, <3>3
  <2>3. u[Fit] = d[Fit]
    <3>1. Fit \in 1 .. Fit /\ m - Fit + Fit = m
      BY <1>2, <1>6
    <3>2. u[Fit] = more[m - Fit + Fit]
      BY <1>4, <2>1, <3>1
    <3>3. QED
      BY <1>2, <1>5, <2>1, <3>1, <3>2
  <2>4. \A i \in 1 .. Fit : u[i] = d[i]
    BY <1>6, <2>2, <2>3
  <2>5. u = d
    BY <1>4, <1>5, <2>1, <2>4, SeqEqual
  <2>6. QED
    BY <2>5 DEF u, d, more, s
<1>9. QED
  BY <1>7, <1>8

\* A terminal that shows its buffer.
Sound(S, t) == IsTerminal(t) /\ t.buffer \in Seq(S) /\ Shows(t, Shown(t.buffer))

LEMMA ShownIs ==
  ASSUME NEW S, NEW text \in Seq(S)
  PROVE  /\ Shown(text) = Ending(Lines(text)) /\ Lines(text) \in LineSeqs(S)
         /\ Lines(text) \in Seq(Seq(S)) /\ Len(Lines(text)) > 0
         /\ Shown(text) \in Seq(Seq(S)) /\ Len(Shown(text)) \in 1 .. Fit
         /\ Shown(text)[Len(Shown(text))] = Lines(text)[Len(Lines(text))]
<1> DEFINE all == Lines(text)
<1>1. Shown(text) = Ending(all)
  BY Zenon DEF Shown, Ending
<1>2. all \in LineSeqs(S)
  <2>1. PICK f : (\A n \in 0 .. Len(text) : f[n] \in LineSeqs(S)) /\ Lines(text) = f[Len(text)]
    BY LinesTraced
  <2>2. Len(text) \in 0 .. Len(text)
    OBVIOUS
  <2>3. QED
    BY <2>1, <2>2
<1> HIDE DEF all
<1>3. all \in Seq(Seq(S)) /\ Len(all) > 0
  BY <1>2 DEF LineSeqs
<1>4. Ending(all) \in Seq(Seq(S)) /\ Len(Ending(all)) \in 1 .. Fit
  BY <1>3, EndingIs
<1>5. LastTaken(S, all, all)
  BY <1>3 DEF LastTaken
<1>6. Ending(all)[Len(Ending(all))] = all[Len(all)]
  BY <1>3, <1>5, EndingTaken
<1>7. QED
  BY <1>1, <1>2, <1>3, <1>4, <1>6 DEF all

LEMMA NewlineSound ==
  ASSUME NEW S, NEW t, Sound(S, t), NEW c \in S, c = NewlineChar
  PROVE  Sound(S, Put(t, c))
<1> DEFINE b == t.buffer
           s == Shown(b)
           down == NewLine(t)
           new == [down EXCEPT !.buffer = Append(@, c)]
<1>1. IsTerminal(t) /\ b \in Seq(S) /\ Shows(t, s)
  BY DEF Sound
<1>2. /\ s = Ending(Lines(b)) /\ Lines(b) \in LineSeqs(S) /\ Lines(b) \in Seq(Seq(S)) /\ Len(Lines(b)) > 0
      /\ s \in Seq(Seq(S)) /\ Len(s) \in 1 .. Fit
  BY <1>1, ShownIs
<1>3. Put(t, c) = new
  <2>1. c # Backspace /\ c \notin Invisible
    BY DEF Backspace, NewlineChar, Invisible
  <2>2. QED
    BY <2>1 DEF Put
<1> HIDE DEF s, b
<1>4. IsTerminal(down) /\ down.buffer = b /\ Shows(down, Down(s))
  BY <1>1, <1>2, NewLineShows DEF Shows, b
<1>5. Append(b, c) \in Seq(S)
  BY <1>1
<1>6. Shown(Append(b, c)) = Down(s)
  <2>1. Lines(Append(b, c)) = AddTo(Lines(b), c)
    BY <1>1, LinesMore
  <2>2. AddTo(Lines(b), c) = Append(Lines(b), <<>>)
    BY <1>2, AddToIs
  <2>3. Shown(Append(b, c)) = Ending(Lines(Append(b, c)))
    BY <1>5, ShownIs
  <2>4. QED
    BY <1>2, <2>1, <2>2, <2>3, EndingDown
<1> HIDE DEF down
<1>7. /\ IsTerminal(new) /\ new.buffer = Append(b, c) /\ new.x = down.x /\ new.y = down.y
      /\ new.screen = down.screen
  <2>1. PICK x, y, scr : down = [buffer |-> b, x |-> x, y |-> y, screen |-> scr]
    BY <1>4 DEF IsTerminal
  <2>2. PICK f : f = Append(b, c)
    OBVIOUS
  <2>3. new = [down EXCEPT !.buffer = f]
    BY <1>4, <2>2
  <2>4. new = [buffer |-> f, x |-> x, y |-> y, screen |-> scr]
    BY <2>1, <2>3, StoreBuffer
  <2>5. QED
    BY <2>1, <2>2, <2>4 DEF IsTerminal
<1> HIDE DEF new
<1>8. QED
  BY <1>3, <1>4, <1>5, <1>6, <1>7 DEF Sound, Shows

LEMMA Print1Sound ==
  ASSUME NEW S, NEW t, Sound(S, t), NEW c \in S, c # NewlineChar
  PROVE  Sound(S, Print1(t, c))
<1> DEFINE b == t.buffer
           all == Lines(b)
           s == Ending(all)
           more == Longer(all, c)
           u == Ending(more)
           new == Print1(t, c)
<1>1. IsTerminal(t) /\ b \in Seq(S) /\ Shows(t, Shown(b)) /\ Len(b) \in Nat /\ BUFFER \in Nat
  BY Sizes DEF Sound
<1>2. /\ Shown(b) = s /\ all \in LineSeqs(S) /\ all \in Seq(Seq(S)) /\ Len(all) > 0
      /\ s \in Seq(Seq(S)) /\ Len(s) \in 1 .. Fit /\ s[Len(s)] = all[Len(all)]
  BY <1>1, ShownIs
<1>3. CASE Len(b) >= BUFFER
  BY <1>3 DEF Print1
<1>4. CASE ~(Len(b) >= BUFFER)
  <2>1. /\ LastTaken(S, all, more) /\ more[Len(all)] = Append(all[Len(all)], c)
        /\ AddTo(all, c) = IF Len(all[Len(all)]) + 2 >= WIDTH THEN Append(more, <<>>) ELSE more
    BY <1>2, AddToIs
  <2>2. LastTaken(S, s, u) /\ u[Len(s)] = more[Len(all)]
    BY <1>2, <2>1, EndingTaken
  <2>3. Len(s[Len(s)]) < WIDTH - 1
    BY <1>2 DEF LineSeqs
  <2>4. Append(b, c) \in Seq(S)
    BY <1>1
  <2>5. Shown(Append(b, c)) = IF Len(s[Len(s)]) + 2 >= WIDTH THEN Down(u) ELSE u
    <3>1. Lines(Append(b, c)) = AddTo(all, c)
      BY <1>1, LinesMore
    <3>2. Shown(Append(b, c)) = Ending(AddTo(all, c))
      BY <2>4, <3>1, ShownIs
    <3>3. more \in Seq(Seq(S)) /\ Len(more) > 0
      BY <1>2, <2>1 DEF LastTaken
    <3> HIDE DEF more, all
    <3>4. Ending(Append(more, <<>>)) = Down(Ending(more))
      BY <3>3, EndingDown
    <3>5. QED
      BY <1>2, <2>1, <3>2, <3>4
  <2> HIDE DEF s, u, all, more, b
  <2>6. /\ IsTerminal(new) /\ new.buffer = Append(b, c)
        /\ Shows(new, IF Len(s[Len(s)]) + 2 >= WIDTH THEN Down(u) ELSE u)
    <3>1. Len(t.buffer) < BUFFER /\ Len(t.buffer) \in Nat
      BY <1>1, <1>4 DEF b
    <3>2. u[Len(s)] = Append(s[Len(s)], c)
      BY <1>2, <2>1, <2>2
    <3>3. Shows(t, s)
      BY <1>1, <1>2
    <3>4. s \in Seq(Seq(S)) /\ Len(s) \in 1 .. Fit /\ IsTerminal(t)
      BY <1>1, <1>2
    <3>5. /\ IsTerminal(Print1(t, c)) /\ Print1(t, c).buffer = Append(t.buffer, c)
          /\ Shows(Print1(t, c), IF Len(s[Len(s)]) + 2 >= WIDTH THEN Down(u) ELSE u)
      BY <2>2, <2>3, <3>1, <3>2, <3>3, <3>4, Print1Shows
    <3>6. QED
      BY <3>5 DEF b
  <2> HIDE DEF new
  <2>7. Shows(new, Shown(new.buffer)) /\ new.buffer \in Seq(S)
    BY <2>4, <2>5, <2>6
  <2>8. QED
    BY <2>6, <2>7 DEF Sound, new
<1>5. QED
  BY <1>3, <1>4

LEMMA BackspaceSound ==
  ASSUME NEW S, NEW t, Sound(S, t), t.buffer = <<>> \/ t.x # 0
  PROVE  Sound(S, backspace(t))
<1>1. CASE t.buffer = <<>>
  BY <1>1 DEF backspace
<1>2. CASE t.buffer # <<>>
  <2>1. IsTerminal(t) /\ t.buffer \in Seq(S) /\ Shows(t, Shown(t.buffer)) /\ t.x # 0
    BY <1>2 DEF Sound
  <2>2. PICK b \in Seq(S), c \in S : t.buffer = Append(b, c)
    BY <1>2, <2>1, SequenceEmptyOrAppend
  <2> DEFINE all == Lines(b)
             more == Longer(all, c)
             s == Ending(more)
             u == Ending(all)
             n == Len(s)
  <2>3. /\ Shown(b) = u /\ all \in LineSeqs(S) /\ all \in Seq(Seq(S)) /\ Len(all) > 0
    BY <2>2, ShownIs
  <2>4. /\ Shown(t.buffer) = Ending(AddTo(all, c)) /\ Len(Shown(t.buffer)) \in 1 .. Fit
        /\ Shown(t.buffer)[Len(Shown(t.buffer))] = AddTo(all, c)[Len(AddTo(all, c))]
    <3>1. Lines(t.buffer) = AddTo(all, c)
      BY <2>2, LinesMore
    <3>2. QED
      BY <2>1, <3>1, ShownIs
  <2>5. /\ LastTaken(S, all, more) /\ more[Len(all)] = Append(all[Len(all)], c)
        /\ c = NewlineChar => AddTo(all, c) = Append(all, <<>>)
        /\ c # NewlineChar =>
             AddTo(all, c) = IF Len(all[Len(all)]) + 2 >= WIDTH THEN Append(more, <<>>) ELSE more
    BY <2>3, AddToIs
  <2> HIDE DEF all, more
  <2>6. AddTo(all, c) = more
    <3>1. ASSUME NEW r \in Seq(Seq(S)), AddTo(all, c) = Append(r, <<>>) PROVE FALSE
      <4>1. /\ Len(Append(r, <<>>)) = Len(r) + 1 /\ Append(r, <<>>)[Len(r) + 1] = <<>> /\ Len(<<>>) = 0
        OBVIOUS
      <4>2. AddTo(all, c)[Len(AddTo(all, c))] = <<>>
        BY <3>1, <4>1
      <4>3. t.x = 0
        BY <2>1, <2>4, <4>1, <4>2 DEF Shows
      <4>4. QED
        BY <2>1, <4>3
    <3>2. more \in Seq(Seq(S))
      BY <2>5 DEF LastTaken
    <3>3. QED
      BY <2>3, <2>5, <3>1, <3>2
  <2>7. /\ LastTaken(S, s, u) /\ u[Len(u)] = all[Len(all)] /\ s[Len(u)] = more[Len(all)]
    BY <2>3, <2>5, EndingTaken
  <2>8. Shown(t.buffer) = s /\ n \in 1 .. Fit /\ u \in Seq(Seq(S)) /\ Len(u) = n /\ s \in Seq(Seq(S))
    <3>1. more \in Seq(Seq(S)) /\ Len(more) > 0
      BY <2>3, <2>5 DEF LastTaken
    <3>2. s \in Seq(Seq(S))
      BY <3>1, EndingIs
    <3>3. QED
      BY <2>4, <2>6, <2>7, <3>2 DEF LastTaken
  <2> HIDE DEF s, u, n
  <2>9. s[n] = Append(u[n], c)
    BY <2>5, <2>7, <2>8
  <2>10. Len(s[n]) < WIDTH
    <3>1. u[n] \in Seq(S) /\ Len(u[n]) < WIDTH - 1 /\ WIDTH \in Nat
      BY <2>3, <2>7, <2>8, Sizes DEF LineSeqs
    <3>2. Len(s[n]) = Len(u[n]) + 1 /\ Len(u[n]) \in Nat
      BY <2>9, <3>1
    <3>3. QED
      BY <3>1, <3>2
  <2>11. /\ IsTerminal(backspace(t)) /\ backspace(t).buffer = Front(t.buffer)
         /\ Shows(backspace(t), u)
    BY <1>2, <2>1, <2>2, <2>7, <2>8, <2>9, <2>10, BackspaceShows DEF n
  <2>12. Front(t.buffer) = b
    <3> DEFINE f == Append(b, c)
               m == Len(b)
    <3>1. f \in Seq(S) /\ Len(f) = m + 1 /\ m \in Nat /\ \A i \in 1 .. m : f[i] = b[i]
      BY <2>2, AppendProperties
    <3> HIDE DEF f
    <3>2. Front(f) = SubSeq(f, 1, m)
      <4>1. Len(f) - 1 = m
        BY <3>1
      <4>2. QED
        BY <4>1 DEF Front
    <3>3. \A i \in 1 .. m : f[i] \in S
      BY <3>1
    <3>4. /\ SubSeq(f, 1, m) \in Seq(S) /\ Len(SubSeq(f, 1, m)) = IF 1 =< m THEN m - 1 + 1 ELSE 0
          /\ \A i \in 1 .. m - 1 + 1 : SubSeq(f, 1, m)[i] = f[1 + i - 1]
      BY <3>1, <3>3, SubSeqProperties
    <3>5. Len(SubSeq(f, 1, m)) = m /\ \A i \in 1 .. m : SubSeq(f, 1, m)[i] = b[i]
      <4> HIDE DEF m
      <4>1. Len(SubSeq(f, 1, m)) = m
        BY <3>1, <3>4
      <4>2. ASSUME NEW i \in 1 .. m PROVE SubSeq(f, 1, m)[i] = b[i]
        <5>1. i \in 1 .. m - 1 + 1 /\ 1 + i - 1 = i
          BY <3>1
        <5>2. QED
          BY <3>1, <3>4, <5>1
      <4>3. QED
        BY <4>1, <4>2
    <3>6. SubSeq(f, 1, m) = b
      BY <2>2, <3>4, <3>5, SeqEqual
    <3>7. QED
      BY <2>2, <3>2, <3>6 DEF f
  <2>13. QED
    BY <2>2, <2>3, <2>11, <2>12 DEF Sound
<1>3. QED
  BY <1>1, <1>2

\* A character keeps the picture, but for a backspace at the start of a line.
LEMMA PutSound ==
  ASSUME NEW S, NEW t, Sound(S, t), NEW c \in S \cup {Backspace}, c = Backspace => t.buffer = <<>> \/ t.x # 0
  PROVE  Sound(S, Put(t, c))
<1>1. CASE c = NewlineChar
  <2>1. c \in S
    BY <1>1 DEF Backspace, NewlineChar
  <2>2. QED
    BY <1>1, <2>1, NewlineSound
<1>2. CASE c # NewlineChar /\ c = Backspace
  <2>1. Put(t, c) = backspace(t)
    BY <1>2 DEF Put, Backspace, NewlineChar, Invisible
  <2>2. QED
    BY <1>2, <2>1, BackspaceSound
<1>3. CASE c # NewlineChar /\ c # Backspace /\ c \in Invisible
  BY <1>3 DEF Put
<1>4. CASE c # NewlineChar /\ c # Backspace /\ c \notin Invisible
  <2>1. Put(t, c) = Print1(t, c)
    BY <1>4 DEF Put
  <2>2. QED
    BY <1>4, <2>1, Print1Sound
<1>5. QED
  BY <1>1, <1>2, <1>3, <1>4

-----------------------------------------------------------------------------
\* write, from what its steps leave.
LEMMA WriteIs ==
  ASSUME NEW S, NEW t, NEW text \in Seq(S), NEW f,
         f = [n \in 0 .. Len(text) |-> IF n = 0 THEN t ELSE Put(f[n - 1], text[n])]
  PROVE  write(t, text) = f[Len(text)]
<1> DEFINE N == Len(text)
           G(h) == [n \in 0 .. N |-> IF n = 0 THEN t ELSE Put(h[n - 1], text[n])]
           g == CHOOSE g : g = G(g)
           P == [n \in 0 .. N |-> {f[n]}]
<1>1. N \in Nat
  OBVIOUS
<1>2. g = G(g)
  OBVIOUS
<1>3. write(t, text) = g[N]
  BY Zenon DEF write
<1> HIDE DEF g, N
<1>4. f = [n \in 0 .. N |-> IF n = 0 THEN t ELSE Put(f[n - 1], text[n])]
  BY DEF N
<1>5. g[0] \in P[0]
  <2>1. 0 \in 0 .. N
    BY <1>1
  <2>2. g[0] = t /\ f[0] = t
    BY <1>2, <1>4, <2>1
  <2>3. QED
    BY <2>1, <2>2
<1>6. ASSUME NEW n \in 1 .. N, g[n - 1] \in P[n - 1] PROVE g[n] \in P[n]
  <2>1. n \in 0 .. N /\ n - 1 \in 0 .. N /\ n # 0
    BY <1>1
  <2>2. g[n - 1] = f[n - 1]
    BY <1>6, <2>1
  <2>3. g[n] = Put(g[n - 1], text[n]) /\ f[n] = Put(f[n - 1], text[n])
    BY <1>2, <1>4, <2>1
  <2>4. QED
    BY <2>1, <2>2, <2>3
<1> HIDE DEF P
<1>7. \A n \in 0 .. N : g[n] \in P[n]
  BY <1>1, <1>5, <1>6, TraceKeeps
<1>8. N \in 0 .. N
  BY <1>1
<1>9. g[N] = f[N]
  BY <1>7, <1>8 DEF P
<1>10. QED
  BY <1>3, <1>9 DEF N

\* The terminal that shows a buffer.
Displaying(b) ==
  [buffer |-> b, x |-> Len(Shown(b)[Len(Shown(b))]), y |-> (Len(Shown(b)) - 1) * LineHeight,
   screen |-> Picture(Shown(b))]

LEMMA SoundIs ==
  ASSUME NEW S, NEW t
  PROVE  Sound(S, t) <=> t \in {Displaying(b) : b \in Seq(S)}
<1>1. ASSUME Sound(S, t) PROVE t \in {Displaying(b) : b \in Seq(S)}
  <2>1. t = Displaying(t.buffer) /\ t.buffer \in Seq(S)
    BY <1>1 DEF Sound, Shows, IsTerminal, Displaying
  <2>2. QED
    BY <2>1
<1>2. ASSUME t \in {Displaying(b) : b \in Seq(S)} PROVE Sound(S, t)
  <2>1. PICK b \in Seq(S) : t = Displaying(b)
    BY <1>2
  <2>2. t.buffer = b
    BY <2>1 DEF Displaying
  <2>3. QED
    BY <2>1, <2>2 DEF Sound, Shows, IsTerminal, Displaying
<1>3. QED
  BY <1>1, <1>2

LEMMA WriteSound ==
  ASSUME NEW S, NEW t, Sound(S, t), NEW text \in Seq(S), Backspace \notin S
  PROVE  Sound(S, write(t, text))
<1> DEFINE N == Len(text)
           X == {Displaying(b) : b \in Seq(S)}
           s == [n \in 1 .. N |-> [x \in X |-> Put(x, text[n])]]
<1>1. N \in Nat /\ \A n \in 1 .. N : text[n] \in S /\ text[n] # Backspace
  OBVIOUS
<1>2. t \in X
  BY SoundIs
<1>3. \A n \in 1 .. N : \A x \in X : Put(x, text[n]) \in X
  <2>1. SUFFICES ASSUME NEW n \in 1 .. N, NEW x \in X PROVE Put(x, text[n]) \in X
    OBVIOUS
  <2>2. Sound(S, x)
    BY SoundIs
  <2>3. Sound(S, Put(x, text[n]))
    BY <1>1, <2>2, PutSound
  <2>4. QED
    BY <2>3, SoundIs
<1> HIDE DEF N, X
<1>4. s \in [1 .. N -> [X -> X]]
  BY <1>3
<1>5. PICK f \in [0 .. N -> X] : Trace(f, N, t, s)
  BY <1>1, <1>2, <1>4, Traced
<1>6. f = [n \in 0 .. N |-> IF n = 0 THEN t ELSE Put(f[n - 1], text[n])]
  <2>1. f[0] = t /\ \A n \in 1 .. N : f[n] = s[n][f[n - 1]]
    BY <1>5 DEF Trace
  <2>2. ASSUME NEW n \in 0 .. N PROVE f[n] = IF n = 0 THEN t ELSE Put(f[n - 1], text[n])
    <3>1. CASE n = 0
      BY <2>1, <3>1
    <3>2. CASE n # 0
      <4>1. n \in 1 .. N /\ n - 1 \in 0 .. N
        BY <1>1, <3>2
      <4>2. f[n - 1] \in X
        BY <4>1
      <4>3. QED
        BY <2>1, <3>2, <4>1, <4>2
    <3>3. QED
      BY <3>1, <3>2
  <2>3. QED
    BY <2>2
<1>7. write(t, text) = f[N]
  BY <1>6, WriteIs DEF N
<1>8. f[N] \in X
  BY <1>1
<1>9. QED
  BY <1>7, <1>8, SoundIs DEF X

LEMMA WriteOne ==
  ASSUME NEW t, NEW c
  PROVE  write(t, <<c>>) = Put(t, c)
<1> DEFINE text == <<c>>
           f == [n \in 0 .. 1 |-> IF n = 0 THEN t ELSE Put(t, c)]
<1>1. text \in Seq({c}) /\ Len(text) = 1 /\ text[1] = c
  OBVIOUS
<1> HIDE DEF text
<1>2. f = [n \in 0 .. Len(text) |-> IF n = 0 THEN t ELSE Put(f[n - 1], text[n])]
  <2>1. ASSUME NEW n \in 0 .. 1 PROVE f[n] = IF n = 0 THEN t ELSE Put(f[n - 1], text[n])
    <3>1. n = 0 \/ n = 1
      OBVIOUS
    <3>2. CASE n = 0
      BY <3>2
    <3>3. CASE n = 1
      <4>1. n - 1 = 0 /\ 0 \in 0 .. 1 /\ 1 \in 0 .. 1
        BY <3>3
      <4>2. f[n - 1] = t /\ f[n] = Put(t, c)
        BY <3>3, <4>1
      <4>3. QED
        BY <1>1, <3>3, <4>2
    <3>4. QED
      BY <3>1, <3>2, <3>3
  <2> HIDE DEF f
  <2>2. f = [n \in 0 .. 1 |-> f[n]]
    BY DEF f
  <2>3. QED
    BY <1>1, <2>1, <2>2
<1>3. f[Len(text)] = Put(t, c)
  BY <1>1
<1> HIDE DEF f
<1>4. write(t, text) = f[Len(text)]
  BY <1>1, <1>2, WriteIs
<1>5. QED
  BY <1>3, <1>4 DEF text

-----------------------------------------------------------------------------
\* What is written on the screen, but for backspaces.
Glyphs == Chars \cup (Keys \ {Backspace}) \cup Range(Greeting)

LEMMA GlyphFacts ==
  /\ Backspace \notin Glyphs /\ Chars \subseteq Glyphs /\ Greeting \in Seq(Glyphs)
  /\ Keys \subseteq Glyphs \cup {Backspace}
<1>1. Range(Greeting) = {NewlineChar, <<"colour", "text">>, <<"greeting", "text">>}
  <2>1. DOMAIN Greeting = 1 .. 4
    BY DEF Greeting
  <2>2. Greeting[1] = NewlineChar /\ Greeting[2] = <<"colour", "text">>
        /\ Greeting[3] = <<"greeting", "text">> /\ Greeting[4] = NewlineChar
    BY DEF Greeting
  <2>3. 1 .. 4 = {1, 2, 3, 4}
    OBVIOUS
  <2>4. QED
    BY <2>1, <2>2, <2>3 DEF Range
<1>2. Backspace \notin Chars
  BY DEF Backspace, Chars
<1>3. Backspace \notin Range(Greeting)
  BY <1>1 DEF Backspace, NewlineChar
<1>4. Greeting \in Seq(Glyphs)
  <2>1. NewlineChar \in Glyphs /\ <<"colour", "text">> \in Glyphs /\ <<"greeting", "text">> \in Glyphs
    BY <1>1 DEF Glyphs
  <2>2. QED
    BY <2>1 DEF Greeting
<1>5. QED
  BY <1>2, <1>3, <1>4 DEF Glyphs

ScreenInv == terminal = "there" /\ ~crossed => Sound(Glyphs, tty)

LEMMA NewTerminalSound == Sound(Glyphs, NewTerminal)
<1> DEFINE s == << <<>> >>
           t == NewTerminal
<1>1. /\ s \in Seq(Seq(Glyphs)) /\ Len(s) = 1 /\ s[1] = <<>> /\ DOMAIN s = 1 .. 1 /\ DOMAIN <<>> = {}
      /\ <<>> \in Seq(Glyphs) /\ Len(<<>>) = 0
  OBVIOUS
<1>2. Fit \in Nat /\ Fit > 0 /\ LineHeight \in Nat
  BY FitFacts, Sizes
<1>3. Shown(<<>>) = s
  <2>1. Lines(<<>>) = s
    BY NoLines
  <2> HIDE DEF s
  <2>2. Len(s) =< Fit
    BY <1>1, <1>2
  <2>3. QED
    BY <2>1, <2>2 DEF Shown
<1> HIDE DEF s
<1>4. t.screen = Picture(s)
  <2>1. ASSUME NEW row \in PixelRows, NEW col \in Columns PROVE CellOf(s, row, col) = Dark
    BY <1>1 DEF CellOf
  <2>2. t.screen = [row \in PixelRows |-> [col \in Columns |-> Dark]]
    BY DEF NewTerminal
  <2> HIDE DEF t
  <2>3. QED
    BY <2>1, <2>2, PictureIs
<1>5. (Len(s) - 1) * LineHeight = 0 /\ Len(s[Len(s)]) = 0
  BY <1>1, <1>2
<1>6. IsTerminal(t) /\ t.buffer = <<>> /\ t.x = 0 /\ t.y = 0
  BY DEF NewTerminal, IsTerminal
<1> HIDE DEF t
<1>7. Shows(t, s)
  BY <1>4, <1>5, <1>6 DEF Shows
<1>8. QED
  BY <1>1, <1>3, <1>6, <1>7 DEF Sound, t

\* What the log gives the terminal in a step of kernel_main.
LEMMA LogGives ==
  ASSUME LogInv, LogInv', LogPhase
  PROVE  \E text \in Seq(Glyphs) : tty' = IF terminal = "there" THEN write(tty, text) ELSE tty
<1> DEFINE old == got["terminal"]
           now == got'["terminal"]
           text == SubSeq(now, Len(old) + 1, Len(now))
<1>1. "terminal" \in Devices
  BY ConsoleAssumption
<1>2. main \in Early /\ old = <<>>
  <2>1. main \in Early
    BY DEF LogPhase, At, Early
  <2>2. QED
    BY <1>1, <2>1 DEF LogInv, Captured
<1>3. tty' = IF terminal = "there" THEN write(tty, text) ELSE tty
  BY Zenon DEF LogPhase, TerminalDevice
<1>4. now \in Seq(Chars)
  <2>1. CASE main' \in Early
    <3>1. got' = [d \in Devices |-> <<>>]
      BY <2>1 DEF LogInv, Captured
    <3>2. QED
      BY <1>1, <3>1
  <2>2. CASE main' \notin Early
    <3>1. Flush
      BY <2>2 DEF LogPhase, At, Early
    <3>2. kmsglog \in Seq(Chars) /\ got = [d \in Devices |-> <<>>]
      BY <1>2 DEF LogInv, Captured
    <3>3. got' = got \/ \E behind \in {<<>>, <<Garbage>>} : write_log(Buffered(kmsglog) \o behind)
      BY <3>1 DEF Flush, flush
    <3>4. CASE got' = got
      BY <1>1, <3>2, <3>4
    <3>5. ASSUME NEW behind \in {<<>>, <<Garbage>>}, write_log(Buffered(kmsglog) \o behind)
          PROVE  now \in Seq(Chars)
      <4>1. behind \in Seq(Chars)
        <5>1. Garbage \in Chars
          BY DEF Garbage, Chars
        <5>2. <<Garbage>> \in Seq(Chars) /\ <<>> \in Seq(Chars)
          BY <5>1
        <5>3. QED
          BY <5>2
      <4>2. Buffered(kmsglog) \in Seq(Chars)
        <5> DEFINE m == Min({Len(kmsglog), LOG_BUFFER})
        <5>1. m \in 0 .. Len(kmsglog)
          <6>1. Len(kmsglog) \in Nat /\ LOG_BUFFER \in Nat
            BY <3>2, LogAssumption
          <6>2. QED
            BY <6>1, SmallerOf
        <5>2. \A i \in 1 .. m : kmsglog[i] \in Chars
          BY <3>2, <5>1
        <5> HIDE DEF m
        <5>3. SubSeq(kmsglog, 1, m) \in Seq(Chars)
          BY <5>1, <5>2, SubSeqProperties
        <5>4. QED
          BY <5>3 DEF Buffered, m
      <4>3. PICK w \in Seq(Chars) : w = Buffered(kmsglog) \o behind
        <5>1. PICK a \in Seq(Chars) : a = Buffered(kmsglog)
          BY <4>2
        <5>2. a \o behind \in Seq(Chars)
          BY <4>1, <5>1, ConcatProperties
        <5>3. QED
          BY <5>1, <5>2
      <4>4. got' = [d \in Devices |-> IF Contains(head, d) THEN got[d] \o w ELSE got[d]]
        BY <3>5, <4>3 DEF write_log, propagate
      <4>5. now = <<>> \o w \/ now = <<>>
        BY <1>1, <3>2, <4>4
      <4>6. <<>> \o w = w
        BY ConcatEmptySeq
      <4>7. w \in Seq(Chars) /\ <<>> \in Seq(Chars)
        OBVIOUS
      <4> HIDE DEF now
      <4>8. now = w \/ now = <<>>
        BY <4>5, <4>6, Zenon
      <4>9. QED
        BY <4>7, <4>8, Zenon
    <3>6. QED
      BY <3>3, <3>4, <3>5
  <2>3. QED
    BY <2>1, <2>2
<1>5. text \in Seq(Glyphs)
  <2>1. PICK g \in Seq(Chars) : g = now
    BY <1>4
  <2>2. Len(g) \in Nat /\ \A i \in 1 .. Len(g) : g[i] \in Glyphs
    BY GlyphFacts
  <2>3. SubSeq(g, 1, Len(g)) \in Seq(Glyphs)
    BY <2>2, SubSeqProperties
  <2>4. Len(old) + 1 = 1
    BY <1>2
  <2>5. QED
    BY <2>1, <2>3, <2>4
<1>6. QED
  BY <1>3, <1>5

LEMMA ScreenInvStep == LogInv /\ LogInv' /\ ScreenInv /\ [CNext]_cvars => ScreenInv'
<1>1. SUFFICES ASSUME LogInv, LogInv', ScreenInv, [CNext]_cvars, terminal' = "there", ~crossed'
               PROVE  Sound(Glyphs, tty')
  BY DEF ScreenInv
<1>2. CASE LogPhase
  <2>1. terminal' = terminal /\ crossed' = crossed
    BY <1>2 DEF LogPhase, TerminalDevice
  <2>2. PICK text \in Seq(Glyphs) : tty' = IF terminal = "there" THEN write(tty, text) ELSE tty
    BY <1>1, <1>2, LogGives
  <2>3. Sound(Glyphs, tty)
    BY <1>1, <2>1 DEF ScreenInv
  <2>4. QED
    BY <1>1, <2>1, <2>2, <2>3, GlyphFacts, WriteSound
<1>3. CASE graphics_initalize_stage1
  BY <1>3, NewTerminalSound DEF graphics_initalize_stage1
<1>4. CASE graphics_initalize_stage2
  <2>1. CASE At("stage2", "add") /\ tty' = write(tty, Greeting) /\ UNCHANGED <<terminal, crossed>>
    <3>1. Sound(Glyphs, tty)
      BY <1>1, <2>1 DEF ScreenInv
    <3>2. QED
      BY <2>1, <3>1, GlyphFacts, WriteSound
  <2>2. CASE UNCHANGED seen
    BY <1>1, <2>2 DEF ScreenInv, seen
  <2>3. QED
    BY <1>4, <2>1, <2>2 DEF graphics_initalize_stage2, StoreCallback, StoreId
<1>5. CASE terminal_delete
  <2>1. terminal' = "there" => UNCHANGED seen
    BY <1>5 DEF terminal_delete, seen
  <2>2. QED
    BY <1>1, <2>1 DEF ScreenInv, seen
<1>6. CASE initalizeWindowSystem
  <2>1. UNCHANGED seen
    BY <1>6 DEF initalizeWindowSystem, StoreCallback, StoreId
  <2>2. QED
    BY <1>1, <2>1 DEF ScreenInv, seen
<1>7. ASSUME NEW k \in Keys, kb_run_events(k) PROVE Sound(Glyphs, tty')
  <2>1. CASE UNCHANGED seen
    BY <1>1, <2>1 DEF ScreenInv, seen
  <2>2. CASE terminalWriteCharacter(k)
    <3>1. CASE terminal # "none" /\ k \notin Dropped
      <4>1. /\ terminal' = terminal /\ tty' = write(tty, <<k>>)
            /\ crossed' = (crossed \/ (k = Backspace /\ tty.x = 0 /\ tty.buffer # <<>>))
        BY <2>2, <3>1 DEF terminalWriteCharacter
      <4>2. ~crossed /\ (k = Backspace => tty.buffer = <<>> \/ tty.x # 0)
        BY <1>1, <4>1
      <4>3. Sound(Glyphs, tty)
        BY <1>1, <4>1, <4>2 DEF ScreenInv
      <4>4. k \in Glyphs \cup {Backspace}
        BY GlyphFacts
      <4>5. Sound(Glyphs, Put(tty, k))
        BY <4>2, <4>3, <4>4, PutSound
      <4>6. QED
        BY <4>1, <4>5, WriteOne
    <3>2. CASE ~(terminal # "none" /\ k \notin Dropped)
      <4>1. terminal' = terminal /\ UNCHANGED <<tty, crossed>>
        BY <2>2, <3>2 DEF terminalWriteCharacter
      <4>2. QED
        BY <1>1, <4>1 DEF ScreenInv
    <3>3. QED
      BY <3>1, <3>2
  <2>3. QED
    BY <1>7, <2>1, <2>2 DEF kb_run_events
<1>8. CASE UNCHANGED cvars
  BY <1>1, <1>8 DEF ScreenInv, cvars, console, seen
<1>9. QED
  BY <1>1, <1>2, <1>3, <1>4, <1>5, <1>6, <1>7, <1>8 DEF CNext, KernelMain, KeyPress

\* std/graphics.cpp: the terminal's invariant holds in every state until a backspace
\* at the start of a line.
THEOREM ScreenInvariant == CSpec => []ScreenInv
<1>1. CInit => ScreenInv
  BY DEF CInit, ScreenInv
<1>2. QED
  BY <1>1, ScreenInvStep, LogInvariant, PTL DEF CSpec

\* std/graphics.cpp, write, NewLine and scroll: the screen shows the last lines of
\* the buffer that fit, wrapped, and the cursor stands behind them, for every size
\* of screen, character and buffer and whatever is logged and typed.
THEOREM ScreenShowsItsText == CSpec => []ScreenShowsText
<1>1. ScreenInv => ScreenShowsText
  <2>1. SUFFICES ASSUME ScreenInv, terminal = "there", ~crossed
                 PROVE  LET lines == Shown(tty.buffer)
                        IN  /\ tty.screen = Picture(lines)
                            /\ tty.x = Len(Last(lines)) /\ tty.y = (Len(lines) - 1) * LineHeight
    BY DEF ScreenShowsText
  <2>2. Shows(tty, Shown(tty.buffer))
    BY <2>1 DEF ScreenInv, Sound
  <2>3. QED
    BY <2>2 DEF Shows, Last
<1>2. QED
  BY <1>1, ScreenInvariant, PTL
=============================================================================
