------------------------------- MODULE Stdio -------------------------------
(***************************************************************************)
(* The streams of std/stdio.cpp over the files of dev/ramfs/ramfs.cpp.     *)
(* A FILE points at an entry of file_table, the entry at a node; the size  *)
(* of a file is kept twice, in the vfs_node_t that stdio looks at and in   *)
(* the ramfs_file_t that ramfs_read and ramfs_write look at.               *)
(*                                                                         *)
(* Lookup is a set of names here (Vfs has the tree): vfs_create may fail   *)
(* for reasons of its own.  Elements are one byte long, which is what      *)
(* every caller passes but for elf.cpp, and malloc gives fopen its FILE.   *)
(***************************************************************************)
EXTENDS Integers, Sequences, FiniteSets, FiniteSetsExt

CONSTANTS
  Names,                \* the files clients name
  Bytes,                \* what they write
  Streams,              \* the FILEs malloc can return
  MAX_OPEN_FILES, RAMFS_MAX_FILE_SIZE,
  NULL,
  Modes,                \* of "r", "a" and "w"
  Offsets, Counts, Texts  \* the arguments of fseek, fread and fwrite

Fd == 0 .. MAX_OPEN_FILES - 1
Place == 1 .. RAMFS_MAX_FILE_SIZE

ASSUME StdioAssumption ==
  /\ MAX_OPEN_FILES \in Nat /\ RAMFS_MAX_FILE_SIZE \in Nat
  /\ Modes \subseteq {"r", "a", "w"}
  /\ Offsets \subseteq Int /\ Counts \subseteq Nat /\ Texts \subseteq Seq(Bytes)
  /\ NULL \notin Names \cup Streams
  /\ NULL \notin [fd : Fd, position : 0 .. RAMFS_MAX_FILE_SIZE] /\ Bytes # {}
  /\ NULL \notin Seq(Bytes) /\ NULL \notin [file : Names, at : 0 .. RAMFS_MAX_FILE_SIZE]

VARIABLES
  there,       \* the files that exist
  node_size,   \* vfs_node_t.size of each
  file_size,   \* ramfs_file_t.size of each
  data,        \* ramfs_file_t.data of each
  file_table,  \* [in_use, node, position] of each descriptor
  stream,      \* [fd, position] of each FILE, NULL when it is not allocated
  returned     \* the last call and what it returned: a FILE, a count or code, bytes

files == <<there, node_size, file_size, data>>
vars  == <<files, file_table, stream, returned>>

Zero == CHOOSE b \in Bytes : TRUE
ClosedEntry == [in_use |-> FALSE, node |-> NULL, position |-> 0]

Init ==
  /\ there = {}
  /\ node_size = [f \in Names |-> 0]
  /\ file_size = [f \in Names |-> 0]
  /\ data = [f \in Names |-> [p \in Place |-> Zero]]
  /\ file_table = [fd \in Fd |-> ClosedEntry]
  /\ stream = [s \in Streams |-> NULL]
  /\ returned = [call |-> <<>>, file |-> NULL, code |-> 0, text |-> <<>>]

Returns(call, file, code, text) ==
  returned' = [call |-> call, file |-> file, code |-> code, text |-> text]

-----------------------------------------------------------------------------
(* fopen and fclose                                                        *)

\* Mutant: in_use is not looked at.
AnyFds == Fd
FreeFds == {fd \in Fd : ~file_table[fd].in_use}

\* vfs_find, then vfs_create, whose node comes out of the pool cleared.
Found(f, mode)   == f \in there /\ UNCHANGED <<there, file_size, data>>
Created(f, mode) ==
  /\ f \notin there /\ mode \in {"a", "w"}
  /\ there' = there \cup {f}
  /\ file_size' = [file_size EXCEPT ![f] = 0]
  /\ data' = [data EXCEPT ![f] = [p \in Place |-> Zero]]

\* "w" clears the size that stdio looks at.
Truncated(f, mode) == node_size' = [node_size EXCEPT ![f] = IF mode = "w" THEN 0 ELSE @]

Opened(f, mode, s) ==
  LET position == IF mode = "a" THEN node_size[f] ELSE 0
  IN  \E fd \in FreeFds :
        /\ \A other \in FreeFds : fd =< other
        /\ file_table' = [file_table EXCEPT ![fd] = [in_use |-> TRUE, node |-> f, position |-> position]]
        /\ stream' = [stream EXCEPT ![s] = [fd |-> fd, position |-> position]]
        /\ Truncated(f, mode)
        /\ Returns(<<"fopen", f, mode>>, s, 0, <<>>)

\* malloc returns a FILE that is not allocated.
fopen(f, mode, s) ==
  /\ Found(f, mode) \/ Created(f, mode)
  /\ stream[s] = NULL
  /\ Opened(f, mode, s)

\* No such file, no node for it, or no descriptor: the file that was created
\* for the last case stays.
fopen_fails(f, mode) ==
  /\ \/ f \notin there /\ UNCHANGED files
     \/ FreeFds = {} /\ Found(f, mode) /\ UNCHANGED node_size
     \/ FreeFds = {} /\ Created(f, mode) /\ UNCHANGED node_size
  /\ Returns(<<"fopen", f, mode>>, NULL, 0, <<>>)
  /\ UNCHANGED <<file_table, stream>>

fclose(s) ==
  /\ stream[s] # NULL
  /\ file_table' = [file_table EXCEPT ![stream[s].fd].in_use = FALSE,
                                      ![stream[s].fd].node = NULL]
  /\ stream' = [stream EXCEPT ![s] = NULL]
  /\ Returns(<<"fclose", s>>, NULL, 0, <<>>)
  /\ UNCHANGED files

-----------------------------------------------------------------------------
(* fseek, fread and fwrite                                                 *)

Entry(s) == file_table[stream[s].fd]

Moved(s, to) ==
  /\ file_table' = [file_table EXCEPT ![stream[s].fd].position = to]
  /\ stream' = [stream EXCEPT ![s].position = to]

\* Positions are unsigned: one below zero is a huge one.
SeekTarget(s, offset, whence) ==
  offset + CASE whence = "set" -> 0 [] whence = "cur" -> Entry(s).position
             [] whence = "end" -> node_size[Entry(s).node]
CanSeek(s, to) == 0 <= to /\ to <= node_size[Entry(s).node]

fseek(s, offset, whence) ==
  /\ stream[s] # NULL
  /\ LET to == SeekTarget(s, offset, whence)
         ok == CanSeek(s, to)
     IN /\ IF ok THEN Moved(s, to) ELSE UNCHANGED <<file_table, stream>>
        /\ Returns(<<"fseek", s, offset, whence>>, NULL, IF ok THEN 0 ELSE -1, <<>>)
  /\ UNCHANGED files

\* ramfs_read and ramfs_write: how much of a request is done.  Mutant: the
\* end of the file cuts nothing off.
ReadLenLoose(f, offset, size) ==
  IF offset >= file_size[f] THEN 0 ELSE Min({size, RAMFS_MAX_FILE_SIZE - offset})
ReadLen(f, offset, size) ==
  IF offset >= file_size[f] THEN 0 ELSE Min({size, file_size[f] - offset})
WriteLen(f, offset, size) ==
  IF offset >= RAMFS_MAX_FILE_SIZE THEN 0 ELSE Min({size, RAMFS_MAX_FILE_SIZE - offset})

fread(s, count) ==
  /\ stream[s] # NULL
  /\ LET f == Entry(s).node
         from == Entry(s).position
         bytes == ReadLen(f, from, count)
     IN /\ Returns(<<"fread", s, count>>, NULL, bytes, [i \in 1 .. bytes |-> data[f][from + i]])
        /\ Moved(s, from + bytes)
  /\ UNCHANGED files

fwrite(s, text) ==
  /\ stream[s] # NULL
  /\ LET f == Entry(s).node
         from == Entry(s).position
         bytes == WriteLen(f, from, Len(text))
     IN /\ IF from >= RAMFS_MAX_FILE_SIZE
           THEN UNCHANGED <<data, file_size>> /\ node_size' = [node_size EXCEPT ![f] = Max({@, from})]
           ELSE /\ data' = [data EXCEPT ![f] =
                              [p \in Place |-> IF from < p /\ p <= from + bytes THEN text[p - from] ELSE @[p]]]
                /\ file_size' = [file_size EXCEPT ![f] = Max({@, from + bytes})]
                /\ node_size' = [node_size EXCEPT ![f] = file_size'[f]]
        /\ Moved(s, from + bytes)
        /\ Returns(<<"fwrite", s, text>>, NULL, bytes, <<>>)
  /\ UNCHANGED there

-----------------------------------------------------------------------------
Next ==
  \/ \E f \in Names, mode \in Modes :
       fopen_fails(f, mode) \/ \E s \in Streams : fopen(f, mode, s)
  \/ \E s \in Streams :
       \/ fclose(s)
       \/ \E offset \in Offsets, whence \in {"set", "cur", "end"} : fseek(s, offset, whence)
       \/ \E count \in Counts : fread(s, count)
       \/ \E text \in Texts : fwrite(s, text)

Spec == Init /\ [][Next]_vars

-----------------------------------------------------------------------------
(* Properties                                                              *)

TypeOK ==
  /\ there \subseteq Names
  /\ node_size \in [Names -> 0 .. RAMFS_MAX_FILE_SIZE]
  /\ file_size \in [Names -> 0 .. RAMFS_MAX_FILE_SIZE]
  /\ data \in [Names -> [Place -> Bytes]]
  /\ file_table \in [Fd -> [in_use : BOOLEAN, node : Names \cup {NULL},
                            position : 0 .. RAMFS_MAX_FILE_SIZE]]
  /\ stream \in [Streams -> {NULL} \cup [fd : Fd, position : 0 .. RAMFS_MAX_FILE_SIZE]]

\* Every open FILE has a descriptor of its own, in use, on a file that is
\* there and at the FILE's own position; a descriptor no FILE points at is
\* free, so none is lost.
DescriptorsOwned ==
  /\ \A s \in Streams : stream[s] # NULL =>
       /\ Entry(s).in_use /\ Entry(s).node \in there
       /\ Entry(s).position = stream[s].position
       /\ \A t \in Streams : stream[t] # NULL /\ stream[t].fd = stream[s].fd => t = s
  /\ \A fd \in Fd : file_table[fd].in_use =>
       \E s \in Streams : stream[s] # NULL /\ stream[s].fd = fd

\* The files and streams behave like sequences and places in them.
Contents == [f \in Names |-> IF f \in there THEN SubSeq(data[f], 1, file_size[f]) ELSE NULL]
Handles  == [s \in Streams |-> IF stream[s] = NULL THEN NULL
                               ELSE [file |-> Entry(s).node, at |-> Entry(s).position]]
Abstract == INSTANCE FileStore WITH contents <- Contents, handle <- Handles
ImplementsFileStore == Abstract!Spec
=============================================================================
