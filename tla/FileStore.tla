----------------------------- MODULE FileStore -----------------------------
(***************************************************************************)
(* What std/stdio.cpp promises: a file is a sequence of bytes that grows   *)
(* up to a limit, a stream is a place in it.  Stdio implements this module *)
(* with the modes "r" and "a".                                             *)
(***************************************************************************)
EXTENDS Integers, Sequences

CONSTANTS
  Names, Bytes, Streams,
  RAMFS_MAX_FILE_SIZE,
  NULL,
  Offsets,    \* arguments of fseek
  Counts,     \* arguments of fread
  Texts       \* arguments of fwrite

VARIABLES
  contents,  \* the bytes of each file, or NULL for a file that is not there
  handle,    \* [file, at] of each open stream, NULL for the others
  returned   \* the last call and what it returned: a stream, a count or code, bytes

fsvars == <<contents, handle, returned>>

Init ==
  /\ contents = [f \in Names |-> NULL]
  /\ handle   = [s \in Streams |-> NULL]
  /\ returned = [call |-> <<>>, file |-> NULL, code |-> 0, text |-> <<>>]

Returns(call, file, code, text) ==
  returned' = [call |-> call, file |-> file, code |-> code, text |-> text]
IsOpen(s)    == handle[s] # NULL
Exists(f)  == contents[f] # NULL
Size(f)    == Len(contents[f])
Smaller(m, n) == IF m < n THEN m ELSE n

\* A file opened to append or to write is made if it is not there; "w" empties
\* one that is.  Opening may fail, for want of a stream or a node, after the
\* file was made or before.
Open(f, mode, s) ==
  /\ ~IsOpen(s)
  /\ \/ Exists(f) /\ mode # "w" /\ UNCHANGED contents
     \/ (mode = "w" \/ (mode = "a" /\ ~Exists(f))) /\ contents' = [contents EXCEPT ![f] = <<>>]
  /\ handle' = [handle EXCEPT ![s] =
                  [file |-> f, at |-> IF mode = "a" THEN Len(contents'[f]) ELSE 0]]
  /\ Returns(<<"fopen", f, mode>>, s, 0, <<>>)

OpenFails(f, mode) ==
  /\ \/ UNCHANGED contents
     \/ ~Exists(f) /\ mode \in {"a", "w"} /\ contents' = [contents EXCEPT ![f] = <<>>]
  /\ Returns(<<"fopen", f, mode>>, NULL, 0, <<>>)
  /\ UNCHANGED handle

Close(s) ==
  /\ IsOpen(s)
  /\ handle' = [handle EXCEPT ![s] = NULL]
  /\ Returns(<<"fclose", s>>, NULL, 0, <<>>)
  /\ UNCHANGED contents

\* A stream can be placed anywhere in its file, and nowhere else.
Target(s, offset, whence) ==
  offset + CASE whence = "set" -> 0 [] whence = "cur" -> handle[s].at
             [] whence = "end" -> Size(handle[s].file)
Seek(s, offset, whence) ==
  /\ IsOpen(s)
  /\ LET to == Target(s, offset, whence)
         ok == 0 <= to /\ to <= Size(handle[s].file)
     IN /\ handle' = [handle EXCEPT ![s].at = IF ok THEN to ELSE @]
        /\ Returns(<<"fseek", s, offset, whence>>, NULL, IF ok THEN 0 ELSE -1, <<>>)
  /\ UNCHANGED contents

\* A read returns the bytes from the stream's place on, as many as there are.
Read(s, count) ==
  /\ IsOpen(s)
  /\ LET from == handle[s].at
         n    == Smaller(count, Size(handle[s].file) - from)
     IN /\ Returns(<<"fread", s, count>>, NULL, n,
                    SubSeq(contents[handle[s].file], from + 1, from + n))
        /\ handle' = [handle EXCEPT ![s].at = from + n]
  /\ UNCHANGED contents

\* A write puts its bytes at the stream's place, over what was there and
\* beyond, as many as the file may hold, and leaves every other byte alone.
Write(s, text) ==
  /\ IsOpen(s)
  /\ LET f    == handle[s].file
         from == handle[s].at
         n    == Smaller(Len(text), RAMFS_MAX_FILE_SIZE - from)
         rest == SubSeq(contents[f], from + n + 1, Size(f))
     IN /\ contents' = [contents EXCEPT ![f] = SubSeq(@, 1, from) \o SubSeq(text, 1, n) \o rest]
        /\ handle' = [handle EXCEPT ![s].at = from + n]
        /\ Returns(<<"fwrite", s, text>>, NULL, n, <<>>)

Next ==
  \/ \E f \in Names, mode \in {"r", "a", "w"} : OpenFails(f, mode) \/ \E s \in Streams : Open(f, mode, s)
  \/ \E s \in Streams :
       \/ Close(s)
       \/ \E offset \in Offsets, whence \in {"set", "cur", "end"} : Seek(s, offset, whence)
       \/ \E count \in Counts : Read(s, count)
       \/ \E text \in Texts : Write(s, text)

Spec == Init /\ [][Next]_fsvars
=============================================================================
