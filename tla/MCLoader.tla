------------------------------ MODULE MCLoader ------------------------------
(* Instances of Loader for TLC.                                            *)
EXTENDS Loader

MCAddress == 0 .. (3 * 12 + 4 * 3 + 2 * 4) - 1

MCCalls == <<[name |-> "TEST.TXT", dest |-> 0], [name |-> "TEST.WAV", dest |-> 12]>>

Entry(kind, n, c, bytes) == [kind |-> kind, name |-> n, cluster |-> c, size |-> bytes]

\* Directories of two sectors: in order; behind a deleted entry, a long name, a
\* directory and a label that bear its name; without the kernel; ended early.
Roots(kernel, txt) ==
  {<<Entry("volume", "DISK", 0, 0), kernel, txt, End>>,
   <<Entry("deleted", "TEST.TXT", 3, 4), Entry("dir", "TEST.TXT", 3, 4), kernel, txt>>,
   <<txt, Entry("lfn", "KERNEL.BIN", 0, 0), End, kernel>>}

\* Chains in order, in pieces, too short, in a circle.
Chains ==
  {[c \in 2 .. 7 |-> IF c \in {4, 7} THEN 4095 ELSE c + 1],
   [c \in 2 .. 7 |-> CASE c = 2 -> 7 [] c = 7 -> 4 [] c = 5 -> 3 [] c = 3 -> 6
                       [] OTHER -> 4088],
   [c \in 2 .. 7 |-> CASE c = 2 -> 3 [] c = 3 -> 4095 [] OTHER -> 0],
   [c \in 2 .. 7 |-> CASE c = 2 -> 3 [] c = 3 -> 2 [] OTHER -> c]}

MCImages ==
  UNION {[fats : {2}, fatsize : {3, 4}, spc : {1, 2}, next : Chains,
          root : Roots(Entry("file", "KERNEL.BIN", 2, k), Entry("file", "TEST.TXT", 5, t))]
         : k \in {7, 8, 12}, t \in {0, 3, 9}}
=============================================================================
