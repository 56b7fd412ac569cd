------------------------------ MODULE MCStdio ------------------------------
EXTENDS Stdio, TLC
MCOffsets == {-1, 1}
Symmetry  == Permutations(Streams) \cup Permutations(Names)
MCTexts   == {<<"x">>, <<"y", "x">>}
=============================================================================
