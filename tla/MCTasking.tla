----------------------------- MODULE MCTasking -----------------------------
(* Instances of Tasking for TLC.                                           *)
EXTENDS TaskingRefinement

CONSTANTS s1, s2, s3, boot

MCStacks   == {s1, s2, s3}
\* kernel_main creates tasks, and so may the first of them.
MCCreators == {boot, s1}
=============================================================================
