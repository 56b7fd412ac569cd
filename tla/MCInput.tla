------------------------------ MODULE MCInput ------------------------------
(* Instances of Input for TLC.                                             *)
EXTENDS Input

\* One pixel right and down with the left button; left and up, with bytes that
\* have bit 3; an overflow; 200 pixels right at once.
MCPackets == {<<41, 1, 255>>, <<24, 255, 8>>, <<72, 127, 0>>, <<8, 200, 0>>}
\* kernel_main is let alone where a byte of the user's would be taken for an
\* answer or left in the controller: see README.
MCTyping  == Steps \ {"kb_reset", "kb_install", "config_wait", "config_read"}
MCMoving  == {"done"}
=============================================================================
