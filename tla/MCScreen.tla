------------------------------ MODULE MCScreen ------------------------------
(***************************************************************************)
(* The screen: the console until kernel_main deletes the terminal, and the *)
(* desktop after that, over the tree that kernel_main leaves               *)
(* (p-kernel.cpp:66-185).  Either is looked at by itself, while the other  *)
(* is still as it begins.                                                  *)
(***************************************************************************)
EXTENDS Console, Desktop

MCKeys == {<<"x", "key">>, NewlineChar, Backspace, <<"tab", "key">>, <<"escape", "key">>}

Folder(n) == [name |-> n, type |-> "dir"]
Plain(n)  == [name |-> n, type |-> "file"]

hello == <<"hello">>
world == <<"hello", "world">>
test  == <<"hello", "world", "test">>

MCTree ==
  [p \in {<<>>, hello, world, test} |->
     CASE p = <<>>  -> <<Folder("hello"), Plain("kmsglog"), Plain("main.elf")>>
       [] p = hello -> <<Folder("world"), Plain("test.net")>>
       [] p = world -> <<Folder("test")>>
       [] p = test  -> <<>>]

MCInit == CInit /\ Init
MCNext ==
  \/ pc = "window manager" /\ CNext /\ UNCHANGED vars
  \/ main = "capture" /\ pressed = 0 /\ Next /\ UNCHANGED cvars
MCSpec == MCInit /\ [][MCNext]_<<cvars, vars>>
=============================================================================
