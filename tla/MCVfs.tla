------------------------------- MODULE MCVfs -------------------------------
(***************************************************************************)
(* The tree, and the path operators it is built on: paths are typed and    *)
(* compared with the reference while the tree is still the initial one,    *)
(* and clients work on the tree while no path is typed.  Among their       *)
(* spellings is a name longer than a node's, behind a repeated slash.      *)
(***************************************************************************)
EXTENDS Vfs, PathReference

a   == <<"/", "a">>
ab  == <<"/", "a", "/", "b">>
MCMountPaths == {a, ab}
long == <<"/", "/", "a", "b", "b">>
MCPaths == {a, ab, <<"b", "/">>, long}

MCInit == TreeInit /\ TypedInit
MCNext ==
  \/ typed = <<>> /\ TreeNext /\ UNCHANGED typed
  \/ last.call = "none" /\ (Type \/ Clear) /\ UNCHANGED vfsvars
MCSpec == MCInit /\ [][MCNext]_<<vfsvars, typed>>
=============================================================================
