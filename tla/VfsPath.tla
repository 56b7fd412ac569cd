------------------------------ MODULE VfsPath ------------------------------
(***************************************************************************)
(* The paths of dev/vfs/vfs.cpp: what vfs_mount and vfs_create make of a   *)
(* spelled path (normalize_abs_path), how vfs_find takes one apart, and    *)
(* how a path is matched against the mount table.  A path is a sequence of *)
(* characters, "/" among them; buffer sizes count the terminating NUL, so  *)
(* a buffer of n holds n - 1 characters.                                   *)
(***************************************************************************)
EXTENDS Naturals, Sequences, SequencesExt

CONSTANTS
  VFS_MAX_PATH,  \* size of a path buffer
  VFS_MAX_NAME   \* size of a name buffer

ASSUME PathAssumption == VFS_MAX_PATH \in Nat /\ VFS_MAX_NAME \in Nat
                         /\ VFS_MAX_PATH > 1 /\ VFS_MAX_NAME > 1

Root == <<"/">>
Cut(s, bufsize) == SubSeq(s, 1, Min({Len(s), bufsize - 1}))

StartsAtRoot(path) == path # <<>> /\ Head(path) = "/"

\* The loop of normalize_abs_path: a slash after a slash is dropped, and so
\* is everything once the buffer is full.
Collapsed(out, c) ==
  IF \/ Len(out) + 1 >= VFS_MAX_PATH
     \/ c = "/" /\ out # <<>> /\ Last(out) = "/"
  THEN out ELSE Append(out, c)

Collapse(in) ==
  LET out[n \in 0 .. Len(in)] ==
        IF n = 0 THEN IF StartsAtRoot(in) THEN <<>> ELSE Root ELSE Collapsed(out[n - 1], in[n])
  IN out[Len(in)]

Trim(path) == IF Len(path) > 1 /\ Last(path) = "/" THEN Front(path) ELSE path

normalize_abs_path(in) == Trim(Collapse(in))

\* Mutant: any string prefix matches.
StringPrefix(path, mount_path) == mount_path # <<>> /\ IsPrefix(mount_path, path)
is_mount_prefix_match(path, mount_path) ==
  /\ mount_path # <<>>
  /\ IsPrefix(mount_path, path)
  /\ Len(path) > Len(mount_path) => path[Len(mount_path) + 1] = "/"

-----------------------------------------------------------------------------
(* vfs_find                                                                *)

\* Mutant: a relative path is taken as it is.
AbsoluteAlways(path) == path

\* The path vfs_find_mount works on: a relative one gets a leading "/".
Absolute(path) == IF StartsAtRoot(path) THEN path ELSE Cut(Root \o path, VFS_MAX_PATH)

Drop(path, n) == SubSeq(path, n + 1, Len(path))

\* What is left of a path below the mount at its first len characters.
RelPath(path, len) ==
  LET rest == Drop(path, len)
  IN IF len > 1 /\ StartsAtRoot(rest) THEN Tail(rest) ELSE rest

\* One more character: behind a slash it begins a component.
Taken(parts, ended, c) ==
  IF c = "/" THEN parts
  ELSE IF ended THEN Append(parts, <<c>>)
  ELSE Append(Front(parts), Append(Last(parts), c))

\* The components vfs_find looks up one after the other.  Slashes are
\* skipped after a component only: in front there is an empty one.
Components(rel) ==
  LET parts[n \in 0 .. Len(rel)] ==
        IF n = 0 THEN IF StartsAtRoot(rel) THEN << <<>> >> ELSE <<>>
        ELSE Taken(parts[n - 1], n = 1 \/ rel[n - 1] = "/", rel[n])
  IN parts[Len(rel)]

TooLong(name) == Len(name) > VFS_MAX_NAME - 1

-----------------------------------------------------------------------------
(* vfs_create                                                              *)

LastSlash(path) == SelectLastInSeq(path, LAMBDA c : c = "/")

NewName(path)    == Cut(Drop(path, LastSlash(path)), VFS_MAX_NAME)
ParentPath(path) == IF LastSlash(path) = 1 THEN Root ELSE SubSeq(path, 1, LastSlash(path) - 1)
=============================================================================
