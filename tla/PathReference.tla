--------------------------- MODULE PathReference ---------------------------
(***************************************************************************)
(* The path operators against what their names and comments promise, for   *)
(* every path of up to MaxLen characters, typed character by character.    *)
(***************************************************************************)
EXTENDS VfsPath

CONSTANTS
  Letters,  \* the characters besides "/"
  MaxLen    \* length of the longest path

VARIABLE typed

TypedInit == typed = <<>>
Type == \E c \in Letters \cup {"/"} : Len(typed) < MaxLen /\ typed' = Append(typed, c)
Clear == Len(typed) = MaxLen /\ typed' = <<>>

\* The reference: the names of a path are its longest runs without a slash,
\* from left to right.
NameStarts(p) == {i \in DOMAIN p : p[i] # "/" /\ (i = 1 \/ p[i - 1] = "/")}
NameAt(p, i) ==
  LET end == Max({j \in i .. Len(p) : \A k \in i .. j : p[k] # "/"}) IN SubSeq(p, i, end)
Names(p) ==
  [n \in 1 .. Cardinality(NameStarts(p)) |->
     NameAt(p, CHOOSE i \in NameStarts(p) : Cardinality({j \in NameStarts(p) : j <= i}) = n)]
Spell(names) == IF names = <<>> THEN Root ELSE FlattenSeq([i \in DOMAIN names |-> Root \o names[i]])

\* Paths that fit the buffers, and canonical spellings.
Fits(p) == Len(Spell(Names(p))) < VFS_MAX_PATH
PlainPaths == {Spell(<<n>>) : n \in BoundedSeq(Letters, 2) \ {<<>>}}
                \cup {Spell(<<n, m>>) : n, m \in {<<c>> : c \in Letters}}

\* The result of normalize_abs_path starts with "/", has no other slash at
\* its end and no two in a row, and names what the spelling named: all of it
\* when it fits the buffer, otherwise as much of it as the buffer holds.
Normalized ==
  /\ Fits(typed) => normalize_abs_path(typed) = Spell(Names(typed))
  /\ ~Fits(typed) => normalize_abs_path(typed) = Trim(SubSeq(Spell(Names(typed)), 1, VFS_MAX_PATH - 1))

\* A mount path matches exactly the paths whose first names are its own:
\* "/hello" matches "/hello/x" and not "/hellothere".
MatchesWholeNames ==
  \A m \in PlainPaths :
    LET p == Spell(Names(typed))
    IN is_mount_prefix_match(p, m) <=> IsPrefix(Names(m), Names(p))

\* A slash repeated right after a mount path.
RepeatsAfter(p, m) ==
  IsPrefix((IF m = Root THEN <<>> ELSE m) \o <<"/", "/">>, p)

\* vfs_create makes the last name of a path in the directory that vfs_find
\* finds at the other names, if the path and the name fit their buffers.
CreatesTheLastName ==
  /\ Normalized
  /\ LET p == normalize_abs_path(typed) IN
       p # Root /\ Fits(typed) =>
         /\ Components(RelPath(ParentPath(p), 1)) = Front(Names(typed))
         /\ ~TooLong(Last(Names(typed))) => NewName(p) = Last(Names(typed))

\* Below a mount, and below the root, vfs_find looks up exactly the names
\* the path has after the mount's, however often its slashes are repeated,
\* unless they are repeated right after the mount path: vfs_find then sees an
\* empty component, for which no node is found.  Creation, whose code takes a
\* spelling apart in its own way, ends at the same names.
WalksItsNames ==
  /\ MatchesWholeNames
  /\ CreatesTheLastName
  /\ \A m \in PlainPaths \cup {Root} :
    LET p == Absolute(typed)
    IN /\ is_mount_prefix_match(p, m) \/ m = Root
       /\ Len(typed) < VFS_MAX_PATH - 1
       /\ ~RepeatsAfter(p, m)
       => Components(RelPath(p, Len(m))) = Drop(Names(p), Len(Names(m)))
=============================================================================
