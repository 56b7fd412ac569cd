-------------------------------- MODULE Vfs --------------------------------
(***************************************************************************)
(* The tree of dev/vfs/vfs.cpp over dev/ramfs/ramfs.cpp: nodes come from   *)
(* two fixed pools, a directory has room for so many files and so many     *)
(* subdirectories, and directories are mounted over directories.  Every    *)
(* call runs to its end before the next one: only kernel_main and the      *)
(* window system's handlers, which do not overlap, touch the tree.         *)
(*                                                                         *)
(* There is one ramfs, so the roots that are mounted are directories of    *)
(* it.  kernel_main mounts "/" only and deletes nothing; vfs_mount and     *)
(* ramfs_delete_node are modelled for the callers their headers offer them *)
(* to.  The order of a directory's slots, which only readdir shows, and    *)
(* permissions, which nothing reads, are left out.                         *)
(***************************************************************************)
EXTENDS VfsPath, Integers, FiniteSets

CONSTANTS
  RAMFS_MAX_TOTAL_DIRS, RAMFS_MAX_TOTAL_FILES,  \* the pools
  RAMFS_MAX_DIRS, RAMFS_MAX_FILES,              \* slots of a directory
  VFS_MAX_MOUNTS,
  Paths,       \* the spellings clients pass
  MountPaths   \* the spellings they mount at

Dir  == 1 .. RAMFS_MAX_TOTAL_DIRS
File == RAMFS_MAX_TOTAL_DIRS + 1 .. RAMFS_MAX_TOTAL_DIRS + RAMFS_MAX_TOTAL_FILES
Node == Dir \cup File
NULL == 0
root == 1  \* the directory ramfs_init returns

ASSUME VfsAssumption ==
  /\ RAMFS_MAX_TOTAL_DIRS \in Nat \ {0} /\ RAMFS_MAX_TOTAL_FILES \in Nat
  /\ RAMFS_MAX_DIRS \in Nat /\ RAMFS_MAX_FILES \in Nat /\ VFS_MAX_MOUNTS \in Nat
  /\ Paths \cup MountPaths \subseteq Seq(STRING)

VARIABLES
  used,        \* dirs_used and files_used
  name,        \* vfs_node.name
  parent,      \* ramfs_dir.parent, ramfs_file.parent
  entries,     \* the subdirs and files of each directory
  mountpoint,  \* vfs_node.mountpoint
  vfs_root,
  mounts,      \* [mount_path, root]; mount_count is its length
  last         \* the last call: what, where, and what it returned

tree == <<used, name, parent, entries>>
vfsvars == <<tree, mountpoint, vfs_root, mounts, last>>

\* After vfs_init and ramfs_init.
TreeInit ==
  /\ used = {root}
  /\ name       = [n \in Node |-> <<>>]
  /\ parent     = [n \in Node |-> NULL]
  /\ entries    = [d \in Dir |-> {}]
  /\ mountpoint = [n \in Node |-> NULL]
  /\ vfs_root = NULL
  /\ mounts = <<>>
  /\ last = [call |-> "none", path |-> <<>>, result |-> 0]

Returns(call, path, result) == last' = [call |-> call, path |-> path, result |-> result]

-----------------------------------------------------------------------------
(* Lookup                                                                  *)

Named(d, nm) == {n \in entries[d] : name[n] = nm}

ramfs_finddir(d, nm) == IF Named(d, nm) = {} THEN NULL ELSE CHOOSE n \in Named(d, nm) : TRUE

\* The mount vfs_find_mount chooses for a path: the longest that matches,
\* the first of two that are equally long; 0 for vfs_root.
BestMount(path) ==
  LET matching == {i \in DOMAIN mounts : is_mount_prefix_match(path, mounts[i].mount_path)}
      PathLen(i) == Len(mounts[i].mount_path)
      longest == {i \in matching : PathLen(i) = Max({PathLen(j) : j \in matching})}
  IN IF matching = {} THEN 0 ELSE Min(longest)

\* One component: into the directory, then into what is mounted there.
Step(node, component) ==
  LET found == ramfs_finddir(node, component)
  IN IF node \notin Dir \/ TooLong(component) THEN NULL
     ELSE IF found # NULL /\ mountpoint[found] # NULL THEN mountpoint[found] ELSE found

Walk(start, components) ==
  LET node[n \in 0 .. Len(components)] ==
        IF n = 0 THEN start ELSE Step(node[n - 1], components[n])
  IN node[Len(components)]

vfs_find(path_in) ==
  LET path == Absolute(path_in)
      i == BestMount(path)
      start == IF i = 0 THEN vfs_root ELSE mounts[i].root
      rel == RelPath(path, IF i = 0 THEN 1 ELSE Len(mounts[i].mount_path))
  IN IF vfs_root = NULL THEN NULL ELSE Walk(start, Components(rel))

-----------------------------------------------------------------------------
(* Mounting                                                                *)

\* dir is what vfs_find makes of the path: where a directory is mounted at it
\* already, that directory, not the one below it.
MountError(path, dir) ==
  IF Len(mounts) >= VFS_MAX_MOUNTS THEN -2
  ELSE IF path = Root THEN IF vfs_root # NULL THEN -3 ELSE 0
  ELSE IF vfs_root = NULL THEN -4
  ELSE IF dir \notin Dir THEN -5
  ELSE IF mountpoint[dir] # NULL THEN -6
  ELSE 0

vfs_mount(path_in, node) ==
  LET path == normalize_abs_path(path_in)
      dir  == vfs_find(path)
      error == MountError(path, dir)
  IN /\ Returns("mount", path_in, error)
     /\ vfs_root' = IF error = 0 /\ path = Root THEN node ELSE vfs_root
     /\ IF error = 0 /\ path # Root
        THEN /\ mountpoint' = [mountpoint EXCEPT ![dir] = node]
             /\ mounts' = Append(mounts, [mount_path |-> path, root |-> node])
        ELSE UNCHANGED <<mountpoint, mounts>>
     /\ UNCHANGED tree

-----------------------------------------------------------------------------
(* Creating                                                                *)

Pool(kind)     == IF kind = "dir" THEN Dir ELSE File
Slots(kind)    == IF kind = "dir" THEN RAMFS_MAX_DIRS ELSE RAMFS_MAX_FILES
FreeNodes(kind) == Pool(kind) \ used

\* Mutant: the last slot is never used.
RoomSpared(d, nm, kind) ==
  /\ Named(d, nm) = {}
  /\ Cardinality(entries[d] \cap Pool(kind)) + 1 < Slots(kind)
  /\ FreeNodes(kind) # {}

\* ramfs_create_dir and ramfs_create_file: no duplicate, a free slot, a free node.
RoomFor(d, nm, kind) ==
  /\ Named(d, nm) = {}
  /\ Cardinality(entries[d] \cap Pool(kind)) < Slots(kind)
  /\ FreeNodes(kind) # {}

\* alloc_dir and alloc_file clear the whole node.
ramfs_create_node(d, nm, kind, node) ==
  /\ node = Min(FreeNodes(kind))
  /\ used' = used \cup {node}
  /\ name' = [name EXCEPT ![node] = nm]
  /\ parent' = [parent EXCEPT ![node] = d]
  /\ mountpoint' = [mountpoint EXCEPT ![node] = NULL]
  /\ entries' = [e \in Dir |-> IF e = node THEN {}
                               ELSE IF e = d THEN entries[d] \cup {node} ELSE entries[e]]

vfs_create(path_in, kind) ==
  LET path == normalize_abs_path(path_in)
      d    == vfs_find(ParentPath(path))
  IN /\ \/ /\ path # Root /\ d \in Dir /\ RoomFor(d, NewName(path), kind)
           /\ \E node \in Node : /\ ramfs_create_node(d, NewName(path), kind, node)
                                 /\ Returns("create", path_in, node)
        \/ /\ ~(path # Root /\ d \in Dir /\ RoomFor(d, NewName(path), kind))
           /\ Returns("create", path_in, NULL)
           /\ UNCHANGED <<tree, mountpoint>>
     /\ UNCHANGED <<vfs_root, mounts>>

-----------------------------------------------------------------------------
(* Deleting                                                                *)

\* Mutant: a directory goes with what is in it.
DeletableFull(node) == parent[node] # NULL

Deletable(node) == parent[node] # NULL /\ (node \in Dir => entries[node] = {})

\* The node keeps its fields until the pool hands it out again.
ramfs_delete_node(path, node) ==
  /\ Returns("delete", path, IF Deletable(node) THEN 0 ELSE -1)
  /\ IF Deletable(node)
     THEN /\ used' = used \ {node}
          /\ entries' = [entries EXCEPT ![parent[node]] = @ \ {node}]
     ELSE UNCHANGED <<used, entries>>
  /\ UNCHANGED <<name, parent, mountpoint, vfs_root, mounts>>

-----------------------------------------------------------------------------
MountRoots == {mounts[i].root : i \in DOMAIN mounts} \cup {vfs_root}

\* Clients delete no directory that is mounted or mounted over.
NotMounted(node) == node \notin MountRoots /\ mountpoint[node] = NULL

MountRoot == vfs_mount(Root, root)
Mount  == \E path \in MountPaths, node \in used \cap Dir : vfs_mount(path, node)
Create == \E path \in Paths, kind \in {"dir", "file"} : vfs_create(path, kind)
Delete == \E path \in Paths :
            LET node == vfs_find(path)
            IN node # NULL /\ NotMounted(node) /\ ramfs_delete_node(path, node)

TreeNext == MountRoot \/ Mount \/ Create \/ Delete
TreeSpec == TreeInit /\ [][TreeNext]_vfsvars


-----------------------------------------------------------------------------
(* Properties                                                              *)

TreeTypes ==
  /\ used \subseteq Node /\ root \in used
  /\ DOMAIN name = Node /\ \A n \in Node : Len(name[n]) < VFS_MAX_NAME
  /\ parent \in [Node -> Dir \cup {NULL}]
  /\ entries \in [Dir -> SUBSET Node] /\ \A d \in Dir \ used : entries[d] = {}
  /\ mountpoint \in [Node -> Dir \cup {NULL}]
  /\ vfs_root \in {NULL, root}
  /\ Len(mounts) <= VFS_MAX_MOUNTS
  /\ \A i \in DOMAIN mounts : mounts[i].root \in Dir /\ Len(mounts[i].mount_path) < VFS_MAX_PATH

\* The used nodes are one tree: each is an entry of its parent and of no
\* other directory, no two entries of a directory share a name, whatever
\* spelling they were made with, no directory exceeds its slots, and every
\* node can be reached from the root, so none is lost to the pool.  The mount
\* table and the mountpoints of the nodes tell the same story: every path of
\* the table leads to the first directory mounted at it, in whatever order the
\* mounts were made and however they are nested, and every mount is one of a
\* live directory over a live directory.
MountedBefore(i) == \E j \in 1 .. i - 1 : mounts[j].mount_path = mounts[i].mount_path
MountsSound ==
  /\ \A i \in DOMAIN mounts : ~MountedBefore(i) => vfs_find(mounts[i].mount_path) = mounts[i].root
  /\ MountRoots \ {NULL} \subseteq used
  /\ {mountpoint[n] : n \in used} \ {NULL} = {mounts[i].root : i \in DOMAIN mounts}
Below(D) == D \cup UNION {entries[d] : d \in D \cap Dir}
Reached ==
  LET within[n \in 0 .. Cardinality(Dir)] == IF n = 0 THEN {root} ELSE Below(within[n - 1])
  IN within[Cardinality(Dir)]
TreeSound ==
  /\ TreeTypes /\ MountsSound
  /\ Reached = used
  /\ \A d \in used \cap Dir : \A n \in entries[d] :
       /\ n # root /\ parent[n] = d
       /\ \A m \in entries[d] : name[m] = name[n] => m = n
  /\ \A d \in used \cap Dir :
       /\ Cardinality(entries[d] \cap Dir) <= RAMFS_MAX_DIRS
       /\ Cardinality(entries[d] \cap File) <= RAMFS_MAX_FILES

\* What vfs.cpp:99 says of vfs_mount: no second mount on the same directory.
\* The code finds the directory mounted there instead, and mounts over that.
MountedOnce ==
  \A i, j \in DOMAIN mounts : mounts[i].mount_path = mounts[j].mount_path => i = j

\* The path at which vfs_create makes a node: the last name cut to a node's.
Made(path) == SubSeq(path, 1, LastSlash(path) + Len(NewName(path)))

\* A directory is mounted at this very path, which the code looks up first.
MountedAt(path) == \E i \in DOMAIN mounts : mounts[i].mount_path = path

\* No slash twice in a row, and room for a leading one.
NoDoubleSlash(path) == \A i \in 1 .. Len(path) - 1 : path[i] # "/" \/ path[i + 1] # "/"
Plain(path) == NoDoubleSlash(path) /\ Len(path) + 1 < VFS_MAX_PATH

\* A node that vfs_create returned is what vfs_find finds at its normal path,
\* the name as it was cut, in whatever order and however nested the mounts are;
\* and at the client's own spelling too, if that is plain and its name was not
\* cut.  Only where a directory is mounted at that very path, which an earlier
\* mount can be after a mount above it, is the new node hidden behind it.
CreatedIsFound ==
  LET path == normalize_abs_path(last.path)
  IN last.call = "create" /\ last.result # NULL =>
       \/ MountedAt(Made(path))
       \/ /\ vfs_find(Made(path)) = last.result
          /\ Plain(last.path) /\ Made(path) = path => vfs_find(last.path) = last.result

\* vfs_create fails only for a path that is taken, the name as it is cut,
\* whose directory is not there, or for which some pool or directory is full.
RefusedForAReason ==
  LET path == normalize_abs_path(last.path)
      d == vfs_find(ParentPath(path))
      Full(kind) == \/ FreeNodes(kind) = {}
                    \/ Cardinality(entries[d] \cap Pool(kind)) = Slots(kind)
  IN last.call = "create" /\ last.result = NULL =>
       \/ vfs_find(Made(path)) # NULL
       \/ d \notin Dir
       \/ Full("dir") \/ Full("file")

=============================================================================
