SPECIFICATION MCSpec
CONSTANTS
  VFS_MAX_PATH = 7
  Letters = {"a", "b"}
  MaxLen = 8
  VFS_MAX_NAME = 3
  RAMFS_MAX_TOTAL_DIRS = 3
  RAMFS_MAX_TOTAL_FILES = 2
  RAMFS_MAX_DIRS = 2
  RAMFS_MAX_FILES = 1
  VFS_MAX_MOUNTS = 3
  Paths <- MCPaths
  MountPaths <- MCMountPaths
INVARIANTS
  MountedOnce
