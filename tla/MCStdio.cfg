SPECIFICATION Spec
CONSTANTS
  Names = {f, g}
  Bytes = {"x", "y"}
  Streams = {s1, s2}
  MAX_OPEN_FILES = 2
  RAMFS_MAX_FILE_SIZE = 3
  NULL = NULL
  Modes = {"r", "a"}
  Offsets <- MCOffsets
  Counts = {2}
  Texts <- MCTexts
SYMMETRY Symmetry
INVARIANTS
  DescriptorsOwned
PROPERTY
  ImplementsFileStore
