SPECIFICATION Spec
CONSTANTS
  SECTOR = 4
  SPT = 4
  HEADS = 2
  Address <- MCAddress
  MAX_FAT_SECTORS = 3
  ENTRY = 2
  ROOM = 12
  Images <- MCImages
  CALLS <- MCCalls
INVARIANTS
  LoadsFile
  KernelGetsPointer
PROPERTIES
  WritesOnlyItsFile
  LoadEnds
CHECK_DEADLOCK FALSE
