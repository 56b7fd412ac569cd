SPECIFICATION Spec
CONSTANTS
  RING = 5
  FRAGMENT = 4
  PLAYS = 2
  LATE = 3
  Opener = "kernel_main"
  WavFiles <- MCWavFiles
  ElfFiles <- MCElfFiles
  WORDS = 64
  Buffers = {8, 48}
  Blocks = {3, 30}
  OPENS = 2
INVARIANTS
  LinksOrRefuses
PROPERTIES
  PlaysInOrder
  NeverWritesPlaying
  PlaysWholeClip
  PlaybackStops
CHECK_DEADLOCK FALSE
