SPECIFICATION LiveSpec
CONSTANTS
  MAX_TASKS = 4
  s1 = s1
  s2 = s2
  s3 = s3
  boot = boot
  Stacks <- MCStacks
  BootStack = boot
  Creators <- MCCreators
  NULL = NULL
INVARIANTS
  RunqueueCircle
  LockHeldByRunning
  FramesNotShared
PROPERTIES
  KernelMainAbandoned
  RoundRobinScheduling
  ExitYields
