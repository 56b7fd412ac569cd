SPECIFICATION Spec
CONSTANTS
  Keys = {"shift", "a", "up"}
  Packets <- MCPackets
  Typing <- MCTyping
  Moving <- MCMoving
  MAX_INPUTS = 6
INVARIANTS
  NothingStranded
  KeysAsTyped
  PointerFollows
CHECK_DEADLOCK FALSE
