SPECIFICATION MCSpec
CONSTANTS
  Messages = {"a", "b"}
  Devices = {"terminal", "serial"}
  LOG_BUFFER = 7
  MaxLogs = 3
  WIDTH = 4
  HEIGHT = 10
  CHARH = 2
  SPACING = 1
  BUFFER = 12
  MAX_CALLBACKS = 2
  Keys <- MCKeys
  MaxKeys = 3
  Tree <- MCTree
  ROWS = 3
  DEPTH = 3
  EARLY = 2
  FAILURES = 1
INVARIANTS
  LogComplete
  ScreenShowsText
  OneListener
  ShowsFolder
  OneCursor
PROPERTIES
  ScreenShowsWindow
CHECK_DEADLOCK FALSE
