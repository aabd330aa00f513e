\* One reload or restart; a browser shares the snapshot with others.
SPECIFICATION Spec
CONSTANTS
  IP = {1, 2}
  Info = {1, 2}
  Capacity = 2
  poller1 = poller1
  Poller = {poller1}
  MaxCursor = 4
  MaxEpoch = 2
  b1 = b1
  Browser = {b1}
  Query <- MCQuery
  PageLimit = 1
  MaxSnapshot = 3
  debugLog = debugLog  infoLog = infoLog
  Level = {debugLog, infoLog}
  LogCapacity = 3
  LogLimit = 2
  MaxLog = 6
  MaxLogEpoch = 2
\* With the WebUI disabled and the bounds reached, nothing is left to do.
CHECK_DEADLOCK FALSE
INVARIANTS TypeOK CopyRightWhereSilent BansPages LogsPages
PROPERTY CopyCatchesUp
