SPECIFICATION Spec
CONSTANTS
  a1 = a1 a2 = a2 b = b c = c d = d ip = ip h1 = h1 h2 = h2 idA = idA idB = idB
  Id <- MCId
  NoId = NoId
  Conn <- MCConn
  IPOf <- MCIPOf
  HashOf <- MCHashOf
  PortOf <- MCPortOf
  PeersAt <- MCPeersAt
  Uncounted = {c, d}
  Swarms <- MCSwarms
  SwarmsOf <- MCSwarmsOf
  Retention = 1
  MaxEntries = 1
  Pauses = {1}
  MaxRaw <- MCMaxRaw
  MaxSent <- MCMaxSent
  GroupOf <- MCGroupOf
  Interval = 0
  Increment = 1
  MaxPorts = 1
  Suspects = {c}
  Progress <- MCProgress
  TorrentInterval = 0
  UnitAllowance = 1
  RelativeStart = 0
  RelativePercent = 30
  RelativeRatio = 1
  ProgressStart = 2
INVARIANTS BannedTrafficObserved
