CONSTANTS
  h1 = h1
  h2 = h2
  s1 = s1
  s2 = s2
  good = good
  bad = bad
  Host = {h1, h2}
  Localhost = h1
  NoURL = NoURL
  NoClient = NoClient
  SyncURL = {s1, s2}
  NoSync = NoSync
  Line = {good, bad}
  Compiles = {good}
  Served <- MCServed
  SyncInterval = 1
  Busy = {}
  Defaults <- MCDefaults
  MaxMtime = 3
  Scenes <- MCScenes

SPECIFICATION Spec

INVARIANTS
  TypeOK
  RegisteredServed
  

PROPERTIES
  FilesRead
  SyncFollows
  StopCompletes
