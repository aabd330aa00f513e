\* Two clients, whose URL the user edits: does scanning resume?
SPECIFICATION FairSpec
CONSTANTS
  p1 = p1  p2 = p2
  subnet = subnet
  urlA = urlA  urlB = urlB
  NoNet = NoNet  NoURL = NoURL  NoClient = NoClient
  IP = {p1, p2}
  Net = {subnet}
  Configs <- MCConfigs
  MaxAge = 1
  URL = {urlA, urlB}
  ClientConfigs <- TwoClients
  KindOf <- MCKindOf
  Pauses = {1}
  Sample <- MCSample
  MaxDelay = 1
PROPERTY ScanningResumes
