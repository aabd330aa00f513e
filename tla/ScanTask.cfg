\* One client, which the user may also leave out of the configuration.
SPECIFICATION FairSpec
CONSTANTS
  p1 = p1  p2 = p2
  subnet = subnet
  urlA = urlA  urlB = urlB
  NoNet = NoNet  NoURL = NoURL  NoClient = NoClient
  IP = {p1, p2}
  Net = {subnet}
  Configs <- MCMaskedConfigs
  MaxAge = 2
  URL = {urlA, urlB}
  ClientConfigs <- OneClient
  KindOf <- MCKindOf
  Pauses = {1}
  Sample <- MCSample
  MaxDelay = 2
INVARIANTS TypeOK ClientUpToDate BackoffBelongsToPending
PROPERTIES SubmissionDelivered ExpiredBansLifted
