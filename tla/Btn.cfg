SPECIFICATION FairSpec
CONSTANTS
  u1 = u1  u2 = u2  rules = rules  v1 = v1  v2 = v2
  Urls = {u1, u2}  NoUrl = NoUrl
  Kinds = {rules}  Reconfigure = Reconfigure
  Abilities <- MCAbilities
  Configs <- MCConfigs
  Versions = {v1, v2}
  Services <- MCServices
  Addresses = {1, 2, 3}
  Loop = Loop  Task = Task
  MaxReloads = 1  MaxTroubles = 1
INVARIANTS TypeOK
PROPERTIES ListsFollowConfig AcceptedIsServed ListsArrive
