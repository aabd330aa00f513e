\* Downloads against reloads, restarts, failures and edits.
CONSTANTS
  r1 = r1
  r2 = r2
  bad = bad
  u1 = u1
  u2 = u2
  f1 = f1
  BlockList = BlockList
  Lines <- MCLines
  Invalid = {bad}
  Contents <- MCContents
  Urls <- MCUrls
  Files <- MCFiles
  Configs <- MCConfigs
  Versions <- MCVersions
  Tagging = {u1}
  IPList = FALSE
  MaxReloads = 1
  MaxRestarts = 1
  MaxChanges = 1
  MaxFailures = 1
SPECIFICATION FairSpec
INVARIANTS
  TypeOK
  RulesOwned
  SubscribedOnly
  RemembersRightly
PROPERTIES
  AcceptsWhatIsServed
  GoodRulesKept
  ListsArrive
