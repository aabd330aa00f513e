SPECIFICATION BanSpec
CONSTANTS
  p1 = p1  p2 = p2  p3 = p3
  wide = wide  narrow = narrow
  NoNet = NoNet
  IP <- MCIP
  Net <- MCNet
  Configs <- MCConfigs
  Pauses = {1, 2}
  MaxAge = 3
SYMMETRY Alike
INVARIANTS BanTypeOK SubnetsBanned
PROPERTIES LeasesKept ClearComplete
