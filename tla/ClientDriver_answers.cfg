\* qBittorrent: the answer to a submission is lost.
SPECIFICATION Spec
CONSTANTS
  IP = {i1, i2}
  Torrent = {t1}
  Task = {t1}
  NotSubmitted = NotSubmitted
  Peer = {k}
  Field = {"client", "uploaded"}
  Records <- MCRecords
  Nil = Nil
  MaxRid = 1
  Kinds = {"qBittorrent"}
  MayForget = FALSE
INVARIANT SuccessMeansEnforced
