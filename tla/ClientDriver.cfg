\* Every kind of client: the peers fetched, and the bans enforced.
SPECIFICATION Spec
CONSTANTS
  IP = {i1, i2}
  Torrent = {t1, t2}
  Task = {t1, t2}
  NotSubmitted = NotSubmitted
  Peer = {k}
  Field = {"client", "uploaded"}
  Records <- MCRecords
  Nil = Nil
  MaxRid = 3
  Kinds = {"qBittorrent", "Transmission", "BitComet"}
  MayForget = TRUE
SYMMETRY Alike
INVARIANTS TypeOK PeersAreCurrent CursorHasCache ExactWhereAnswered
