--------------------------- MODULE TorrentTraffic ---------------------------
(***************************************************************************)
(* The upload statistics by torrent, internal/stats/torrent.go and the     *)
(* second half of CleanHistory: what every connection was sent and how far *)
(* its peer says it got, the snapshot of the last check, and the bans      *)
(* CheckAllTorrent makes by comparing the two.                             *)
(*                                                                         *)
(* Sizes and progress are in units: a peer's progress is the number of     *)
(* units of the torrent it says it has.                                    *)
(***************************************************************************)
EXTENDS PeerTraffic

CONSTANTS
  Progress,         \* [Conn -> the progress a peer may report]
  TorrentInterval,  \* torrentMapCleanInterval
  UnitAllowance,    \* ipUpCheckPerTorrentRatio * the size of a unit
  RelativeStart,    \* banByRelativePUStartMB
  RelativePercent,  \* banByRelativePUStartPercent
  RelativeRatio,    \* banByRelativePUAntiErrorRatio
  ProgressStart     \* banByPUStartMB

ASSUME TorrentSettingsAssumption ==
  /\ Progress \in [Conn -> SUBSET Nat]
  /\ TorrentInterval \in Nat /\ TorrentInterval <= Retention
  /\ {UnitAllowance, RelativeStart, RelativePercent, RelativeRatio, ProgressStart} \subseteq Nat

VARIABLES
  conns,         \* TorrentMap: [recorded Conn -> its statistics]
  peerUploaded,  \* TorrentMap: [recorded Torrent of an IP -> uploaded, of all its ports]
  lastConns,     \* LastTorrentMap: [Conn -> its statistics at the last check]
  torrentAge,    \* the time since the last check
  seenPeer,      \* history: the peer that the last record of a Conn is about
  checkedPeer    \* history: seenPeer, at the last check

torrentStatistics == <<conns, peerUploaded, lastConns, torrentAge>>
torrentVars == <<torrentStatistics, seenPeer, checkedPeer>>

\* PeerInfoStruct of one connection: the total of all its sessions, the last
\* report of the present one, and the counter that growth is measured over.
Statistics == [total : Nat \cup {Unknown}, raw : Nat \cup {Unknown},
               up : Nat \cup {Unknown}, id : Id \cup {NoId},
               session : Nat, progress : Nat, age : Age]

TorrentTypeOK ==
  /\ DOMAIN conns \subseteq Conn /\ conns \in [DOMAIN conns -> Statistics]
  /\ DOMAIN peerUploaded \subseteq Torrent
  /\ peerUploaded \in [DOMAIN peerUploaded -> Nat \cup {Unknown}]
  /\ \A c \in DOMAIN conns : TorrentOf(c) \in DOMAIN peerUploaded
  /\ DOMAIN lastConns \subseteq Conn /\ lastConns \in [DOMAIN lastConns -> Statistics]
  /\ torrentAge \in Age \cup {Never}

TorrentInit ==
  /\ conns = Empty /\ peerUploaded = Empty /\ lastConns = Empty
  /\ torrentAge = Never
  /\ seenPeer = [c \in swarm |-> NoId] /\ checkedPeer = seenPeer

-----------------------------------------------------------------------------
(* Time.  The age of a snapshot is of no interest.                         *)

TorrentTimePasses(d) ==
  /\ conns' = [c \in DOMAIN conns |-> [conns[c] EXCEPT !.age = Older(@, d)]]
  /\ torrentAge' = IF torrentAge = Never THEN Never ELSE Older(torrentAge, d)
  /\ Forget({c \in DOMAIN conns : conns'[c].age = Far})
  /\ UNCHANGED <<peerUploaded, lastConns, banned, sent, seenPeer, checkedPeer>>

\* Mutant: the snapshot keeps the connections that are forgotten.
PruneTorrentPorts_OnlyPresent(expired) ==
  /\ conns' = Restrict(conns, DOMAIN conns \ expired)
  /\ UNCHANGED lastConns

\* PruneTorrentPorts: the connections go, from the snapshot too.
PruneTorrentPorts(expired) ==
  /\ conns' = Restrict(conns, DOMAIN conns \ expired)
  /\ lastConns' = Restrict(lastConns, DOMAIN lastConns \ expired)

Expired == {c \in DOMAIN conns : conns[c].age > Retention}

-----------------------------------------------------------------------------
(* AddTorrentInfo.                                                         *)

NewConnection ==
  [total |-> 0, raw |-> Unknown, up |-> Unknown, id |-> NoId, session |-> 0,
   progress |-> 0, age |-> 0]

\* Mutant: another peer at the endpoint is the same session still.
NewSession_OnlyFalls(previous, up, id) ==
  up >= 0 /\ up < AlignPeerTrafficCounter(previous, id).up

\* A session ends where the counter falls or the identity changes.
NewSession(previous, up, id) ==
  \/ up >= 0 /\ up < AlignPeerTrafficCounter(previous, id).up
  \/ id # NoId /\ previous.id \notin {NoId, id}

\* What is recorded of a connection after a report.
Recorded(previous, up, id, progress) ==
  LET aligned == AlignPeerTrafficCounter(previous, id)
  IN  [aligned EXCEPT !.total = AccumulateCounter(@, up, aligned.up),
                      !.raw = up, !.up = Baseline(up, @), !.progress = progress, !.age = 0,
                      !.session = @ + IF NewSession(previous, up, id) THEN 1 ELSE 0]

\* AddTorrentInfo: the connections of the same IP and torrent are pruned first.
AddTorrentInfo(c, up, id, progress) ==
  LET t == TorrentOf(c)
      expired == {k \in Expired : TorrentOf(k) = t}
      previous == IF c \in DOMAIN conns \ expired THEN conns[c] ELSE NewConnection
      uploaded == IF t \in DOMAIN peerUploaded THEN peerUploaded[t] ELSE 0
  IN  /\ conns' = With(Restrict(conns, DOMAIN conns \ expired), c,
                       Recorded(previous, up, id, progress))
      /\ peerUploaded' = With(peerUploaded, t,
           AccumulateCounter(uploaded, up, AlignPeerTrafficCounter(previous, id).up))
      /\ lastConns' = Restrict(lastConns, DOMAIN lastConns \ expired)
      /\ UNCHANGED torrentAge

\* ProcessPeer records a peer that CheckPeer finds nothing wrong with.
RecordTorrentPeer(c, up, id, progress) ==
  /\ AddTorrentInfo(c, up, id, progress)
  /\ seenPeer' = [seenPeer EXCEPT ![c] = peer[c]]
  /\ UNCHANGED <<banned, checkedPeer>>

\* IsProgressNotMatchUploaded: CheckPeer bans a peer that was sent more than
\* its progress can explain.
IsProgressNotMatchUploaded(progress, up) ==
  up >= ProgressStart /\ progress * RelativeRatio < up

BanByProgress(c, up, id) ==
  /\ AddBlockPeer(c, c, up, id)
  /\ UNCHANGED torrentVars

\* A scan comes to the connection.
TorrentReport(c, up, id, progress) ==
  /\ IF IPOf[c] \in Banned
     THEN UpdateBlockedPeerTraffic(c, up, id) /\ UNCHANGED torrentVars
     ELSE IF IsProgressNotMatchUploaded(progress, up) THEN BanByProgress(c, up, id)
     ELSE RecordTorrentPeer(c, up, id, progress)
  /\ UNCHANGED <<external, sent>>

-----------------------------------------------------------------------------
(* CheckAllTorrent.                                                        *)

\* "Torrent-Too high uploaded": more than the progress allows, in a session.
TooHighUploaded(c) == UnitAllowance > 0 /\ conns[c].raw > conns[c].progress * UnitAllowance

\* The relative check compares two reports of one session.
Comparable(c) ==
  /\ c \in DOMAIN lastConns
  /\ conns[c].session = lastConns[c].session
  /\ conns[c].raw >= 0 /\ lastConns[c].raw >= 0

\* IsProgressNotMatchUploaded_Relative: the share of the bytes that was sent
\* since the last check exceeds the share of the progress made since then.
RelativeMismatch(c) ==
  LET now == conns[c]
      last == lastConns[c]
      growth == IF now.raw < last.raw THEN now.raw ELSE now.raw - last.raw
      made == IF now.progress < last.progress THEN now.progress ELSE now.progress - last.progress
  IN  /\ now.raw > 0 /\ growth > RelativeStart
      /\ growth * 100 > RelativePercent * now.raw
      /\ IF now.progress > 0
         THEN growth * now.progress > made * RelativeRatio * now.raw
         ELSE growth > 0

\* What the check finds, among the connections that were sent something since
\* the last one.
TorrentOffender(c) ==
  /\ ~(c \in DOMAIN lastConns /\ lastConns[c].total = conns[c].total)
  /\ TooHighUploaded(c) \/ (Comparable(c) /\ RelativeMismatch(c))

\* blockTorrentPeer: a ban with the total of the connection.
BlockTorrentPeer(c) ==
  SeedBlockedPeerCounters(Positive(conns[c].total), Restrict(conns, {c}))

\* The choices of one offender for every IP that has one: the connection that
\* Go's random order comes to first.
Culprits(offenders) ==
  {chosen \in SUBSET offenders :
     /\ {IPOf[c] : c \in chosen} = {IPOf[c] : c \in offenders}
     /\ \A c, k \in chosen : IPOf[c] = IPOf[k] => c = k}

\* The copy that the next check compares with.  Nobody asks for its age.
DeepCopyTorrentMap(map) == [c \in DOMAIN map |-> [map[c] EXCEPT !.age = 0]]

\* CheckAllTorrent.  Once an IP is banned its other connections are skipped.
CheckAllTorrent ==
  /\ torrentAge > TorrentInterval
  /\ \E culprits \in Culprits({c \in DOMAIN conns \ Expired :
                                 IPOf[c] \notin Banned /\ TorrentOffender(c)}) :
       banned' = [ip \in Banned \cup {IPOf[c] : c \in culprits} |->
                    IF ip \in Banned THEN banned[ip]
                    ELSE BlockTorrentPeer(CHOOSE c \in culprits : IPOf[c] = ip)]
  /\ conns' = Restrict(conns, DOMAIN conns \ Expired)
  /\ lastConns' = DeepCopyTorrentMap(conns')
  /\ torrentAge' = 0
  /\ checkedPeer' = seenPeer
  /\ UNCHANGED <<external, peerUploaded, sent, seenPeer>>

-----------------------------------------------------------------------------
(* CleanHistory, of the torrents.                                          *)

\* The age of a peer's record is that of its youngest connection.
PeerAge(t) ==
  Min({Far} \cup {conns[c].age : c \in {k \in DOMAIN conns \ Expired : TorrentOf(k) = t}})

CleanTorrentHistory ==
  LET ages == [t \in DOMAIN peerUploaded |-> PeerAge(t)]
  IN  \E gone \in Trimmed(Recent(ages)) :
        LET ts == DOMAIN Recent(ages) \ gone
        IN  /\ peerUploaded' = Restrict(peerUploaded, ts)
            /\ PruneTorrentPorts(Expired \cup {c \in DOMAIN conns : TorrentOf(c) \notin ts})
            /\ UNCHANGED <<external, banned, sent, torrentAge, seenPeer, checkedPeer>>

-----------------------------------------------------------------------------
(* What the store's snapshot tells BTN of every recorded connection.       *)

TorrentSnapshot == conns

\* BTN_SubmitPeers: the present session.
SubmitPeers ==
  {[conn |-> c, uploaded |-> TorrentSnapshot[c].raw,
    peerProgress |-> TorrentSnapshot[c].progress] : c \in DOMAIN TorrentSnapshot}

\* BTN_SubmitHistories: all sessions, and as the offset the present one.
SubmitHistories ==
  {[conn |-> c, uploaded |-> TorrentSnapshot[c].total,
    uploadedOffset |-> TorrentSnapshot[c].raw] : c \in DOMAIN TorrentSnapshot}

-----------------------------------------------------------------------------
TorrentNext ==
  \/ \E c \in swarm : Send(c) /\ UNCHANGED torrentVars
  \/ \E c \in swarm : Reconnect(c) /\ UNCHANGED torrentVars
  \/ \E d \in Pauses : TorrentTimePasses(d)
  \/ \E c \in swarm : \E up \in Reports(c), id \in Ids(c), progress \in Progress[c] :
       TorrentReport(c, up, id, progress)
  \/ \E ip \in IP : Unban(ip) /\ UNCHANGED <<external, sent, torrentVars>>
  \/ CheckAllTorrent
  \/ CleanTorrentHistory

-----------------------------------------------------------------------------
(* Properties.                                                             *)

(***************************************************************************)
(* The snapshot of the last check never remembers a connection that is     *)
(* recorded no more, nor more of it than was recorded: pruning, trimming   *)
(* and recording reach the two maps under different locks, and a snapshot  *)
(* left behind would be compared with the next peer at the endpoint.  In a *)
(* session the reports only grow, so the branch of the relative check for  *)
(* a falling counter is never taken.                                       *)
(***************************************************************************)
SnapshotFollows ==
  /\ DOMAIN lastConns \subseteq DOMAIN conns
  /\ \A c \in DOMAIN lastConns :
       /\ lastConns[c].session <= conns[c].session
       /\ Positive(lastConns[c].total) <= Positive(conns[c].total)
       /\ Comparable(c) => lastConns[c].raw <= conns[c].raw

(***************************************************************************)
(* Bytes counted between two checks were sent to the peer both reports are *)
(* about: peers that follow one another at the same endpoint, with unknown *)
(* counters or IDs in between, are not compared.  A first report that is   *)
(* still zero may be an earlier peer's: every byte is then the later one's.*)
(***************************************************************************)
OnePeerCompared ==
  \A c \in DOMAIN conns :
    Comparable(c) /\ conns[c].raw > lastConns[c].raw /\ lastConns[c].raw > 0
      => checkedPeer[c] = seenPeer[c]

\* The totals of an IP's torrents stay within what was sent to it, those of
\* the connections within their torrent's, and so does the total that BTN is
\* told of a ban, which goes on growing as the banned peer is seen again on any
\* of its ports.
TorrentsCountedOnce ==
  /\ \A ip \in IP :
       Total([t \in {u \in DOMAIN peerUploaded : u[1] = ip} |-> Positive(peerUploaded[t])])
         <= sent[ip]
  /\ \A t \in DOMAIN peerUploaded :
       Total([c \in {k \in DOMAIN conns : TorrentOf(k) = t} |-> Positive(conns[c].total)])
         <= Positive(peerUploaded[t])
  /\ \A ban \in SubmitBans :
       (\E c \in DOMAIN conns : IPOf[c] = ban.ip) => ban.uploaded <= sent[ban.ip]

\* The two reports BTN gets agree: the session's counter in the one is never
\* more than the total of all sessions in the other, though a total is
\* accumulated from growth and the counter is as the client reports it.
OffsetsWithinTotals ==
  \A p \in SubmitPeers, h \in SubmitHistories :
    p.conn = h.conn => Positive(p.uploaded) <= Positive(h.uploaded)
=============================================================================
