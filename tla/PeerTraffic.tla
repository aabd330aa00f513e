---------------------------- MODULE PeerTraffic ----------------------------
(***************************************************************************)
(* The traffic of the peers as the client sees and reports it, and as      *)
(* internal/app/peer.go goes on counting it for a banned peer: what the    *)
(* statistics by IP (IPTraffic) and by torrent (TorrentTraffic) share.     *)
(*                                                                         *)
(* The environment is the client: it sends to its peers, its connections   *)
(* end and new ones begin at the same endpoint, and a report of a peer may *)
(* lack its counter.  Two assumptions about it are what counting needs:    *)
(* A client that reports the ID of a peer does so with every report of a   *)
(* connection that has carried data: otherwise the code counts from the    *)
(* old peer's baseline first and, once it knows the new one, from zero.    *)
(* A connection that has not been recorded for longer than the retention   *)
(* is over: its baseline is forgotten, so its next report counts in full.  *)
(*                                                                         *)
(* As in BanList a time is kept as its distance from the present, up to    *)
(* Far, which no comparison of the code tells from anything beyond.        *)
(***************************************************************************)
EXTENDS TrafficCounter, FiniteSetsExt, Functions, FiniteSets

CONSTANTS
  Conn,        \* the endpoints: a peer's IP and port in a torrent
  IPOf,        \* [Conn -> the IP]
  HashOf,      \* [Conn -> the torrent]
  PortOf,      \* [Conn -> the port]
  PeersAt,     \* [Conn -> the IDs of the peers that may be there], NoId for a
               \* client that reports none
  Uncounted,   \* the endpoints whose reports may lack the counter
  Swarms,      \* the sets of endpoints that may be connected to
  Retention,   \* EffectiveHistoryRetention
  MaxEntries,  \* historyMaxEntries, 0 for no limit
  Pauses,      \* the seconds that may pass between two scans
  MaxRaw,      \* bound: [Conn -> the bytes sent over one connection]
  MaxSent      \* bound: [Conn -> the bytes sent to its IP]

IP == {IPOf[c] : c \in Conn}
TorrentOf(c) == <<IPOf[c], HashOf[c]>>
Torrent == {TorrentOf(c) : c \in Conn}

Far == Retention + 1
Never == Far + 1
Age == 0 .. Far

ASSUME HistoryAssumption ==
  /\ Retention \in Nat \ {0}
  /\ MaxEntries \in Nat
  /\ Pauses \subseteq 1 .. Far
  /\ Swarms \subseteq SUBSET Conn

\* An endpoint is not the key of a whole torrent, and a client either reports
\* the IDs of its peers or does not.
ASSUME EndpointsAssumption ==
  /\ IsFiniteSet(Conn) /\ Conn \cap Torrent = {}
  /\ \A c \in Conn :
       /\ PeersAt[c] # {} /\ PeersAt[c] \subseteq Id \cup {NoId}
       /\ NoId \in PeersAt[c] => PeersAt[c] = {NoId}

VARIABLES
  swarm,  \* external: the endpoints the client is connected to
  raw,    \* external: the bytes sent over the present connection
  peer,   \* external: the ID of the peer at the other end
  banned, \* blockPeerMap: [banned IP -> uploaded, counters]
  sent    \* history: all bytes sent to an IP

external == <<swarm, raw, peer>>
Banned == DOMAIN banned

TrafficTypeOK ==
  /\ swarm \in Swarms
  /\ raw \in [swarm -> Nat]
  /\ peer \in [swarm -> Id \cup {NoId}]
  /\ Banned \subseteq IP
  /\ \A ip \in Banned :
       /\ banned[ip].uploaded \in Nat
       /\ \A k \in DOMAIN banned[ip].counters : banned[ip].counters[k] \in Counter

Empty == [x \in {} |-> 0]

\* Which of the peers is there first makes no difference: IDs are alike.
TrafficInit ==
  /\ swarm \in Swarms
  /\ raw = [c \in swarm |-> 0]
  /\ peer = [c \in swarm |-> CHOOSE id \in PeersAt[c] : TRUE]
  /\ banned = Empty
  /\ sent = [ip \in IP |-> 0]

Positive(n) == IF n > 0 THEN n ELSE 0

\* The sum of a function's values.
Total(f) == MapThenSumSet(LAMBDA x : f[x], DOMAIN f)

With(map, key, value) ==
  [k \in DOMAIN map \cup {key} |-> IF k = key THEN value ELSE map[k]]

-----------------------------------------------------------------------------
(* The client and its peers.                                               *)

Send(c) ==
  /\ c \in swarm
  /\ raw[c] < MaxRaw[c] /\ sent[IPOf[c]] < MaxSent[c]
  /\ raw' = [raw EXCEPT ![c] = @ + 1]
  /\ sent' = [sent EXCEPT ![IPOf[c]] = @ + 1]
  /\ UNCHANGED <<swarm, peer, banned>>

\* The connection ends; another begins, of this peer or another.
Reconnect(c) ==
  /\ raw[c] > 0
  /\ raw' = [raw EXCEPT ![c] = 0]
  /\ peer' \in {[peer EXCEPT ![c] = id] : id \in PeersAt[c]}
  /\ UNCHANGED <<swarm, banned, sent>>

\* The connections not recorded for longer than the retention are over.
Forget(conns) ==
  /\ raw' = [c \in swarm |-> IF c \in conns THEN 0 ELSE raw[c]]
  /\ UNCHANGED <<swarm, peer>>

Older(age, d) == IF age + d < Far THEN age + d ELSE Far

\* What the client may report of a connection.
Reports(c) == {raw[c]} \cup IF c \in Uncounted THEN {Unknown} ELSE {}
Ids(c) == IF raw[c] = 0 THEN {peer[c], NoId} ELSE {peer[c]}

-----------------------------------------------------------------------------
(* The traffic of a banned IP.                                             *)

\* Mutant: an unknown report replaces the baseline.
BlockedPeerCounterDelta_Overwrites(ban, key, up, id) ==
  LET exists == key \in DOMAIN ban.counters
      previous == AlignPeerTrafficCounter(
                    IF exists THEN ban.counters[key] ELSE NoCounter, id)
  IN  [uploaded |-> ban.uploaded + CounterDelta(up, previous.up),
       counters |-> With(ban.counters, key, [previous EXCEPT !.up = up])]

\* blockedPeerCounterDelta, and the addition of the growth it finds.
BlockedPeerCounterDelta(ban, key, up, id) ==
  LET exists == key \in DOMAIN ban.counters
      previous == AlignPeerTrafficCounter(
                    IF exists THEN ban.counters[key] ELSE NoCounter, id)
  IN  [uploaded |-> ban.uploaded + CounterDelta(up, previous.up),
       counters |-> With(ban.counters, key,
                      [previous EXCEPT !.up = IF exists THEN Baseline(up, @) ELSE up])]

\* AddBlockPeer: the first baseline is filed under the key, which is the
\* connection or, for a ban of the whole IP, port -1 of the torrent.
AddBlockPeer(c, key, up, id) ==
  banned' = With(banned, IPOf[c],
              BlockedPeerCounterDelta([uploaded |-> 0, counters |-> Empty], key, up, id))

\* SeedBlockedPeerCounters, after the AddBlockPeer of a ban of the statistics:
\* its total comes with the baselines that it accounts for already.
SeedBlockedPeerCounters(total, baselines) ==
  [uploaded |-> total,
   counters |-> [c \in DOMAIN baselines |-> [up |-> baselines[c].up, id |-> baselines[c].id]]]

\* UpdateBlockedPeerTraffic, when a banned peer is seen again.
UpdateBlockedPeerTraffic(c, up, id) ==
  /\ IPOf[c] \in Banned
  /\ banned' = [banned EXCEPT ![IPOf[c]] = BlockedPeerCounterDelta(@, c, up, id)]

\* ClearBlockPeer lifts a ban, and its counters go with it.
Unban(ip) ==
  /\ ip \in Banned
  /\ banned' = Restrict(banned, Banned \ {ip})

\* BTN_SubmitBans: one report for every port of a ban, all with its total.
SubmitBans == {[ip |-> ip, uploaded |-> banned[ip].uploaded] : ip \in Banned}

-----------------------------------------------------------------------------
(* CleanHistory, for either statistic.                                     *)

\* TrimHistory: the records beyond the limit go, those last seen longest ago
\* first.  Go breaks ties by name; here any of them may go.
Trimmed(age) ==
  {gone \in SUBSET DOMAIN age :
     /\ MaxEntries > 0 =>
          Cardinality(gone) = Positive(Cardinality(DOMAIN age) - MaxEntries)
     /\ MaxEntries = 0 => gone = {}
     /\ \A x \in gone, y \in DOMAIN age \ gone : age[x] >= age[y]}

Recent(age) == Restrict(age, {x \in DOMAIN age : age[x] <= Retention})

-----------------------------------------------------------------------------
(* The sum of the known baselines of a map of counters.                    *)
Known(cs) == Total([k \in DOMAIN cs |-> Positive(cs[k].up)])
=============================================================================
