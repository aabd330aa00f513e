----------------------------- MODULE IPTraffic -----------------------------
(***************************************************************************)
(* The upload statistics by IP, internal/stats/ip.go and the first half of *)
(* CleanHistory: what was sent to every connection, torrent and IP, and    *)
(* the bans CheckAllIP makes from it.                                      *)
(***************************************************************************)
EXTENDS PeerTraffic

CONSTANTS
  GroupOf,     \* [IP -> IPUploadGroup, the network the uploads add up in]
  Interval,    \* ipUpCheckInterval
  Increment,   \* ipUpCheckIncrementMB
  MaxPorts,    \* maxIPPortCount, 0 for no limit
  Suspects     \* the endpoints whose peers a rule may ban

ASSUME IPSettingsAssumption ==
  /\ Interval \in Nat /\ 2 * Interval <= Retention
  /\ {Increment, MaxPorts} \subseteq Nat

VARIABLES
  counters,     \* TorrentPeers: [recorded Conn -> counter and age]
  torrents,     \* [recorded Torrent -> observed, uploaded, age]
  ipAge,        \* IPMap: [recorded IP -> age]
  lastObserved, \* LastIPMap: [Torrent -> observed at the last check]
  checkAge,     \* the time since the last check
  unrecorded,   \* history: the bytes sent to a recorded Conn since its last
                \* report of a counter; Unknown before its first record
  window        \* history: the bytes sent between the reports of this window

ipStatistics == <<counters, torrents, ipAge, lastObserved, checkAge>>
ipHistory == <<unrecorded, window>>
ipVars == <<ipStatistics, ipHistory>>

IPTypeOK ==
  /\ DOMAIN counters \subseteq Conn
  /\ \A c \in DOMAIN counters :
       /\ [up |-> counters[c].up, id |-> counters[c].id] \in Counter
       /\ counters[c].age \in Age
  /\ DOMAIN torrents \subseteq Torrent
  /\ torrents \in [DOMAIN torrents ->
                     [observed : Nat, uploaded : Nat \cup {Unknown}, age : Age]]
  /\ DOMAIN ipAge \subseteq IP /\ ipAge \in [DOMAIN ipAge -> Age]
  /\ DOMAIN lastObserved \subseteq DOMAIN torrents
  /\ \A t \in DOMAIN lastObserved : lastObserved[t] \in 0 .. torrents[t].observed
  /\ checkAge \in Age \cup {Never}

IPInit ==
  /\ counters = Empty /\ torrents = Empty /\ ipAge = Empty /\ lastObserved = Empty
  /\ checkAge = Never
  /\ unrecorded = [c \in swarm |-> Unknown]
  /\ window = [ip \in IP |-> 0]

-----------------------------------------------------------------------------
(* The client and time.                                                    *)

IPSend(c) ==
  /\ Send(c)
  /\ unrecorded' = [unrecorded EXCEPT ![c] = IF @ = Unknown THEN @ ELSE @ + 1]
  /\ UNCHANGED <<ipStatistics, window>>

IPTimePasses(d) ==
  /\ counters' = [c \in DOMAIN counters |-> [counters[c] EXCEPT !.age = Older(@, d)]]
  /\ torrents' = [t \in DOMAIN torrents |-> [torrents[t] EXCEPT !.age = Older(@, d)]]
  /\ ipAge' = [ip \in DOMAIN ipAge |-> Older(ipAge[ip], d)]
  /\ checkAge' = IF checkAge = Never THEN Never ELSE Older(checkAge, d)
  /\ Forget({c \in DOMAIN counters : counters'[c].age = Far})
  /\ UNCHANGED <<lastObserved, banned, sent, ipHistory>>

-----------------------------------------------------------------------------
(* Recording a peer that is not banned.                                    *)

\* PruneIPPorts: what is left of the baselines.
Unexpired == {c \in DOMAIN counters : counters[c].age <= Retention}

\* Mutant: the first report of a connection counts as growth.
Growth_CountsFirst(seen, up, previous) ==
  IF up < 0 THEN 0 ELSE CounterDelta(up, previous)

\* What a report adds to the window: growth over a known baseline only.
Growth(seen, up, previous) ==
  IF seen /\ previous >= 0 /\ up >= 0 THEN CounterDelta(up, previous) ELSE 0

\* AddIPInfo
AddIPInfo(c, up, id) ==
  LET t == TorrentOf(c)
      kept == Unexpired \cup {k \in DOMAIN counters : IPOf[k] # IPOf[c]}
      seen == c \in kept
      previous == AlignPeerTrafficCounter(
                    IF seen THEN counters[c] ELSE [up |-> Unknown, id |-> NoId, age |-> 0], id)
      total == IF t \in DOMAIN torrents THEN torrents[t]
                                        ELSE [observed |-> 0, uploaded |-> 0, age |-> 0]
  IN  /\ counters' = With(Restrict(counters, kept), c,
                          [previous EXCEPT !.up = Baseline(up, @), !.age = 0])
      /\ torrents' = With(torrents, t,
           [observed |-> total.observed + Growth(seen, up, previous.up),
            uploaded |-> AccumulateCounter(total.uploaded, up, previous.up),
            age |-> 0])
      /\ ipAge' = With(ipAge, IPOf[c], 0)
      /\ UNCHANGED <<lastObserved, checkAge>>

\* ProcessPeer records a peer that CheckPeer finds nothing wrong with.
RecordPeer(c, up, id) ==
  /\ IPOf[c] \notin Banned
  /\ AddIPInfo(c, up, id)
  /\ unrecorded' = [unrecorded EXCEPT ![c] = IF up >= 0 THEN 0 ELSE Positive(@)]
  /\ window' = [window EXCEPT ![IPOf[c]] = @ + IF up >= 0 THEN Positive(unrecorded[c]) ELSE 0]
  /\ UNCHANGED banned

\* A rule of CheckPeer bans the connection or, as port -1, the IP.
BanByRule(c, up, id) ==
  /\ c \in Suspects /\ IPOf[c] \notin Banned
  /\ \E key \in {c, TorrentOf(c)} : AddBlockPeer(c, key, up, id)
  /\ UNCHANGED ipVars

\* A scan comes to the connection.
IPReport(c, up, id) ==
  /\ \/ RecordPeer(c, up, id)
     \/ BanByRule(c, up, id)
     \/ UpdateBlockedPeerTraffic(c, up, id) /\ UNCHANGED ipVars
  /\ UNCHANGED <<external, sent>>

-----------------------------------------------------------------------------
(* CheckAllIP.                                                             *)

TorrentsOf(ip) == {t \in DOMAIN torrents : t[1] = ip}

\* IPUploadedDelta
IPUploadedDelta(ip) ==
  Total([t \in TorrentsOf(ip) |->
           CounterDelta(torrents[t].observed,
                        IF t \in DOMAIN lastObserved THEN lastObserved[t] ELSE 0)])

Ports(ip) == {PortOf[c] : c \in {k \in Unexpired : IPOf[k] = ip}}

\* The IPs a check looks at: seen since the last one, not banned, with a port.
Checked ==
  {ip \in DOMAIN ipAge : ipAge[ip] < checkAge /\ ip \notin Banned /\ Ports(ip) # {}}

\* IsIPTooHighUploaded, for the network's sum.  A window longer than the
\* retention only sets a new baseline.
UploadedByNetwork(group) ==
  IF checkAge = Never \/ checkAge <= Retention
  THEN Total([ip \in {i \in Checked : GroupOf[i] = group} |-> IPUploadedDelta(ip)])
  ELSE 0

TooManyPorts(ip) == MaxPorts > 0 /\ Cardinality(Ports(ip)) > MaxPorts

Offenders ==
  {ip \in Checked : TooManyPorts(ip) \/ UploadedByNetwork(GroupOf[ip]) > Increment}

\* The total recorded of an IP, over its torrents.
UploadedBy(ip) == Total([t \in TorrentsOf(ip) |-> Positive(torrents[t].uploaded)])

\* Mutant: the connections' baselines are not installed.
BlockIPFromStatistics_NotSeeded(ip) ==
  [uploaded |-> UploadedBy(ip), counters |-> Empty]

\* BlockIPFromStatistics: a ban with the total recorded so far.
BlockIPFromStatistics(ip) ==
  SeedBlockedPeerCounters(UploadedBy(ip), Restrict(counters, {c \in Unexpired : IPOf[c] = ip}))

\* The copy that the next check compares with, of what was observed only.
DeepCopyIPMap == [t \in DOMAIN torrents |-> torrents[t].observed]

CheckAllIP ==
  /\ checkAge > Interval
  /\ banned' = [ip \in Banned \cup Offenders |->
                  IF ip \in Banned THEN banned[ip] ELSE BlockIPFromStatistics(ip)]
  /\ counters' = Restrict(counters, Unexpired)
  /\ lastObserved' = DeepCopyIPMap
  /\ checkAge' = 0
  /\ window' = [ip \in IP |-> 0]
  /\ UNCHANGED <<external, torrents, ipAge, sent, unrecorded>>

-----------------------------------------------------------------------------
(* CleanHistory, of the IPs.                                               *)

\* The baselines that remain when these IPs and torrents do.
ForgetCounters(ips, ts) == {c \in Unexpired : IPOf[c] \in ips /\ TorrentOf(c) \in ts}

\* IPs first, then the torrents of those left, then single connections.
CleanIPHistory ==
  \E goneIPs \in Trimmed(Recent(ipAge)) :
    LET ips == DOMAIN Recent(ipAge) \ goneIPs
        ages == [t \in {u \in DOMAIN torrents : u[1] \in ips} |-> torrents[t].age]
    IN  \E goneTorrents \in Trimmed(Recent(ages)) :
          LET ts == DOMAIN Recent(ages) \ goneTorrents
          IN  /\ ipAge' = Restrict(ipAge, ips)
              /\ torrents' = Restrict(torrents, ts)
              /\ lastObserved' = Restrict(lastObserved, DOMAIN lastObserved \cap ts)
              /\ counters' = Restrict(counters, ForgetCounters(ips, ts))
              /\ UNCHANGED <<external, checkAge, banned, sent, ipHistory>>

-----------------------------------------------------------------------------
IPNext ==
  \/ \E c \in swarm : IPSend(c)
  \/ \E c \in swarm : Reconnect(c) /\ UNCHANGED ipVars
  \/ \E d \in Pauses : IPTimePasses(d)
  \/ \E c \in swarm : \E up \in Reports(c), id \in Ids(c) : IPReport(c, up, id)
  \/ \E ip \in IP : Unban(ip) /\ UNCHANGED <<external, sent, ipVars>>
  \/ CheckAllIP
  \/ CleanIPHistory

-----------------------------------------------------------------------------
(* Properties.                                                             *)

(***************************************************************************)
(* CheckAllIP compares with its limit no more than was sent to the IP      *)
(* between the reports of the present window, whatever connections began,  *)
(* ended, were replaced, forgotten or trimmed meanwhile: what a connection *)
(* had sent before it was first seen, or before its history was forgotten, *)
(* never counts, so no ban of "Global-Too high uploaded" rests on it.      *)
(***************************************************************************)
WindowCountsSentOnly == \A ip \in DOMAIN ipAge : IPUploadedDelta(ip) <= window[ip]

\* A byte in a baseline is in the total too: the growth over a baseline is
\* all that is ever added, so a byte in a baseline only would be lost.
BaselinesCounted ==
  /\ \A t \in {TorrentOf(c) : c \in DOMAIN counters} :
       /\ t \in DOMAIN torrents
       /\ Known(Restrict(counters, {c \in DOMAIN counters : TorrentOf(c) = t}))
            <= Positive(torrents[t].uploaded)
  /\ \A ip \in Banned : Known(banned[ip].counters) <= banned[ip].uploaded

\* One case is left out: a baseline under port -1 does not belong to any
\* connection, and what it holds may be counted once more.
IPCountedOnce ==
  /\ \A ip \in DOMAIN ipAge : UploadedBy(ip) <= sent[ip]
  /\ \A ip \in Banned :
       banned[ip].uploaded <= sent[ip]
         + Known(Restrict(banned[ip].counters, DOMAIN banned[ip].counters \cap Torrent))

(***************************************************************************)
(* peer.go:208 says that UpdateBlockedPeerTraffic adds only traffic that   *)
(* was observed: a ban's total would stay within what was sent to the IP.  *)
(***************************************************************************)
BannedTrafficObserved == \A ip \in Banned : banned[ip].uploaded <= sent[ip]
=============================================================================
