----------------------------- MODULE Statistics -----------------------------
(***************************************************************************)
(* The statistics store: the upload statistics by IP and by torrent, each  *)
(* with the client, time and the bans they share.                          *)
(*                                                                         *)
(* Both are fed by ProcessPeer and neither reads what the other keeps: the *)
(* only thing they share is the ban of an IP, which ends the recording of  *)
(* its peers in both, and a ban of the one is, to the other, a ban by any  *)
(* rule.  So the two are not run side by side; a behaviour shows one of    *)
(* them, chosen at the start with the swarm it watches.                    *)
(***************************************************************************)
EXTENDS IPTraffic, TorrentTraffic

CONSTANT
  SwarmsOf     \* [{"IP", "torrents"} -> the swarms either is shown with]

ASSUME SwarmsAssumption == SwarmsOf["IP"] \cup SwarmsOf["torrents"] \subseteq Swarms

VARIABLE sampling  \* the statistics that are shown

vars == <<external, banned, sent, ipVars, torrentVars, sampling>>

TypeOK ==
  /\ sampling \in {"IP", "torrents"}
  /\ TrafficTypeOK /\ IPTypeOK /\ TorrentTypeOK

Init ==
  /\ sampling \in {"IP", "torrents"}
  /\ TrafficInit /\ swarm \in SwarmsOf[sampling]
  /\ IPInit /\ TorrentInit

Next ==
  /\ UNCHANGED sampling
  /\ \/ sampling = "IP" /\ IPNext /\ UNCHANGED torrentVars
     \/ sampling = "torrents" /\ TorrentNext /\ UNCHANGED ipVars

Spec == Init /\ [][Next]_vars

-----------------------------------------------------------------------------
(***************************************************************************)
(* Whichever statistics are asked, no byte is counted twice: the totals of *)
(* an IP, its torrents, their connections and its ban stay within what was *)
(* sent; nor is one lost: what is in a baseline is in the total, and what  *)
(* BTN gets of a session is in what it gets of all.                        *)
(***************************************************************************)
CountedOnce ==
  /\ IPCountedOnce /\ BaselinesCounted
  /\ TorrentsCountedOnce /\ OffsetsWithinTotals
=============================================================================
