---------------------------- MODULE QbPeerSync ----------------------------
(***************************************************************************)
(* The peers of qBittorrent's torrents, as internal/client/qbittorrent     *)
(* fetches them: sync/torrentPeers answers with what changed since an      *)
(* earlier answer of the same session, whichever torrent that answer was   *)
(* about, and the driver merges the changes into its copy field by field.  *)
(*                                                                         *)
(* qBittorrent itself is external.  Its session remembers its last answer  *)
(* and the last one the driver is known to have received.                  *)
(***************************************************************************)
EXTENDS Naturals

CONSTANTS
  Torrent,  \* the torrents
  Peer,     \* the keys of peers, "address:port"
  Field,    \* the fields of a peer's record
  Records,  \* what a peer's record may be
  Nil,      \* the nil map, and no answer
  MaxRid    \* the longest run of answers of one session

PeerMap == UNION {[present -> Records] : present \in SUBSET Peer}
NoPeers == [k \in {} |-> Nil]

ASSUME PeerSyncAssumption ==
  /\ Field # {}
  /\ Records \subseteq [Field -> Nat]
  /\ Nil \notin PeerMap
  /\ MaxRid \in Nat \ {0}

VARIABLES
  peersOf,   \* external: the peers of each torrent
  session,   \* external: the answers the session remembers
  peerRID,   \* the number of the last answer, 0 when the copy is not to be used
  peerCache, \* the driver's copy
  got        \* what the scanner was given last: of which torrent, which peers

peerVars == <<peersOf, session, peerRID, peerCache, got>>

NoSession == [rid |-> 0, last |-> NoPeers, acceptedRid |-> 0, accepted |-> NoPeers]

PeersTypeOK ==
  /\ peersOf \in [Torrent -> PeerMap]
  /\ session \in [rid : 0 .. MaxRid, last : PeerMap, acceptedRid : 0 .. MaxRid, accepted : PeerMap]
  /\ peerRID \in 0 .. MaxRid
  /\ peerCache \in PeerMap \cup {Nil}
  /\ got \in [task : Torrent, peers : PeerMap] \cup {Nil}

PeersInit ==
  /\ peersOf = [t \in Torrent |-> NoPeers]
  /\ session = NoSession
  /\ peerRID = 0
  /\ peerCache = Nil
  /\ got = Nil

-----------------------------------------------------------------------------
(* qBittorrent.                                                            *)

\* What changed from one set of peers to another: the fields that differ, all
\* of them for a new peer, and the peers that left.
Differs(old, new, k, f) == k \notin DOMAIN old \/ new[k][f] # old[k][f]
Changes(old, new) ==
  [k \in {k \in DOMAIN new : \E f \in Field : Differs(old, new, k, f)} |->
     [f \in {f \in Field : Differs(old, new, k, f)} |-> new[k][f]]]

\* The answer to a request about torrent t that names answer r, and what the
\* session remembers from then on.
Answer(s, r, t) ==
  LET confirms == r > 0 /\ r = s.rid
      accepted == IF confirms THEN [rid |-> s.rid, peers |-> s.last]
                  ELSE [rid |-> s.acceptedRid, peers |-> s.accepted]
      full == r = 0 \/ r # accepted.rid
      next == IF r = 0 THEN 1 ELSE s.rid + 1
      base == IF full THEN [rid |-> 0, peers |-> NoPeers] ELSE accepted
  IN [session |-> [rid |-> next, last |-> peersOf[t],
                   acceptedRid |-> base.rid, accepted |-> base.peers],
      full |-> full,
      rid |-> next,
      peers |-> Changes(base.peers, peersOf[t]),
      removed |-> DOMAIN base.peers \ DOMAIN peersOf[t]]

\* Peers come, go and change.
PeersChange(t, p) ==
  /\ p # peersOf[t]
  /\ peersOf' = [peersOf EXCEPT ![t] = p]
  /\ got' = Nil
  /\ UNCHANGED <<session, peerRID, peerCache>>

-----------------------------------------------------------------------------
(* The driver.                                                             *)

\* Mutant: Login forgets the copy and keeps its number.
DropPeers_KeepsRID == peerCache' = Nil /\ UNCHANGED peerRID

DropPeers == peerRID' = 0 /\ peerCache' = Nil

\* Mutant: an answer replaces the record it changes.
Overlay_Replaces(record, changed) == changed

\* Mutant: a field that is missing from an answer becomes zero.
Overlay_Whole(record, changed) ==
  [f \in Field |-> IF f \in DOMAIN changed THEN changed[f] ELSE 0]

\* A field that is missing keeps its value.
Overlay(record, changed) ==
  [f \in Field |-> IF f \in DOMAIN changed THEN changed[f] ELSE record[f]]

ZeroRecord == [f \in Field |-> 0]

\* The copy with an answer merged into it.
Merged(answer) ==
  LET known == IF answer.full THEN {} ELSE DOMAIN peerCache
      old(k) == IF k \in known THEN peerCache[k] ELSE ZeroRecord
  IN [k \in (known \ answer.removed) \cup DOMAIN answer.peers |->
        IF k \in DOMAIN answer.peers THEN Overlay(old(k), answer.peers[k]) ELSE peerCache[k]]

\* The answer a request gets; a transport that lost its connection repeats
\* the request, which the session then answers twice.  A session that began
\* with the lost answer is unknown to the driver, and another begins.
Answered(r, t, repeated) ==
  IF repeated /\ session # NoSession THEN Answer(Answer(session, r, t).session, r, t)
                                     ELSE Answer(session, r, t)

\* FetchTorrentPeersResponse when the answer arrives.  The copy is not used
\* when the last full answer is 300 seconds old.
FetchPeers(t, overdue, repeated) ==
  LET r == IF overdue THEN 0 ELSE peerRID
      answer == Answered(r, t, repeated)
  IN /\ answer.rid <= MaxRid
     /\ session' = answer.session
     /\ peerRID' = answer.rid
     /\ peerCache' = IF r = 0 THEN answer.peers ELSE Merged(answer)
     /\ got' = [task |-> t, peers |-> peerCache']
     /\ UNCHANGED peersOf

\* No answer arrives, or one that cannot be parsed, whether or not the session
\* has answered.
FetchPeersFails(t, overdue) ==
  /\ LET answer == Answer(session, IF overdue THEN 0 ELSE peerRID, t)
     IN \/ answer.rid <= MaxRid /\ session' = answer.session
        \/ UNCHANGED session
  /\ DropPeers
  /\ got' = Nil
  /\ UNCHANGED peersOf

-----------------------------------------------------------------------------
(* Properties.                                                             *)

(***************************************************************************)
(* The peers the scanner is given are the torrent's peers, with every      *)
(* field as qBittorrent has it, although the answers are differences from  *)
(* answers about other torrents, may have been lost or asked for twice,    *)
(* and sessions begin anew.                                                *)
(***************************************************************************)
PeersAreCurrent == got # Nil => got.peers = peersOf[got.task]

(***************************************************************************)
(* A request for changes is only sent on top of a copy: merging an answer  *)
(* never writes to the nil map, which would end the program.               *)
(***************************************************************************)
CursorHasCache == peerRID # 0 => peerCache # Nil
=============================================================================
